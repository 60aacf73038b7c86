------------------------ MODULE ScanLifecycleProofs ------------------------
(***************************************************************************)
(* Theorems about ScanLifecycle, for any workers, requests, modules and    *)
(* batches and any number of lost workers, and about ScanWatch, the tab    *)
(* that follows the scans, for any number of them.                         *)
(***************************************************************************)
EXTENDS ScanLifecycle, ScanWatch, TLAPS

LEMMA TypeInit == Init => TypeOK
<1>. SUFFICES ASSUME Init PROVE TypeOK
  OBVIOUS
<1>1. TypeDb
  BY DEF Init, TypeDb, ModStatus
<1>2. TypeRedis
  BY DEF Init, TypeRedis, Payload
<1>3. TypeBroker
  BY DEF Init, TypeBroker
<1>4. wres \in [Workers -> [Modules -> {"none", "ok", "bad"}]]
  BY DEF Init, NoResult
<1>5. TypeWorker
  BY <1>4 DEF Init, TypeWorker, WorkerPC
<1>6. TypeRequest
  BY DEF Init, TypeRequest, RequestPC
<1>. QED BY <1>1, <1>2, <1>3, <1>5, <1>6 DEF TypeOK

\* The labels of execute_scan a step may go to.
LEMMA GoType ==
  ASSUME pc \in [Workers -> WorkerPC], NEW w \in Workers, NEW l \in WorkerPC, Go(w, l)
  PROVE  pc' \in [Workers -> WorkerPC]
  BY DEF Go

LEMMA Labels ==
  /\ "idle" \in WorkerPC /\ "gate" \in WorkerPC /\ "cas" \in WorkerPC
  /\ "recheck" \in WorkerPC /\ "begin" \in WorkerPC /\ "top" \in WorkerPC
  /\ "announce" \in WorkerPC /\ "setprog" \in WorkerPC /\ "precall" \in WorkerPC
  /\ "docall" \in WorkerPC /\ "call" \in WorkerPC /\ "markretry" \in WorkerPC
  /\ "retryprog" \in WorkerPC /\ "retry" \in WorkerPC /\ "retrydo" \in WorkerPC
  /\ "retrycall" \in WorkerPC /\ "closebatch" \in WorkerPC /\ "after" \in WorkerPC
  /\ "setend" \in WorkerPC /\ "final" \in WorkerPC /\ "commit" \in WorkerPC
  /\ "paydone" \in WorkerPC /\ "fatal" \in WorkerPC /\ "fatalcommit" \in WorkerPC
  BY DEF WorkerPC

LEMMA TypeTake ==
  ASSUME TypeOK, NEW w \in Workers, Take(w)
  PROVE  TypeOK'
<1>1. TypeDb' /\ TypeRedis' /\ TypeRequest'
  BY DEF TypeOK, TypeDb, TypeRedis, TypeRequest, Take, db, redis, req
<1>2. TypeBroker'
  BY DEF TypeOK, TypeBroker, Take
<1>3. TypeWorker'
  BY Labels, GoType DEF TypeOK, TypeWorker, Take
<1>. QED BY <1>1, <1>2, <1>3 DEF TypeOK

LEMMA TypeCrash ==
  ASSUME TypeOK, NEW w \in Workers, Crash(w)
  PROVE  TypeOK'
<1>1. TypeDb' /\ TypeRedis' /\ TypeRequest'
  BY DEF TypeOK, TypeDb, TypeRedis, TypeRequest, Crash, db, redis, req
<1>2. TypeBroker'
  <2>1. msg' \in [Tasks -> {"unused", "queued", "taken", "acked"}]
    BY DEF TypeOK, TypeBroker, Crash
  <2>2. revoked' \subseteq Tasks /\ crashes' \in Nat
    BY DEF TypeOK, TypeBroker, Crash
  <2>. QED BY <2>1, <2>2 DEF TypeBroker
<1>3. TypeWorker'
  BY Labels, GoType DEF TypeOK, TypeWorker, Crash
<1>. QED BY <1>1, <1>2, <1>3 DEF TypeOK

LEMMA TypeKilled ==
  ASSUME TypeOK, NEW w \in Workers, Killed(w)
  PROVE  TypeOK'
<1>1. TypeDb' /\ TypeRedis' /\ TypeRequest'
  BY DEF TypeOK, TypeDb, TypeRedis, TypeRequest, Killed, db, redis, req
<1>2. TypeBroker'
  BY DEF TypeOK, TypeBroker, Killed, Return
<1>3. TypeWorker'
  BY Labels, GoType DEF TypeOK, TypeWorker, Killed, Return
<1>. QED BY <1>1, <1>2, <1>3 DEF TypeOK
LEMMA TypeExecuteScan ==
  ASSUME TypeOK, NEW w \in Workers, ExecuteScan(w)
  PROVE  TypeOK'
<1>1. CASE Gate(w)
  <2>1. TypeDb' /\ TypeRequest'
    BY <1>1 DEF TypeOK, TypeDb, TypeRequest, Gate, Return, wquiet, wframe, db, req
  <2>2. TypeRedis' /\ TypeBroker'
    BY <1>1 DEF TypeOK, TypeRedis, TypeBroker, TypeWorker, Gate, Return, wquiet, wframe, redis
  <2>3. TypeWorker'
    BY <1>1, Labels, GoType DEF TypeOK, TypeWorker, Gate, Return, wquiet, wframe, local
  <2>. QED BY <2>1, <2>2, <2>3 DEF TypeOK
<1>2. CASE CompareAndSet(w)
  <2>1. TypeDb' /\ TypeRequest'
    BY <1>2 DEF TypeOK, TypeDb, TypeRequest, CompareAndSet, wquiet, wframe, db, req, ScanStatus, Cancellable
  <2>2. TypeRedis' /\ TypeBroker'
    BY <1>2 DEF TypeOK, TypeRedis, TypeBroker, TypeWorker, CompareAndSet, wquiet, wframe, redis
  <2>3. TypeWorker'
    BY <1>2, Labels, GoType DEF TypeOK, TypeWorker, CompareAndSet, wquiet, wframe, local
  <2>. QED BY <2>1, <2>2, <2>3 DEF TypeOK
<1>3. CASE Recheck(w)
  <2>1. TypeDb' /\ TypeRequest'
    BY <1>3 DEF TypeOK, TypeDb, TypeRequest, Recheck, Return, wquiet, wframe, db, req
  <2>2. TypeRedis' /\ TypeBroker'
    BY <1>3 DEF TypeOK, TypeRedis, TypeBroker, TypeWorker, Recheck, Return, wquiet, wframe, redis
  <2>3. TypeWorker'
    BY <1>3, Labels, GoType DEF TypeOK, TypeWorker, Recheck, Return, wquiet, wframe, local
  <2>. QED BY <2>1, <2>2, <2>3 DEF TypeOK
<1>4. CASE Begin(w)
  <2>1. TypeDb' /\ TypeRequest'
    BY <1>4 DEF TypeOK, TypeDb, TypeRequest, Begin, wquiet, wframe, db, req
  <2>2. TypeRedis' /\ TypeBroker'
    BY <1>4 DEF TypeOK, TypeRedis, TypeBroker, TypeWorker, Begin, wquiet, wframe, redis
  <2>3. TypeWorker'
    <3>1. pc' \in [Workers -> WorkerPC]
      BY <1>4, Labels, GoType DEF TypeOK, TypeWorker, Begin
    <3>2. NoResult \in [Modules -> {"none", "ok", "bad"}]
      BY DEF NoResult
    <3>3. /\ wbatch' \in [Workers -> Nat]
          /\ wres' \in [Workers -> [Modules -> {"none", "ok", "bad"}]]
      BY <1>4, <3>2 DEF TypeOK, TypeWorker, Begin, local
    <3>. QED BY <1>4, <3>1, <3>3 DEF TypeOK, TypeWorker, Begin, wquiet
  <2>. QED BY <2>1, <2>2, <2>3 DEF TypeOK
<1>5. CASE BatchTop(w)
  <2>1. TypeDb' /\ TypeRequest'
    BY <1>5 DEF TypeOK, TypeDb, TypeRequest, BatchTop, Return, AbortCheck, wquiet, wframe, db, req
  <2>2. TypeRedis' /\ TypeBroker'
    BY <1>5 DEF TypeOK, TypeRedis, TypeBroker, TypeWorker, BatchTop, Return, AbortCheck, wquiet, wframe, redis
  <2>3. TypeWorker'
    <3>1. pc' \in [Workers -> WorkerPC]
      BY <1>5, Labels, GoType DEF TypeOK, TypeWorker, BatchTop, Return, AbortCheck
    <3>2. wtask' \in [Workers -> Tasks \cup {0}]
      BY <1>5 DEF TypeOK, TypeWorker, BatchTop, Return, AbortCheck
    <3>3. wbatch' \in [Workers -> Nat]
      BY <1>5 DEF TypeOK, TypeWorker, BatchTop
    <3>. QED BY <1>5, <3>1, <3>2, <3>3 DEF TypeOK, TypeWorker, BatchTop, wquiet
  <2>. QED BY <2>1, <2>2, <2>3 DEF TypeOK
<1>6. CASE Announce(w)
  <2>1. TypeDb' /\ TypeRequest'
    BY <1>6 DEF TypeOK, TypeDb, TypeRequest, Announce, wquiet, wframe, db, req
  <2>2. TypeRedis' /\ TypeBroker'
    BY <1>6 DEF TypeOK, TypeRedis, TypeBroker, TypeWorker, Announce, wquiet, wframe, redis
  <2>3. TypeWorker'
    BY <1>6, Labels, GoType DEF TypeOK, TypeWorker, Announce, wquiet, wframe, local
  <2>. QED BY <2>1, <2>2, <2>3 DEF TypeOK
<1>7. CASE SetProgress(w)
  <2>1. TypeDb' /\ TypeRequest'
    BY <1>7 DEF TypeOK, TypeDb, TypeRequest, SetProgress, wquiet, wframe, db, req
  <2>2. TypeRedis' /\ TypeBroker'
    BY <1>7 DEF TypeOK, TypeRedis, TypeBroker, TypeWorker, SetProgress, wquiet, wframe, redis, Payload
  <2>3. TypeWorker'
    BY <1>7, Labels, GoType DEF TypeOK, TypeWorker, SetProgress, wquiet, wframe, local
  <2>. QED BY <2>1, <2>2, <2>3 DEF TypeOK
<1>8. CASE CheckBeforeCall(w)
  <2>1. TypeDb' /\ TypeRequest'
    BY <1>8 DEF TypeOK, TypeDb, TypeRequest, CheckBeforeCall, Return, AbortCheck, wquiet, wframe, db, req
  <2>2. TypeRedis' /\ TypeBroker'
    BY <1>8 DEF TypeOK, TypeRedis, TypeBroker, TypeWorker, CheckBeforeCall, Return, AbortCheck, wquiet, wframe, redis
  <2>3. TypeWorker'
    BY <1>8, Labels, GoType DEF TypeOK, TypeWorker, CheckBeforeCall, Return, AbortCheck, wquiet, wframe, local
  <2>. QED BY <2>1, <2>2, <2>3 DEF TypeOK
<1>9. CASE CallBatch(w)
  <2>1. TypeDb' /\ TypeRequest'
    BY <1>9 DEF TypeOK, TypeDb, TypeRequest, CallBatch, wquiet, wframe, db, req
  <2>2. TypeRedis' /\ TypeBroker'
    BY <1>9 DEF TypeOK, TypeRedis, TypeBroker, TypeWorker, CallBatch, wquiet, wframe, redis
  <2>3. TypeWorker'
    BY <1>9, Labels, GoType DEF TypeOK, TypeWorker, CallBatch, wquiet, wframe, local, StartCall
  <2>. QED BY <2>1, <2>2, <2>3 DEF TypeOK
<1>10. CASE BatchReturns(w)
  <2>1. TypeDb' /\ TypeRequest'
    BY <1>10 DEF TypeOK, TypeDb, TypeRequest, BatchReturns, wquiet, wframe, db, req, ModRow, ModStatus
  <2>2. TypeRedis' /\ TypeBroker'
    BY <1>10 DEF TypeOK, TypeRedis, TypeBroker, TypeWorker, BatchReturns, wquiet, wframe, redis
  <2>3. TypeWorker'
    BY <1>10, Labels, GoType DEF TypeOK, TypeWorker, BatchReturns, wquiet, wframe, local
  <2>. QED BY <2>1, <2>2, <2>3 DEF TypeOK
<1>11. CASE BatchFails(w)
  <2>1. TypeDb' /\ TypeRequest'
    BY <1>11 DEF TypeOK, TypeDb, TypeRequest, BatchFails, wquiet, wframe, db, req, ModRow, ModStatus
  <2>2. TypeRedis' /\ TypeBroker'
    BY <1>11 DEF TypeOK, TypeRedis, TypeBroker, TypeWorker, BatchFails, wquiet, wframe, redis
  <2>3. TypeWorker'
    BY <1>11, Labels, GoType DEF TypeOK, TypeWorker, BatchFails, wquiet, wframe, local
  <2>. QED BY <2>1, <2>2, <2>3 DEF TypeOK
<1>12. CASE MarkRetrying(w)
  <2>1. TypeDb' /\ TypeRequest'
    BY <1>12 DEF TypeOK, TypeDb, TypeRequest, MarkRetrying, wquiet, wframe, db, req, ModStatus
  <2>2. TypeRedis' /\ TypeBroker'
    BY <1>12 DEF TypeOK, TypeRedis, TypeBroker, TypeWorker, MarkRetrying, wquiet, wframe, redis
  <2>3. TypeWorker'
    BY <1>12, Labels, GoType DEF TypeOK, TypeWorker, MarkRetrying, wquiet, wframe, local, Pending
  <2>. QED BY <2>1, <2>2, <2>3 DEF TypeOK
<1>13. CASE RetryProgress(w)
  <2>1. TypeDb' /\ TypeRequest'
    BY <1>13 DEF TypeOK, TypeDb, TypeRequest, RetryProgress, wquiet, wframe, db, req
  <2>2. TypeRedis' /\ TypeBroker'
    BY <1>13 DEF TypeOK, TypeRedis, TypeBroker, TypeWorker, RetryProgress, wquiet, wframe, redis, Payload
  <2>3. TypeWorker'
    BY <1>13, Labels, GoType DEF TypeOK, TypeWorker, RetryProgress, wquiet, wframe, local
  <2>. QED BY <2>1, <2>2, <2>3 DEF TypeOK
<1>14. CASE RetryNext(w)
  <2>1. TypeDb' /\ TypeRequest'
    BY <1>14 DEF TypeOK, TypeDb, TypeRequest, RetryNext, Return, AbortCheck, wquiet, wframe, db, req
  <2>2. TypeRedis' /\ TypeBroker'
    BY <1>14 DEF TypeOK, TypeRedis, TypeBroker, TypeWorker, RetryNext, Return, AbortCheck, wquiet, wframe, redis
  <2>3. TypeWorker'
    BY <1>14, Labels, GoType DEF TypeOK, TypeWorker, RetryNext, Return, AbortCheck, wquiet, wframe, local
  <2>. QED BY <2>1, <2>2, <2>3 DEF TypeOK
<1>15. CASE CallModule(w)
  <2>1. TypeDb' /\ TypeRequest'
    BY <1>15 DEF TypeOK, TypeDb, TypeRequest, CallModule, wquiet, wframe, db, req
  <2>2. TypeRedis' /\ TypeBroker'
    BY <1>15 DEF TypeOK, TypeRedis, TypeBroker, TypeWorker, CallModule, wquiet, wframe, redis
  <2>3. TypeWorker'
    BY <1>15, Labels, GoType DEF TypeOK, TypeWorker, CallModule, wquiet, wframe, local, StartCall
  <2>. QED BY <2>1, <2>2, <2>3 DEF TypeOK
<1>16. CASE ModuleReturns(w)
  <2>1. TypeDb' /\ TypeRequest'
    BY <1>16 DEF TypeOK, TypeDb, TypeRequest, ModuleReturns, wquiet, wframe, db, req, ModRow, ModStatus
  <2>2. TypeRedis' /\ TypeBroker'
    BY <1>16 DEF TypeOK, TypeRedis, TypeBroker, TypeWorker, ModuleReturns, wquiet, wframe, redis
  <2>3. TypeWorker'
    BY <1>16, Labels, GoType DEF TypeOK, TypeWorker, ModuleReturns, wquiet, wframe, local
  <2>. QED BY <2>1, <2>2, <2>3 DEF TypeOK
<1>17. CASE CloseBatch(w)
  <2>1. TypeDb' /\ TypeRequest'
    BY <1>17 DEF TypeOK, TypeDb, TypeRequest, CloseBatch, wquiet, wframe, db, req
  <2>2. TypeRedis' /\ TypeBroker'
    BY <1>17 DEF TypeOK, TypeRedis, TypeBroker, TypeWorker, CloseBatch, wquiet, wframe, redis
  <2>3. TypeWorker'
    BY <1>17, Labels, GoType DEF TypeOK, TypeWorker, CloseBatch, wquiet, wframe, local
  <2>. QED BY <2>1, <2>2, <2>3 DEF TypeOK
<1>18. CASE CheckAfterBatch(w)
  <2>1. TypeDb' /\ TypeRequest'
    BY <1>18 DEF TypeOK, TypeDb, TypeRequest, CheckAfterBatch, Return, AbortCheck, wquiet, wframe, db, req
  <2>2. TypeRedis' /\ TypeBroker'
    BY <1>18 DEF TypeOK, TypeRedis, TypeBroker, TypeWorker, CheckAfterBatch, Return, AbortCheck, wquiet, wframe, redis
  <2>3. TypeWorker'
    BY <1>18, Labels, GoType DEF TypeOK, TypeWorker, CheckAfterBatch, Return, AbortCheck, wquiet, wframe, local
  <2>. QED BY <2>1, <2>2, <2>3 DEF TypeOK
<1>19. CASE SetBatchEnd(w)
  <2>1. TypeDb' /\ TypeRequest'
    BY <1>19 DEF TypeOK, TypeDb, TypeRequest, SetBatchEnd, wquiet, wframe, db, req
  <2>2. TypeRedis' /\ TypeBroker'
    BY <1>19 DEF TypeOK, TypeRedis, TypeBroker, TypeWorker, SetBatchEnd, wquiet, wframe, redis, Payload
  <2>3. TypeWorker'
    BY <1>19, Labels, GoType DEF TypeOK, TypeWorker, SetBatchEnd, wquiet, wframe, local
  <2>. QED BY <2>1, <2>2, <2>3 DEF TypeOK
<1>20. CASE FinalCheck(w)
  <2>1. TypeDb' /\ TypeRequest'
    BY <1>20 DEF TypeOK, TypeDb, TypeRequest, FinalCheck, Return, wquiet, wframe, db, req
  <2>2. TypeRedis' /\ TypeBroker'
    BY <1>20 DEF TypeOK, TypeRedis, TypeBroker, TypeWorker, FinalCheck, Return, wquiet, wframe, redis
  <2>3. TypeWorker'
    BY <1>20, Labels, GoType DEF TypeOK, TypeWorker, FinalCheck, Return, wquiet, wframe, local
  <2>. QED BY <2>1, <2>2, <2>3 DEF TypeOK
<1>21. CASE FinalCommit(w)
  <2>1. TypeDb' /\ TypeRequest'
    BY <1>21 DEF TypeOK, TypeDb, TypeRequest, FinalCommit, wquiet, wframe, db, req, FinalStatus, ScanStatus, Terminal
  <2>2. TypeRedis' /\ TypeBroker'
    BY <1>21 DEF TypeOK, TypeRedis, TypeBroker, TypeWorker, FinalCommit, wquiet, wframe, redis
  <2>3. TypeWorker'
    BY <1>21, Labels, GoType DEF TypeOK, TypeWorker, FinalCommit, wquiet, wframe, local
  <2>. QED BY <2>1, <2>2, <2>3 DEF TypeOK
<1>22. CASE PayloadDone(w)
  <2>1. TypeDb' /\ TypeRequest'
    BY <1>22 DEF TypeOK, TypeDb, TypeRequest, PayloadDone, Return, wquiet, wframe, db, req
  <2>2. TypeRedis' /\ TypeBroker'
    BY <1>22 DEF TypeOK, TypeRedis, TypeBroker, TypeWorker, PayloadDone, Return, wquiet, wframe, redis, Payload
  <2>3. TypeWorker'
    BY <1>22, Labels, GoType DEF TypeOK, TypeWorker, PayloadDone, Return, wquiet, wframe, local
  <2>. QED BY <2>1, <2>2, <2>3 DEF TypeOK
<1>23. CASE Fatal(w)
  <2>1. TypeDb' /\ TypeRequest'
    BY <1>23 DEF TypeOK, TypeDb, TypeRequest, Fatal, wquiet, wframe, db, req
  <2>2. TypeRedis' /\ TypeBroker'
    BY <1>23 DEF TypeOK, TypeRedis, TypeBroker, TypeWorker, Fatal, wquiet, wframe, redis, Payload
  <2>3. TypeWorker'
    BY <1>23, Labels, GoType DEF TypeOK, TypeWorker, Fatal, wquiet, wframe, local
  <2>. QED BY <2>1, <2>2, <2>3 DEF TypeOK
<1>24. CASE FatalCommit(w)
  <2>1. TypeDb' /\ TypeRequest'
    BY <1>24 DEF TypeOK, TypeDb, TypeRequest, FatalCommit, Return, wquiet, wframe, db, req, ScanStatus, Terminal
  <2>2. TypeRedis' /\ TypeBroker'
    BY <1>24 DEF TypeOK, TypeRedis, TypeBroker, TypeWorker, FatalCommit, Return, wquiet, wframe, redis
  <2>3. TypeWorker'
    BY <1>24, Labels, GoType DEF TypeOK, TypeWorker, FatalCommit, Return, wquiet, wframe, local
  <2>. QED BY <2>1, <2>2, <2>3 DEF TypeOK
<1>. QED BY <1>1, <1>2, <1>3, <1>4, <1>5, <1>6, <1>7, <1>8, <1>9, <1>10, <1>11, <1>12, <1>13, <1>14, <1>15, <1>16, <1>17, <1>18, <1>19, <1>20, <1>21, <1>22, <1>23, <1>24 DEF ExecuteScan

LEMMA TypeWorkerFault ==
  ASSUME TypeOK, NEW w \in Workers, WorkerFault(w)
  PROVE  TypeOK'
<1>1. CASE Raises(w)
  <2>1. TypeDb' /\ TypeRequest'
    BY <1>1 DEF TypeOK, TypeDb, TypeRequest, Raises, wquiet, wframe, db, req
  <2>2. Sent(w) \in Payload
    BY DEF Sent, Payload, TypeOK, TypeRedis
  <2>3. TypeRedis' /\ TypeBroker'
    BY <1>1, <2>2 DEF TypeOK, TypeRedis, TypeBroker, Raises, wquiet, wframe
  <2>4. TypeWorker'
    BY <1>1, Labels, GoType DEF TypeOK, TypeWorker, Raises, wquiet, wframe, local
  <2>. QED BY <2>1, <2>3, <2>4 DEF TypeOK
<1>2. CASE HandlerRaises(w)
  <2>1. TypeDb' /\ TypeRequest'
    BY <1>2 DEF TypeOK, TypeDb, TypeRequest, HandlerRaises, wframe, db, req
  <2>2. TypeRedis' /\ TypeBroker'
    BY <1>2 DEF TypeOK, TypeRedis, TypeBroker, TypeWorker, HandlerRaises, Return, wframe, Payload
  <2>3. TypeWorker'
    BY <1>2, Labels, GoType DEF TypeOK, TypeWorker, HandlerRaises, Return, wframe
  <2>. QED BY <2>1, <2>2, <2>3 DEF TypeOK
<1>. QED BY <1>1, <1>2 DEF WorkerFault

LEMMA TypeCreate ==
  ASSUME TypeOK, Create \/ CreatePublishFails
  PROVE  TypeOK'
<1>1. CASE CreateCommit
  <2>1. TypeDb' /\ TypeRequest'
    BY <1>1, TasksAssumption DEF TypeOK, TypeDb, TypeRequest, CreateCommit, cquiet, cframe, db, req, ScanStatus, Cancellable
  <2>2. TypeRedis' /\ TypeBroker' /\ TypeWorker'
    BY <1>1 DEF TypeOK, TypeRedis, TypeBroker, TypeWorker, CreateCommit, cquiet, cframe, redis, local, Publish
  <2>. QED BY <2>1, <2>2 DEF TypeOK
<1>2. CASE CreatePublish
  <2>1. TypeDb' /\ TypeRequest'
    BY <1>2, TasksAssumption DEF TypeOK, TypeDb, TypeRequest, CreatePublish, cquiet, cframe, db, req, ScanStatus, Cancellable
  <2>2. TypeRedis' /\ TypeBroker' /\ TypeWorker'
    BY <1>2 DEF TypeOK, TypeRedis, TypeBroker, TypeWorker, CreatePublish, cquiet, cframe, redis, local, Publish
  <2>. QED BY <2>1, <2>2 DEF TypeOK
<1>3. CASE CreateSetId
  <2>1. TypeDb' /\ TypeRequest'
    BY <1>3, TasksAssumption DEF TypeOK, TypeDb, TypeRequest, CreateSetId, cquiet, cframe, db, req, ScanStatus, Cancellable
  <2>2. TypeRedis' /\ TypeBroker' /\ TypeWorker'
    BY <1>3 DEF TypeOK, TypeRedis, TypeBroker, TypeWorker, CreateSetId, cquiet, cframe, redis, local, Publish
  <2>. QED BY <2>1, <2>2 DEF TypeOK
<1>4. CASE CreatePublishFails
  <2>1. TypeDb' /\ TypeRequest'
    BY <1>4 DEF TypeOK, TypeDb, TypeRequest, CreatePublishFails, cframe, db, req
  <2>2. TypeRedis' /\ TypeBroker' /\ TypeWorker'
    BY <1>4 DEF TypeOK, TypeRedis, TypeBroker, TypeWorker, CreatePublishFails, cframe, redis, local, Publish
  <2>. QED BY <2>1, <2>2 DEF TypeOK
<1>. QED BY <1>1, <1>2, <1>3, <1>4 DEF Create

LEMMA RequestLabels ==
  /\ "idle" \in RequestPC /\ "cancelFlush" \in RequestPC
  /\ "cancelRedis" \in RequestPC /\ "cancelCommit" \in RequestPC
  /\ "rescanFlush" \in RequestPC /\ "rescanRedis" \in RequestPC
  /\ "rescanPublish" \in RequestPC /\ "rescanCommit" \in RequestPC
  /\ "deleteRedis" \in RequestPC /\ "deleteCommit" \in RequestPC
  /\ "retryCall" \in RequestPC /\ "end" \in RequestPC
  BY DEF RequestPC, RescanPC

LEMMA RGoType ==
  ASSUME rpc \in [Requests -> RequestPC], NEW r \in Requests, NEW l \in RequestPC, RGo(r, l)
  PROVE  rpc' \in [Requests -> RequestPC]
  BY DEF RGo

LEMMA TypeRequests ==
  ASSUME TypeOK, NEW r \in Requests,
         RequestStart(r) \/ RequestStep(r) \/ RequestDies(r) \/ RescanPublishFails(r)
  PROVE  TypeOK'
<1>1. CASE CancelRead(r)
  <2>1. TypeDb'
    BY <1>1 DEF TypeOK, TypeDb, TypeRequest, CancelRead, rquiet, db
  <2>2. TypeRedis' /\ TypeBroker' /\ TypeWorker'
    BY <1>1 DEF TypeOK, TypeDb, TypeRedis, TypeBroker, TypeWorker, CancelRead, rquiet, redis, local
  <2>3. TypeRequest'
    BY <1>1, RequestLabels, RGoType DEF TypeOK, TypeDb, TypeRequest, CancelRead, rquiet
  <2>. QED BY <2>1, <2>2, <2>3 DEF TypeOK
<1>2. CASE CancelFlush(r)
  <2>1. TypeDb'
    BY <1>2 DEF TypeOK, TypeDb, TypeRequest, CancelFlush, rquiet, db
  <2>2. TypeRedis' /\ TypeBroker' /\ TypeWorker'
    BY <1>2 DEF TypeOK, TypeDb, TypeRedis, TypeBroker, TypeWorker, CancelFlush, rquiet, redis, local
  <2>3. TypeRequest'
    BY <1>2, RequestLabels, RGoType DEF TypeOK, TypeDb, TypeRequest, CancelFlush, rquiet
  <2>. QED BY <2>1, <2>2, <2>3 DEF TypeOK
<1>3. CASE CancelRedis(r)
  <2>1. TypeDb'
    BY <1>3 DEF TypeOK, TypeDb, TypeRequest, CancelRedis, rquiet, db
  <2>2. TypeRedis' /\ TypeBroker' /\ TypeWorker'
    BY <1>3 DEF TypeOK, TypeDb, TypeRedis, TypeBroker, TypeWorker, CancelRedis, rquiet, redis, local, Payload
  <2>3. TypeRequest'
    BY <1>3, RequestLabels, RGoType DEF TypeOK, TypeDb, TypeRequest, CancelRedis, rquiet
  <2>. QED BY <2>1, <2>2, <2>3 DEF TypeOK
<1>4. CASE CancelCommit(r)
  <2>1. TypeDb'
    BY <1>4 DEF TypeOK, TypeDb, TypeRequest, CancelCommit, rquiet, db, ScanStatus, Terminal
  <2>2. TypeRedis' /\ TypeBroker' /\ TypeWorker'
    BY <1>4 DEF TypeOK, TypeDb, TypeRedis, TypeBroker, TypeWorker, CancelCommit, rquiet, redis, local
  <2>3. TypeRequest'
    BY <1>4, RequestLabels, RGoType DEF TypeOK, TypeDb, TypeRequest, CancelCommit, rquiet
  <2>. QED BY <2>1, <2>2, <2>3 DEF TypeOK
<1>5. CASE RescanRead(r)
  <2>1. TypeDb'
    BY <1>5 DEF TypeOK, TypeDb, TypeRequest, RescanRead, rquiet, db
  <2>2. TypeRedis' /\ TypeBroker' /\ TypeWorker'
    BY <1>5 DEF TypeOK, TypeDb, TypeRedis, TypeBroker, TypeWorker, RescanRead, rquiet, redis, local
  <2>3. TypeRequest'
    BY <1>5, RequestLabels, RGoType DEF TypeOK, TypeDb, TypeRequest, RescanRead, rquiet
  <2>. QED BY <2>1, <2>2, <2>3 DEF TypeOK
<1>6. CASE RescanFlush(r)
  <2>1. TypeDb'
    BY <1>6 DEF TypeOK, TypeDb, TypeRequest, RescanFlush, rquiet, db
  <2>2. TypeRedis' /\ TypeBroker' /\ TypeWorker'
    BY <1>6 DEF TypeOK, TypeDb, TypeRedis, TypeBroker, TypeWorker, RescanFlush, rquiet, redis, local
  <2>3. TypeRequest'
    BY <1>6, RequestLabels, RGoType DEF TypeOK, TypeDb, TypeRequest, RescanFlush, rquiet
  <2>. QED BY <2>1, <2>2, <2>3 DEF TypeOK
<1>7. CASE RescanRedis(r)
  <2>1. TypeDb'
    BY <1>7 DEF TypeOK, TypeDb, TypeRequest, RescanRedis, rquiet, db
  <2>2. TypeRedis' /\ TypeBroker' /\ TypeWorker'
    BY <1>7 DEF TypeOK, TypeDb, TypeRedis, TypeBroker, TypeWorker, RescanRedis, rquiet, redis, local, Payload
  <2>3. TypeRequest'
    BY <1>7, RequestLabels, RGoType DEF TypeOK, TypeDb, TypeRequest, RescanRedis, rquiet
  <2>. QED BY <2>1, <2>2, <2>3 DEF TypeOK
<1>8. CASE RescanPublish(r)
  <2>1. TypeDb'
    BY <1>8 DEF TypeOK, TypeDb, TypeRequest, RescanPublish, rquiet, db
  <2>2. TypeRedis' /\ TypeBroker' /\ TypeWorker'
    BY <1>8 DEF TypeOK, TypeDb, TypeRedis, TypeBroker, TypeWorker, RescanPublish, rquiet, redis, local, Publish
  <2>3. TypeRequest'
    BY <1>8, RequestLabels, RGoType DEF TypeOK, TypeDb, TypeRequest, RescanPublish, rquiet
  <2>. QED BY <2>1, <2>2, <2>3 DEF TypeOK
<1>9. CASE RescanCommit(r)
  <2>1. TypeDb'
    BY <1>9 DEF TypeOK, TypeDb, TypeRequest, RescanCommit, rquiet, db, ScanStatus, Cancellable, ModStatus
  <2>2. TypeRedis' /\ TypeBroker' /\ TypeWorker'
    BY <1>9 DEF TypeOK, TypeDb, TypeRedis, TypeBroker, TypeWorker, RescanCommit, rquiet, redis, local
  <2>3. TypeRequest'
    BY <1>9, RequestLabels, RGoType DEF TypeOK, TypeDb, TypeRequest, RescanCommit, rquiet
  <2>. QED BY <2>1, <2>2, <2>3 DEF TypeOK
<1>10. CASE DeleteRead(r)
  <2>1. TypeDb'
    BY <1>10 DEF TypeOK, TypeDb, TypeRequest, DeleteRead, rquiet, db
  <2>2. TypeRedis' /\ TypeBroker' /\ TypeWorker'
    BY <1>10 DEF TypeOK, TypeDb, TypeRedis, TypeBroker, TypeWorker, DeleteRead, rquiet, redis, local
  <2>3. TypeRequest'
    BY <1>10, RequestLabels, RGoType DEF TypeOK, TypeDb, TypeRequest, DeleteRead, rquiet
  <2>. QED BY <2>1, <2>2, <2>3 DEF TypeOK
<1>11. CASE DeleteRedis(r)
  <2>1. TypeDb'
    BY <1>11 DEF TypeOK, TypeDb, TypeRequest, DeleteRedis, rquiet, db
  <2>2. TypeRedis' /\ TypeBroker' /\ TypeWorker'
    BY <1>11 DEF TypeOK, TypeDb, TypeRedis, TypeBroker, TypeWorker, DeleteRedis, rquiet, redis, local, Payload
  <2>3. TypeRequest'
    BY <1>11, RequestLabels, RGoType DEF TypeOK, TypeDb, TypeRequest, DeleteRedis, rquiet
  <2>. QED BY <2>1, <2>2, <2>3 DEF TypeOK
<1>12. CASE DeleteCommit(r)
  <2>1. TypeDb'
    BY <1>12 DEF TypeOK, TypeDb, TypeRequest, DeleteCommit, rquiet, db
  <2>2. TypeRedis' /\ TypeBroker' /\ TypeWorker'
    BY <1>12 DEF TypeOK, TypeDb, TypeRedis, TypeBroker, TypeWorker, DeleteCommit, rquiet, redis, local
  <2>3. TypeRequest'
    BY <1>12, RequestLabels, RGoType DEF TypeOK, TypeDb, TypeRequest, DeleteCommit, rquiet
  <2>. QED BY <2>1, <2>2, <2>3 DEF TypeOK
<1>13. CASE RetryCommit(r)
  <2>1. TypeDb'
    BY <1>13 DEF TypeOK, TypeDb, TypeRequest, RetryCommit, rquiet, db, ModStatus, Settled
  <2>2. TypeRedis' /\ TypeBroker' /\ TypeWorker'
    BY <1>13 DEF TypeOK, TypeDb, TypeRedis, TypeBroker, TypeWorker, RetryCommit, rquiet, redis, local
  <2>3. TypeRequest'
    BY <1>13, RequestLabels, RGoType DEF TypeOK, TypeDb, TypeRequest, RetryCommit, rquiet
  <2>. QED BY <2>1, <2>2, <2>3 DEF TypeOK
<1>14. CASE RequestDies(r)
  <2>1. TypeDb'
    BY <1>14 DEF TypeOK, TypeDb, TypeRequest, RequestDies, rquiet, db
  <2>2. TypeRedis' /\ TypeBroker' /\ TypeWorker'
    BY <1>14 DEF TypeOK, TypeDb, TypeRedis, TypeBroker, TypeWorker, RequestDies, rquiet, redis, local
  <2>3. TypeRequest'
    BY <1>14, RequestLabels, RGoType DEF TypeOK, TypeDb, TypeRequest, RequestDies, rquiet
  <2>. QED BY <2>1, <2>2, <2>3 DEF TypeOK
<1>15. CASE \E m \in Modules : RetryRead(r, m)
  <2>1. TypeDb'
    BY <1>15 DEF TypeOK, TypeDb, TypeRequest, RetryRead, rquiet, db
  <2>2. TypeRedis' /\ TypeBroker' /\ TypeWorker'
    BY <1>15 DEF TypeOK, TypeDb, TypeRedis, TypeBroker, TypeWorker, RetryRead, rquiet, redis, local
  <2>3. TypeRequest'
    BY <1>15, RequestLabels, RGoType DEF TypeOK, TypeDb, TypeRequest, RetryRead, rquiet
  <2>. QED BY <2>1, <2>2, <2>3 DEF TypeOK
<1>16. CASE RescanPublishFails(r)
  <2>1. TypeDb'
    BY <1>16 DEF TypeOK, TypeDb, TypeRequest, RescanPublishFails, rquiet, db
  <2>2. TypeRedis' /\ TypeBroker' /\ TypeWorker'
    BY <1>16 DEF TypeOK, TypeDb, TypeRedis, TypeBroker, TypeWorker, RescanPublishFails, rquiet, redis, local, Publish
  <2>3. TypeRequest'
    BY <1>16, RequestLabels, RGoType DEF TypeOK, TypeDb, TypeRequest, RescanPublishFails, rquiet
  <2>. QED BY <2>1, <2>2, <2>3 DEF TypeOK
<1>. QED BY <1>1, <1>2, <1>3, <1>4, <1>5, <1>6, <1>7, <1>8, <1>9, <1>10, <1>11, <1>12, <1>13, <1>14, <1>15, <1>16 DEF RequestStart, RequestStep

LEMMA TypeSse == TypeOK /\ (SseOpen \/ SseEnd) => TypeOK'
<1>. SUFFICES ASSUME TypeOK, SseOpen \/ SseEnd PROVE TypeOK'
  OBVIOUS
<1>1. TypeDb' /\ TypeRedis' /\ TypeBroker' /\ TypeWorker'
  BY DEF TypeOK, TypeDb, TypeRedis, TypeBroker, TypeWorker, SseOpen, SseEnd,
         squiet, db, redis, broker, local
<1>2. TypeRequest'
  BY DEF TypeOK, TypeRequest, SseOpen, SseEnd, squiet, req
<1>. QED BY <1>1, <1>2 DEF TypeOK

\* A step that changes nothing keeps the types.
LEMMA TypeStutter == TypeOK /\ UNCHANGED vars => TypeOK'
<1>. SUFFICES ASSUME TypeOK, UNCHANGED vars PROVE TypeOK'
  OBVIOUS
<1>1. TypeDb' /\ TypeRedis' /\ TypeBroker'
  BY DEF TypeOK, TypeDb, TypeRedis, TypeBroker, vars, db, redis, broker
<1>2. TypeWorker' /\ TypeRequest'
  BY DEF TypeOK, TypeWorker, TypeRequest, vars, local, req
<1>. QED BY <1>1, <1>2 DEF TypeOK

\* Every reachable state is well typed: workers, requests and streams only
\* store the statuses, payloads and positions that the code knows.
THEOREM TypeCorrect == Spec => []TypeOK
<1>1. TypeOK /\ [Next]_vars => TypeOK'
  <2>. SUFFICES ASSUME TypeOK, [Next]_vars PROVE TypeOK'
    OBVIOUS
  <2>1. ASSUME NEW w \in Workers, Take(w) \/ Crash(w) \/ Killed(w) \/ ExecuteScan(w) \/ WorkerFault(w)
        PROVE  TypeOK'
    BY <2>1, TypeTake, TypeCrash, TypeKilled, TypeExecuteScan, TypeWorkerFault
  <2>2. ASSUME NEW r \in Requests,
               RequestStart(r) \/ RequestStep(r) \/ RequestDies(r) \/ RescanPublishFails(r)
        PROVE  TypeOK'
    BY <2>2, TypeRequests
  <2>3. CASE Create \/ CreatePublishFails
    BY <2>3, TypeCreate
  <2>4. CASE SseOpen \/ SseEnd
    BY <2>4, TypeSse
  <2>5. CASE UNCHANGED vars
    BY <2>5, TypeStutter
  <2>. QED BY <2>1, <2>2, <2>3, <2>4, <2>5 DEF Next
<1>. QED BY <1>1, TypeInit, PTL DEF Spec
-----------------------------------------------------------------------------
(* Cancellation.  late[w] <= 1 is not inductive: a worker that has made its  *)
(* one late call must not be about to make another on a cancelled row.       *)

AboutToCall == {"docall", "retrydo"}

LateInv ==
    \A w \in Workers :
        /\ late[w] \in {0, 1}
        /\ late[w] = 1 /\ pc[w] \in AboutToCall => status # "cancelled"

LEMMA LateWorkerStep ==
  ASSUME TypeOK, LateInv, NEW w \in Workers,
         Take(w) \/ Crash(w) \/ Killed(w) \/ ExecuteScan(w) \/ WorkerFault(w)
  PROVE  LateInv'
<1>. USE DEF TypeOK, TypeWorker, LateInv, AboutToCall, Go
<1>1. CASE Take(w)
  BY <1>1 DEF Take, db
<1>2. CASE Crash(w)
  BY <1>2 DEF Crash, db
<1>3. CASE Killed(w)
  BY <1>3 DEF Killed, Return, db
<1>4. CASE Gate(w)
  BY <1>4 DEF Gate, Return, db
<1>5. CASE CompareAndSet(w)
  BY <1>5 DEF CompareAndSet, db
<1>6. CASE Recheck(w)
  BY <1>6 DEF Recheck, Return, db
<1>7. CASE Begin(w)
  BY <1>7 DEF Begin, db
<1>8. CASE BatchTop(w)
  BY <1>8 DEF BatchTop, Return, AbortCheck, Aborted, db
<1>9. CASE Announce(w)
  BY <1>9 DEF Announce, db
<1>10. CASE SetProgress(w)
  BY <1>10 DEF SetProgress, db
<1>11. CASE CheckBeforeCall(w)
  BY <1>11 DEF CheckBeforeCall, Return, AbortCheck, Aborted, db
<1>12. CASE BatchReturns(w)
  BY <1>12 DEF BatchReturns, db
<1>13. CASE BatchFails(w)
  BY <1>13 DEF BatchFails, db
<1>14. CASE MarkRetrying(w)
  BY <1>14 DEF MarkRetrying, db
<1>15. CASE RetryProgress(w)
  BY <1>15 DEF RetryProgress, db
<1>16. CASE RetryNext(w)
  BY <1>16 DEF RetryNext, Return, AbortCheck, Aborted, db
<1>17. CASE ModuleReturns(w)
  BY <1>17 DEF ModuleReturns, db
<1>18. CASE CloseBatch(w)
  BY <1>18 DEF CloseBatch, db
<1>19. CASE CheckAfterBatch(w)
  BY <1>19 DEF CheckAfterBatch, Return, AbortCheck, Aborted, db
<1>20. CASE SetBatchEnd(w)
  BY <1>20 DEF SetBatchEnd, db
<1>21. CASE FinalCheck(w)
  BY <1>21 DEF FinalCheck, Return, db
<1>22. CASE FinalCommit(w)
  BY <1>22 DEF FinalCommit, FinalStatus, db
<1>23. CASE PayloadDone(w)
  BY <1>23 DEF PayloadDone, Return, db
<1>24. CASE Fatal(w)
  BY <1>24 DEF Fatal, db
<1>25. CASE FatalCommit(w)
  BY <1>25 DEF FatalCommit, Return, db
<1>26. CASE CallBatch(w)
  BY <1>26 DEF CallBatch, StartCall, db
<1>27. CASE CallModule(w)
  BY <1>27 DEF CallModule, StartCall, db
<1>28. CASE Raises(w)
  BY <1>28 DEF Raises, db
<1>29. CASE HandlerRaises(w)
  BY <1>29 DEF HandlerRaises, Return, db
<1>. QED BY <1>1, <1>2, <1>3, <1>4, <1>5, <1>6, <1>7, <1>8, <1>9, <1>10, <1>11, <1>12, <1>13, <1>14, <1>15, <1>16, <1>17, <1>18, <1>19, <1>20, <1>21, <1>22, <1>23, <1>24, <1>25, <1>26, <1>27, <1>28, <1>29
      DEF ExecuteScan, WorkerFault

\* Requests change the status to CANCELLED only where late is reset.
LEMMA LateOtherStep ==
  ASSUME TypeOK, LateInv,
         \/ Create \/ CreatePublishFails \/ SseOpen \/ SseEnd \/ UNCHANGED vars
         \/ \E r \in Requests :
               RequestStart(r) \/ RequestStep(r) \/ RequestDies(r) \/ RescanPublishFails(r)
  PROVE  LateInv'
<1>. USE DEF LateInv, AboutToCall
<1>1. CASE Create \/ CreatePublishFails
  BY <1>1 DEF Create, CreateCommit, CreatePublish, CreatePublishFails, CreateSetId, cquiet, cframe, db
<1>2. CASE SseOpen \/ SseEnd \/ UNCHANGED vars
  BY <1>2 DEF SseOpen, SseEnd, squiet, vars, db
<1>3. ASSUME NEW r \in Requests, RequestStart(r) PROVE LateInv'
  BY <1>3 DEF RequestStart, CancelRead, RescanRead, DeleteRead, RetryRead, rquiet, db
<1>4. ASSUME NEW r \in Requests, RequestDies(r) \/ RescanPublishFails(r) PROVE LateInv'
  BY <1>4 DEF RequestDies, RescanPublishFails, rquiet, db
<1>5. ASSUME NEW r \in Requests, RequestStep(r) PROVE LateInv'
  <2>1. CASE CancelCommit(r)
    BY <2>1 DEF CancelCommit, rquiet
  <2>2. CASE RescanCommit(r) \/ DeleteCommit(r)
    BY <2>2 DEF RescanCommit, DeleteCommit, rquiet
  <2>3. CASE CancelFlush(r) \/ CancelRedis(r) \/ RescanFlush(r) \/ RescanRedis(r)
             \/ RescanPublish(r) \/ DeleteRedis(r) \/ RetryCommit(r)
    BY <2>3 DEF CancelFlush, CancelRedis, RescanFlush, RescanRedis, RescanPublish,
         DeleteRedis, RetryCommit, rquiet, db
  <2>. QED BY <1>5, <2>1, <2>2, <2>3 DEF RequestStep
<1>. QED BY <1>1, <1>2, <1>3, <1>4, <1>5

\* A committed cancel stops each worker after at most one more call to the
\* scan service: execute_scan looks at the row between any two calls.
THEOREM CancelStops == Spec => []CancelStopsWork
<1>1. Init => LateInv
  BY DEF Init, LateInv
<1>2. TypeOK /\ LateInv /\ [Next]_vars => LateInv'
  BY LateWorkerStep, LateOtherStep DEF Next
<1>3. LateInv => CancelStopsWork
  BY DEF LateInv, CancelStopsWork
<1>. QED BY <1>1, <1>2, <1>3, TypeCorrect, PTL DEF Spec

-----------------------------------------------------------------------------
(* A scan that has ended.                                                    *)

Revival == status \in Terminal /\ status' \in Cancellable
RescanCommits == \E r \in Requests : rpc[r] = "rescanCommit" /\ rpc'[r] = "end"

LEMMA WorkerNeverRevives ==
  ASSUME NEW w \in Workers, Take(w) \/ Crash(w) \/ Killed(w) \/ ExecuteScan(w) \/ WorkerFault(w)
  PROVE  ~Revival
<1>. USE DEF Revival, Terminal, Cancellable
<1>1. CASE Take(w) \/ Crash(w) \/ Killed(w) \/ WorkerFault(w)
  BY <1>1 DEF Take, Crash, Killed, WorkerFault, Raises, HandlerRaises, db
<1>2. CASE CompareAndSet(w)
  BY <1>2 DEF CompareAndSet
<1>3. CASE FinalCommit(w)
  BY <1>3 DEF FinalCommit, FinalStatus
<1>4. CASE FatalCommit(w)
  BY <1>4 DEF FatalCommit
<1>5. ASSUME UNCHANGED status PROVE ~Revival
  BY <1>5
<1>6. CASE ~(CompareAndSet(w) \/ FinalCommit(w) \/ FatalCommit(w)) /\ ExecuteScan(w)
  BY <1>5, <1>6 DEF ExecuteScan, Gate, Recheck, Begin, BatchTop, Announce,
         SetProgress, CheckBeforeCall, CallBatch, BatchReturns, BatchFails,
         MarkRetrying, RetryProgress, RetryNext, CallModule, ModuleReturns,
         CloseBatch, CheckAfterBatch, SetBatchEnd, FinalCheck, PayloadDone,
         Fatal, db
<1>. QED BY <1>1, <1>2, <1>3, <1>4, <1>6

LEMMA RequestRevival ==
  ASSUME TypeOK, NEW r \in Requests,
         RequestStart(r) \/ RequestStep(r) \/ RequestDies(r) \/ RescanPublishFails(r),
         Revival
  PROVE  RescanCommits
<1>. USE DEF Revival, Terminal, Cancellable
<1>1. CASE RequestStart(r) \/ RequestDies(r) \/ RescanPublishFails(r)
  BY <1>1 DEF RequestStart, CancelRead, RescanRead, DeleteRead, RetryRead,
              RequestDies, RescanPublishFails, db
<1>2. CASE RescanCommit(r)
  <2>1. rpc[r] = "rescanCommit" /\ rpc'[r] = "end"
    BY <1>2 DEF RescanCommit, RGo, TypeOK, TypeRequest
  <2>. QED BY <2>1 DEF RescanCommits
<1>3. CASE CancelCommit(r) \/ DeleteCommit(r)
  BY <1>3 DEF CancelCommit, DeleteCommit
<1>4. CASE CancelFlush(r) \/ CancelRedis(r) \/ RescanFlush(r) \/ RescanRedis(r)
           \/ RescanPublish(r) \/ DeleteRedis(r) \/ RetryCommit(r)
  BY <1>4 DEF CancelFlush, CancelRedis, RescanFlush, RescanRedis,
              RescanPublish, DeleteRedis, RetryCommit, db
<1>. QED BY <1>1, <1>2, <1>3, <1>4 DEF RequestStep

\* Only a committed rescan makes an ended scan run again: no worker and no
\* other request takes the row from a terminal status back to an open one.
THEOREM OnlyRescanRevives == Spec => TerminalLeftOnlyByRescan
<1>1. TypeOK /\ [Next]_vars => [Revival => RescanCommits]_vars
  <2>. SUFFICES ASSUME TypeOK, Next, Revival PROVE RescanCommits
    OBVIOUS
  <2>1. CASE Create \/ CreatePublishFails
    BY <2>1 DEF Create, CreateCommit, CreatePublish, CreatePublishFails, CreateSetId, db, Revival,
                Terminal, Cancellable
  <2>2. CASE SseOpen \/ SseEnd
    BY <2>2 DEF SseOpen, SseEnd, squiet, db, Revival, Terminal, Cancellable
  <2>. QED BY <2>1, <2>2, WorkerNeverRevives, RequestRevival DEF Next
<1>. QED BY <1>1, TypeCorrect, PTL
     DEF Spec, TerminalLeftOnlyByRescan, Revival, RescanCommits
-----------------------------------------------------------------------------
(* What COMPLETED says of the module rows.  Until a rescan replaces the      *)
(* rows, only one worker gets past the first read of execute_scan: the scan  *)
(* has one message then (Fresh), it is held by one worker at a time, and     *)
(* once the scan has ended a delivery returns at the gate or fails there,    *)
(* and its handler writes no module row (Alone).  The other                  *)
(* worker's results are in the rows (Recorded), it has one for every module  *)
(* of the batches it left behind (Progressed), and after its final commit it *)
(* writes no row (Over).                                                     *)

HoldsMessage == \A w \in Workers : pc[w] = "idle" <=> wtask[w] = 0

Untouched == gen = 0 /\ (status \in Cancellable \/ cpc = "new")

OneMessage ==
    /\ \A t \in Tasks : t # 1 => msg[t] = "unused"
    /\ cpc \in {"new", "publish"} => msg[1] = "unused"
    /\ \A w \in Workers : wtask[w] # 0 => wtask[w] = 1 /\ msg[1] = "taken"
    /\ \A v, w \in Workers : wtask[v] # 0 /\ wtask[w] # 0 => v = w

NoRescan == \A r \in Requests : rpc[r] \notin RescanPC

Fresh == Untouched => OneMessage /\ NoRescan

Unborn == cpc = "new" => status = "absent" /\ gen = 0

\* A request that has flushed its UPDATE holds the row, which exists.
Locking ==
    \A r \in Requests :
        rpc[r] \in {"cancelRedis", "cancelCommit", "rescanRedis", "rescanPublish",
                   "rescanCommit"} => lock = r /\ status # "absent"

\* Where a worker writes no module row: outside the task, at its first read,
\* or in its handler.
Outside == {"idle", "gate", "fatal", "fatalcommit"}

Alone ==
    gen = 0 => \A v, w \in Workers :
        pc[v] \notin Outside /\ pc[w] \notin Outside => v = w

\* The labels a worker reaches once it has begun with the batches.
Loop == WorkerPC \ {"idle", "gate", "cas", "recheck", "begin", "fatal", "fatalcommit"}
InBatch == {"announce", "setprog", "precall", "docall", "call", "markretry",
            "retryprog", "retry", "retrydo", "retrycall", "closebatch", "after",
            "setend"}
Ending  == {"final", "commit", "paydone"}

Recorded ==
    (gen = 0 /\ status # "absent") =>
        \A w \in Workers : pc[w] \in Loop =>
            \A m \in Modules : wres[w][m] # "none" => mod[m] \in Settled

AllAnswered(w, b) == \A m \in Batches[b] : wres[w][m] # "none"

Advanced(w) ==
    /\ wbatch[w] > 0
    /\ \A b \in 1..Len(Batches) : b < wbatch[w] => AllAnswered(w, b)
    /\ pc[w] \in InBatch => wbatch[w] <= Len(Batches)
    /\ pc[w] \in {"retryprog", "retry", "retrydo", "retrycall"} =>
           Pending(w) \subseteq wmod[w]
    /\ pc[w] \in {"closebatch", "after", "setend"} => AllAnswered(w, wbatch[w])
    /\ pc[w] \in Ending => wbatch[w] > Len(Batches)

Progressed == \A w \in Workers : pc[w] \in Loop => Advanced(w)

Over ==
    (gen = 0 /\ status = "completed") =>
        \A w \in Workers : pc[w] \in Outside \cup {"paydone"}

\* A worker's step leaves the other workers, the requests and the identity of
\* the rows alone, and passes the gate only while the scan has not ended.
LEMMA WorkerFrame ==
  ASSUME TypeOK, HoldsMessage, NEW w \in Workers,
         Take(w) \/ Crash(w) \/ Killed(w) \/ ExecuteScan(w) \/ WorkerFault(w)
  PROVE  /\ \A v \in Workers \ {w} : /\ pc'[v] = pc[v] /\ wtask'[v] = wtask[v]
                                    /\ wbatch'[v] = wbatch[v]
                                    /\ wres'[v] = wres[v] /\ wmod'[v] = wmod[v]
         /\ UNCHANGED <<gen, cpc, rpc>>
         /\ pc'[w] = "idle" <=> wtask'[w] = 0
         /\ pc'[w] \notin Outside =>
                pc[w] \notin Outside \/ status \in Cancellable
<1>. USE DEF TypeOK, TypeWorker, TypeBroker, HoldsMessage, Go, Outside, db, req, local
<1>1. CASE Take(w)
  BY <1>1, TasksAssumption DEF Take
<1>2. CASE Crash(w)
  BY <1>2 DEF Crash
<1>3. CASE Killed(w)
  BY <1>3 DEF Killed, Return
<1>4. CASE Gate(w)
  BY <1>4 DEF Gate, Return, wquiet, wframe
<1>5. CASE CompareAndSet(w)
  BY <1>5 DEF CompareAndSet, wquiet, wframe
<1>6. CASE Recheck(w)
  BY <1>6 DEF Recheck, Return, wquiet, wframe
<1>7. CASE Begin(w)
  BY <1>7 DEF Begin, wquiet, wframe
<1>8. CASE BatchTop(w)
  BY <1>8 DEF BatchTop, Return, AbortCheck, wquiet, wframe
<1>9. CASE Announce(w)
  BY <1>9 DEF Announce, wquiet, wframe
<1>10. CASE SetProgress(w)
  BY <1>10 DEF SetProgress, wquiet, wframe
<1>11. CASE CheckBeforeCall(w)
  BY <1>11 DEF CheckBeforeCall, Return, AbortCheck, wquiet, wframe
<1>12. CASE CallBatch(w)
  BY <1>12 DEF CallBatch, StartCall, wquiet, wframe
<1>13. CASE BatchReturns(w)
  BY <1>13 DEF BatchReturns, wquiet, wframe
<1>14. CASE BatchFails(w)
  BY <1>14 DEF BatchFails, wquiet, wframe
<1>15. CASE MarkRetrying(w)
  BY <1>15 DEF MarkRetrying, wquiet, wframe
<1>16. CASE RetryProgress(w)
  BY <1>16 DEF RetryProgress, wquiet, wframe
<1>17. CASE RetryNext(w)
  BY <1>17 DEF RetryNext, Return, AbortCheck, wquiet, wframe
<1>18. CASE CallModule(w)
  BY <1>18 DEF CallModule, StartCall, wquiet, wframe
<1>19. CASE ModuleReturns(w)
  BY <1>19 DEF ModuleReturns, wquiet, wframe
<1>20. CASE CloseBatch(w)
  BY <1>20 DEF CloseBatch, wquiet, wframe
<1>21. CASE CheckAfterBatch(w)
  BY <1>21 DEF CheckAfterBatch, Return, AbortCheck, wquiet, wframe
<1>22. CASE SetBatchEnd(w)
  BY <1>22 DEF SetBatchEnd, wquiet, wframe
<1>23. CASE FinalCheck(w)
  BY <1>23 DEF FinalCheck, Return, wquiet, wframe
<1>24. CASE FinalCommit(w)
  BY <1>24 DEF FinalCommit, wquiet, wframe
<1>25. CASE PayloadDone(w)
  BY <1>25 DEF PayloadDone, Return, wquiet, wframe
<1>26. CASE Fatal(w)
  BY <1>26 DEF Fatal, wquiet, wframe
<1>27. CASE FatalCommit(w)
  BY <1>27 DEF FatalCommit, Return, wquiet, wframe
<1>28. CASE Raises(w)
  BY <1>28 DEF Raises, wquiet, wframe, UsesRedis, UsesDb
<1>29. CASE HandlerRaises(w)
  BY <1>29 DEF HandlerRaises, Return, wframe
<1>. QED BY <1>1, <1>2, <1>3, <1>4, <1>5, <1>6, <1>7, <1>8, <1>9, <1>10,
         <1>11, <1>12, <1>13, <1>14, <1>15, <1>16, <1>17, <1>18, <1>19,
         <1>20, <1>21, <1>22, <1>23, <1>24, <1>25, <1>26, <1>27, <1>28, <1>29
      DEF ExecuteScan, WorkerFault

\* It takes a queued message, drops a revoked one, or gives its own up.
LEMMA MessageStep ==
  ASSUME TypeOK, NEW w \in Workers,
         Take(w) \/ Crash(w) \/ Killed(w) \/ ExecuteScan(w) \/ WorkerFault(w)
  PROVE  \/ msg' = msg /\ wtask'[w] = wtask[w]
         \/ \E t \in Tasks : /\ msg[t] = "queued" /\ wtask'[w] = wtask[w]
                             /\ msg' = [msg EXCEPT ![t] = "acked"]
         \/ \E t \in Tasks : /\ msg[t] = "queued" /\ pc[w] = "idle" /\ wtask'[w] = t
                             /\ msg' = [msg EXCEPT ![t] = "taken"]
         \/ \E e \in {"queued", "acked"} :
                /\ pc[w] # "idle" /\ wtask'[w] = 0
                /\ msg' = [msg EXCEPT ![wtask[w]] = e]
<1>. USE DEF TypeOK, TypeWorker, TypeBroker, local
<1>1. CASE Take(w)
  BY <1>1 DEF Take
<1>2. CASE Crash(w)
  BY <1>2 DEF Crash
<1>3. CASE Killed(w)
  BY <1>3 DEF Killed, Return
<1>4. CASE Gate(w)
  BY <1>4 DEF Gate, Return, wquiet, wframe
<1>5. CASE CompareAndSet(w)
  BY <1>5 DEF CompareAndSet, wquiet, wframe
<1>6. CASE Recheck(w)
  BY <1>6 DEF Recheck, Return, wquiet, wframe
<1>7. CASE Begin(w)
  BY <1>7 DEF Begin, wquiet, wframe
<1>8. CASE BatchTop(w)
  BY <1>8 DEF BatchTop, Return, AbortCheck, wquiet, wframe
<1>9. CASE Announce(w)
  BY <1>9 DEF Announce, wquiet, wframe
<1>10. CASE SetProgress(w)
  BY <1>10 DEF SetProgress, wquiet, wframe
<1>11. CASE CheckBeforeCall(w)
  BY <1>11 DEF CheckBeforeCall, Return, AbortCheck, wquiet, wframe
<1>12. CASE CallBatch(w)
  BY <1>12 DEF CallBatch, StartCall, wquiet, wframe
<1>13. CASE BatchReturns(w)
  BY <1>13 DEF BatchReturns, wquiet, wframe
<1>14. CASE BatchFails(w)
  BY <1>14 DEF BatchFails, wquiet, wframe
<1>15. CASE MarkRetrying(w)
  BY <1>15 DEF MarkRetrying, wquiet, wframe
<1>16. CASE RetryProgress(w)
  BY <1>16 DEF RetryProgress, wquiet, wframe
<1>17. CASE RetryNext(w)
  BY <1>17 DEF RetryNext, Return, AbortCheck, wquiet, wframe
<1>18. CASE CallModule(w)
  BY <1>18 DEF CallModule, StartCall, wquiet, wframe
<1>19. CASE ModuleReturns(w)
  BY <1>19 DEF ModuleReturns, wquiet, wframe
<1>20. CASE CloseBatch(w)
  BY <1>20 DEF CloseBatch, wquiet, wframe
<1>21. CASE CheckAfterBatch(w)
  BY <1>21 DEF CheckAfterBatch, Return, AbortCheck, wquiet, wframe
<1>22. CASE SetBatchEnd(w)
  BY <1>22 DEF SetBatchEnd, wquiet, wframe
<1>23. CASE FinalCheck(w)
  BY <1>23 DEF FinalCheck, Return, wquiet, wframe
<1>24. CASE FinalCommit(w)
  BY <1>24 DEF FinalCommit, wquiet, wframe
<1>25. CASE PayloadDone(w)
  BY <1>25 DEF PayloadDone, Return, wquiet, wframe
<1>26. CASE Fatal(w)
  BY <1>26 DEF Fatal, wquiet, wframe
<1>27. CASE FatalCommit(w)
  BY <1>27 DEF FatalCommit, Return, wquiet, wframe
<1>28. CASE Raises(w)
  BY <1>28 DEF Raises, wquiet, wframe, UsesRedis, UsesDb
<1>29. CASE HandlerRaises(w)
  BY <1>29 DEF HandlerRaises, Return, wframe
<1>. QED BY <1>1, <1>2, <1>3, <1>4, <1>5, <1>6, <1>7, <1>8, <1>9, <1>10,
         <1>11, <1>12, <1>13, <1>14, <1>15, <1>16, <1>17, <1>18, <1>19,
         <1>20, <1>21, <1>22, <1>23, <1>24, <1>25, <1>26, <1>27, <1>28, <1>29
      DEF ExecuteScan, WorkerFault

\* It opens no scan that is not open, and completes one only in its final commit.
LEMMA StatusStep ==
  ASSUME TypeOK, NEW w \in Workers,
         Take(w) \/ Crash(w) \/ Killed(w) \/ ExecuteScan(w) \/ WorkerFault(w)
  PROVE  /\ status' = "absent" <=> status = "absent"
         /\ status' \in Cancellable => status \in Cancellable
         /\ status' = "completed" =>
                \/ status = "completed"
                \/ /\ pc[w] = "commit" /\ pc'[w] = "paydone"
                   /\ UNCHANGED <<mod, wres, wbatch>>
<1>. USE DEF TypeOK, TypeWorker, Cancellable, Go, Vanished, db, local
<1>1. CASE Take(w)
  BY <1>1 DEF Take
<1>2. CASE Crash(w)
  BY <1>2 DEF Crash
<1>3. CASE Killed(w)
  BY <1>3 DEF Killed, Return
<1>4. CASE Gate(w)
  BY <1>4 DEF Gate, Return, wquiet, wframe
<1>5. CASE CompareAndSet(w)
  BY <1>5 DEF CompareAndSet, wquiet, wframe
<1>6. CASE Recheck(w)
  BY <1>6 DEF Recheck, Return, wquiet, wframe
<1>7. CASE Begin(w)
  BY <1>7 DEF Begin, wquiet, wframe
<1>8. CASE BatchTop(w)
  BY <1>8 DEF BatchTop, Return, AbortCheck, wquiet, wframe
<1>9. CASE Announce(w)
  BY <1>9 DEF Announce, wquiet, wframe
<1>10. CASE SetProgress(w)
  BY <1>10 DEF SetProgress, wquiet, wframe
<1>11. CASE CheckBeforeCall(w)
  BY <1>11 DEF CheckBeforeCall, Return, AbortCheck, wquiet, wframe
<1>12. CASE CallBatch(w)
  BY <1>12 DEF CallBatch, StartCall, wquiet, wframe
<1>13. CASE BatchReturns(w)
  BY <1>13 DEF BatchReturns, wquiet, wframe
<1>14. CASE BatchFails(w)
  BY <1>14 DEF BatchFails, wquiet, wframe
<1>15. CASE MarkRetrying(w)
  BY <1>15 DEF MarkRetrying, wquiet, wframe
<1>16. CASE RetryProgress(w)
  BY <1>16 DEF RetryProgress, wquiet, wframe
<1>17. CASE RetryNext(w)
  BY <1>17 DEF RetryNext, Return, AbortCheck, wquiet, wframe
<1>18. CASE CallModule(w)
  BY <1>18 DEF CallModule, StartCall, wquiet, wframe
<1>19. CASE ModuleReturns(w)
  BY <1>19 DEF ModuleReturns, wquiet, wframe
<1>20. CASE CloseBatch(w)
  BY <1>20 DEF CloseBatch, wquiet, wframe
<1>21. CASE CheckAfterBatch(w)
  BY <1>21 DEF CheckAfterBatch, Return, AbortCheck, wquiet, wframe
<1>22. CASE SetBatchEnd(w)
  BY <1>22 DEF SetBatchEnd, wquiet, wframe
<1>23. CASE FinalCheck(w)
  BY <1>23 DEF FinalCheck, Return, wquiet, wframe
<1>24. CASE FinalCommit(w)
  BY <1>24 DEF FinalCommit, wquiet, wframe, FinalStatus
<1>25. CASE PayloadDone(w)
  BY <1>25 DEF PayloadDone, Return, wquiet, wframe
<1>26. CASE Fatal(w)
  BY <1>26 DEF Fatal, wquiet, wframe
<1>27. CASE FatalCommit(w)
  BY <1>27 DEF FatalCommit, Return, wquiet, wframe
<1>28. CASE Raises(w)
  BY <1>28 DEF Raises, wquiet, wframe, UsesRedis, UsesDb
<1>29. CASE HandlerRaises(w)
  BY <1>29 DEF HandlerRaises, Return, wframe
<1>. QED BY <1>1, <1>2, <1>3, <1>4, <1>5, <1>6, <1>7, <1>8, <1>9, <1>10,
         <1>11, <1>12, <1>13, <1>14, <1>15, <1>16, <1>17, <1>18, <1>19,
         <1>20, <1>21, <1>22, <1>23, <1>24, <1>25, <1>26, <1>27, <1>28, <1>29
      DEF ExecuteScan, WorkerFault

\* What it has a result for has a final row.
LEMMA RecordedWorker ==
  ASSUME TypeOK, NEW w \in Workers, status # "absent",
         pc[w] \in Loop => \A m \in Modules : wres[w][m] # "none" => mod[m] \in Settled,
         Take(w) \/ Crash(w) \/ Killed(w) \/ ExecuteScan(w) \/ WorkerFault(w)
  PROVE  pc'[w] \in Loop => \A m \in Modules : wres'[w][m] # "none" => mod'[m] \in Settled
<1>. USE DEF TypeOK, TypeWorker, TypeDb, Loop, WorkerPC, Go, Vanished, db, local
<1>1. CASE Take(w)
  BY <1>1 DEF Take
<1>2. CASE Crash(w)
  BY <1>2 DEF Crash
<1>3. CASE Killed(w)
  BY <1>3 DEF Killed, Return
<1>4. CASE Gate(w)
  BY <1>4 DEF Gate, Return, wquiet, wframe
<1>5. CASE CompareAndSet(w)
  BY <1>5 DEF CompareAndSet, wquiet, wframe
<1>6. CASE Recheck(w)
  BY <1>6 DEF Recheck, Return, wquiet, wframe
<1>7. CASE Begin(w)
  BY <1>7 DEF Begin, wquiet, wframe, NoResult
<1>8. CASE BatchTop(w)
  BY <1>8 DEF BatchTop, Return, AbortCheck, wquiet, wframe
<1>9. CASE Announce(w)
  BY <1>9 DEF Announce, wquiet, wframe
<1>10. CASE SetProgress(w)
  BY <1>10 DEF SetProgress, wquiet, wframe
<1>11. CASE CheckBeforeCall(w)
  BY <1>11 DEF CheckBeforeCall, Return, AbortCheck, wquiet, wframe
<1>12. CASE CallBatch(w)
  BY <1>12 DEF CallBatch, StartCall, wquiet, wframe
<1>13. CASE BatchReturns(w)
  <2>1. PICK out \in [Current(w) -> {"ok", "bad"}] :
          /\ wres' = [wres EXCEPT ![w] =
               [m \in Modules |-> IF m \in Current(w) THEN out[m] ELSE @[m]]]
          /\ mod' = [m \in Modules |->
                       IF m \in Current(w) THEN ModRow(out[m]) ELSE mod[m]]
    BY <1>13 DEF BatchReturns
  <2>2. \A m \in Modules : wres'[w][m] = IF m \in Current(w) THEN out[m] ELSE wres[w][m]
    BY <2>1
  <2>. QED BY <1>13, <2>1, <2>2 DEF BatchReturns, ModRow, Settled
<1>14. CASE BatchFails(w)
  <2>1. PICK done \in SUBSET Current(w), out \in [Current(w) -> {"ok", "bad"}] :
          /\ wres' = [wres EXCEPT ![w] =
               [m \in Modules |-> IF m \in done THEN out[m] ELSE @[m]]]
          /\ mod' = [m \in Modules |->
                       IF m \in done THEN ModRow(out[m]) ELSE mod[m]]
    BY <1>14 DEF BatchFails
  <2>2. \A m \in Modules : wres'[w][m] = IF m \in done THEN out[m] ELSE wres[w][m]
    BY <2>1
  <2>. QED BY <1>14, <2>1, <2>2 DEF BatchFails, ModRow, Settled
<1>15. CASE MarkRetrying(w)
  BY <1>15 DEF MarkRetrying, wquiet, wframe, Pending
<1>16. CASE RetryProgress(w)
  BY <1>16 DEF RetryProgress, wquiet, wframe
<1>17. CASE RetryNext(w)
  BY <1>17 DEF RetryNext, Return, AbortCheck, wquiet, wframe
<1>18. CASE CallModule(w)
  BY <1>18 DEF CallModule, StartCall, wquiet, wframe
<1>19. CASE ModuleReturns(w)
  <2>1. PICK m \in wmod[w], res \in {"ok", "bad"} :
          /\ wres' = [wres EXCEPT ![w][m] = res]
          /\ mod' = [mod EXCEPT ![m] = ModRow(res)]
    BY <1>19 DEF ModuleReturns
  <2>2. m \in Modules
    OBVIOUS
  <2>3. \A n \in Modules : n # m => wres'[w][n] = wres[w][n] /\ mod'[n] = mod[n]
    BY <2>1, <2>2
  <2>4. mod'[m] \in Settled
    BY <2>1, <2>2 DEF ModRow, Settled
  <2>. QED BY <1>19, <2>3, <2>4 DEF ModuleReturns
<1>20. CASE CloseBatch(w)
  BY <1>20 DEF CloseBatch, wquiet, wframe
<1>21. CASE CheckAfterBatch(w)
  BY <1>21 DEF CheckAfterBatch, Return, AbortCheck, wquiet, wframe
<1>22. CASE SetBatchEnd(w)
  BY <1>22 DEF SetBatchEnd, wquiet, wframe
<1>23. CASE FinalCheck(w)
  BY <1>23 DEF FinalCheck, Return, wquiet, wframe
<1>24. CASE FinalCommit(w)
  BY <1>24 DEF FinalCommit, wquiet, wframe
<1>25. CASE PayloadDone(w)
  BY <1>25 DEF PayloadDone, Return, wquiet, wframe
<1>26. CASE Fatal(w)
  BY <1>26 DEF Fatal, wquiet, wframe
<1>27. CASE FatalCommit(w)
  BY <1>27 DEF FatalCommit, Return, wquiet, wframe
<1>28. CASE Raises(w)
  BY <1>28 DEF Raises, wquiet, wframe, UsesRedis, UsesDb
<1>29. CASE HandlerRaises(w)
  BY <1>29 DEF HandlerRaises, Return, wframe
<1>. QED BY <1>1, <1>2, <1>3, <1>4, <1>5, <1>6, <1>7, <1>8, <1>9, <1>10,
         <1>11, <1>12, <1>13, <1>14, <1>15, <1>16, <1>17, <1>18, <1>19,
         <1>20, <1>21, <1>22, <1>23, <1>24, <1>25, <1>26, <1>27, <1>28, <1>29
      DEF ExecuteScan, WorkerFault

\* It has a result for every module of the batches it left behind.
LEMMA AdvancedStep ==
  ASSUME TypeOK, NEW w \in Workers, pc[w] \in Loop => Advanced(w),
         Take(w) \/ Crash(w) \/ Killed(w) \/ ExecuteScan(w) \/ WorkerFault(w)
  PROVE  pc'[w] \in Loop => Advanced(w)'
<1>. USE BatchesAssumption DEF TypeOK, TypeWorker, TypeDb, Loop, WorkerPC, Advanced, AllAnswered,
         InBatch, Ending, Pending, Current, Go, db, local
<1>1. CASE Take(w)
  BY <1>1 DEF Take
<1>2. CASE Crash(w)
  BY <1>2 DEF Crash
<1>3. CASE Killed(w)
  BY <1>3 DEF Killed, Return
<1>4. CASE Gate(w)
  BY <1>4 DEF Gate, Return, wquiet, wframe
<1>5. CASE CompareAndSet(w)
  BY <1>5 DEF CompareAndSet, wquiet, wframe
<1>6. CASE Recheck(w)
  BY <1>6 DEF Recheck, Return, wquiet, wframe
<1>7. CASE Begin(w)
  BY <1>7 DEF Begin, wquiet, wframe, NoResult
<1>8. CASE BatchTop(w)
  <2>1. UNCHANGED wres /\ wbatch[w] \in Nat
    BY <1>8 DEF BatchTop
  <2>2. CASE wbatch[w] > Len(Batches)
    <3>1. pc' = [pc EXCEPT ![w] = "final"] /\ UNCHANGED wbatch
      BY <1>8, <2>2 DEF BatchTop
    <3>. QED BY <1>8, <2>1, <2>2, <3>1 DEF BatchTop
  <2>3. CASE wbatch[w] <= Len(Batches) /\ Current(w) # {}
    <3>1. pc'[w] \in {"fatal", "idle", "announce"} /\ UNCHANGED wbatch
      <4>1. AbortCheck(w, "announce") /\ UNCHANGED wbatch
        BY <1>8, <2>1, <2>3 DEF BatchTop
      <4>2. AbortCheck(w, "announce") => pc'[w] \in {"fatal", "idle", "announce"}
        BY DEF AbortCheck, Return, Vanished, Aborted
      <4>. QED BY <4>1, <4>2
    <3>. QED BY <1>8, <2>1, <2>3, <3>1 DEF BatchTop
  <2>4. CASE wbatch[w] <= Len(Batches) /\ Current(w) = {}
    <3>1. pc'[w] \in {"fatal", "idle", "top"} /\ wbatch'[w] \in {wbatch[w], wbatch[w] + 1}
      <4>1. AbortCheck(w, "top") /\ wbatch'[w] \in {wbatch[w], wbatch[w] + 1}
        BY <1>8, <2>1, <2>4 DEF BatchTop
      <4>2. AbortCheck(w, "top") => pc'[w] \in {"fatal", "idle", "top"}
        BY DEF AbortCheck, Return, Vanished, Aborted
      <4>. QED BY <4>1, <4>2
    <3>2. \A b \in 1..Len(Batches) : b < wbatch'[w] => AllAnswered(w, b)
      <4>. SUFFICES ASSUME NEW b \in 1..Len(Batches), b < wbatch'[w] PROVE AllAnswered(w, b)
        OBVIOUS
      <4>1. b < wbatch[w] \/ b = wbatch[w]
        BY <2>1, <3>1
      <4>2. CASE b < wbatch[w]
        BY <1>8, <4>2 DEF BatchTop
      <4>3. CASE b = wbatch[w]
        <5>1. Batches[b] = {}
          BY <2>4, <4>3
        <5>. QED BY <5>1
      <4>. QED BY <4>1, <4>2, <4>3
    <3>. QED BY <1>8, <2>1, <3>1, <3>2 DEF BatchTop
  <2>. QED BY <2>1, <2>2, <2>3, <2>4
<1>9. CASE Announce(w)
  BY <1>9 DEF Announce, wquiet, wframe
<1>10. CASE SetProgress(w)
  BY <1>10 DEF SetProgress, wquiet, wframe
<1>11. CASE CheckBeforeCall(w)
  BY <1>11 DEF CheckBeforeCall, Return, AbortCheck, wquiet, wframe
<1>12. CASE CallBatch(w)
  BY <1>12 DEF CallBatch, StartCall, wquiet, wframe
<1>13. CASE BatchReturns(w)
  <2>1. PICK out \in [Current(w) -> {"ok", "bad"}] :
          wres' = [wres EXCEPT ![w] =
               [m \in Modules |-> IF m \in Current(w) THEN out[m] ELSE @[m]]]
    BY <1>13 DEF BatchReturns
  <2>2. \A m \in Modules : wres'[w][m] = IF m \in Current(w) THEN out[m] ELSE wres[w][m]
    BY <2>1
  <2>3. \A m \in Modules : wres[w][m] # "none" => wres'[w][m] # "none"
    BY <2>1, <2>2
  <2>4. wbatch[w] \in 1..Len(Batches) /\ wbatch' = wbatch /\ pc'[w] = "after"
    BY <1>13 DEF BatchReturns
  <2>5. \A b \in 1..Len(Batches) : Batches[b] \subseteq Modules
    OBVIOUS
  <2>6. \A m \in Batches[wbatch[w]] : wres'[w][m] # "none"
    BY <2>1, <2>2, <2>4, <2>5
  <2>7. \A b \in 1..Len(Batches) : b < wbatch[w] => \A m \in Batches[b] : wres'[w][m] # "none"
    BY <1>13, <2>3, <2>5 DEF BatchReturns
  <2>. QED BY <2>4, <2>6, <2>7
<1>14. CASE BatchFails(w)
  <2>1. PICK done \in SUBSET Current(w), out \in [Current(w) -> {"ok", "bad"}] :
          wres' = [wres EXCEPT ![w] =
               [m \in Modules |-> IF m \in done THEN out[m] ELSE @[m]]]
    BY <1>14 DEF BatchFails
  <2>2. \A m \in Modules : wres'[w][m] = IF m \in done THEN out[m] ELSE wres[w][m]
    BY <2>1
  <2>3. \A m \in Modules : wres[w][m] # "none" => wres'[w][m] # "none"
    BY <2>1, <2>2
  <2>4. wbatch[w] \in 1..Len(Batches) /\ wbatch' = wbatch /\ pc'[w] \in {"fatal", "markretry"}
    BY <1>14 DEF BatchFails
  <2>5. \A b \in 1..Len(Batches) : Batches[b] \subseteq Modules
    OBVIOUS
  <2>6. \A b \in 1..Len(Batches) : b < wbatch[w] => \A m \in Batches[b] : wres'[w][m] # "none"
    BY <1>14, <2>3, <2>5 DEF BatchFails
  <2>. QED BY <2>4, <2>6
<1>15. CASE MarkRetrying(w)
  BY <1>15 DEF MarkRetrying, wquiet, wframe
<1>16. CASE RetryProgress(w)
  BY <1>16 DEF RetryProgress, wquiet, wframe
<1>17. CASE RetryNext(w)
  <2>1. UNCHANGED <<wres, wbatch, wmod>> /\ wbatch[w] \in Nat
    BY <1>17 DEF RetryNext, wquiet, wframe
  <2>2. CASE wmod[w] = {}
    <3>1. pc' = [pc EXCEPT ![w] = "closebatch"] /\ pc[w] = "retry"
      BY <1>17, <2>2 DEF RetryNext
    <3>2. AllAnswered(w, wbatch[w])
      <4>1. Pending(w) = {} /\ wbatch[w] \in 1..Len(Batches)
        BY <2>1, <2>2, <3>1
      <4>2. Batches[wbatch[w]] \subseteq Modules
        BY <4>1
      <4>. QED BY <4>1, <4>2
    <3>. QED BY <2>1, <3>1, <3>2
  <2>3. CASE wmod[w] # {}
    <3>1. pc'[w] \in {"fatal", "idle", "retrydo"} /\ pc[w] = "retry"
      BY <1>17, <2>3 DEF RetryNext, AbortCheck, Return
    <3>. QED BY <2>1, <3>1
  <2>. QED BY <2>2, <2>3
<1>18. CASE CallModule(w)
  BY <1>18 DEF CallModule, StartCall, wquiet, wframe
<1>19. CASE ModuleReturns(w)
  BY <1>19 DEF ModuleReturns, wquiet, wframe
<1>20. CASE CloseBatch(w)
  BY <1>20 DEF CloseBatch, wquiet, wframe
<1>21. CASE CheckAfterBatch(w)
  BY <1>21 DEF CheckAfterBatch, Return, AbortCheck, wquiet, wframe
<1>22. CASE SetBatchEnd(w)
  <2>1. /\ UNCHANGED wres /\ wbatch[w] \in Nat /\ pc[w] = "setend"
         /\ pc'[w] = "top" /\ wbatch'[w] = wbatch[w] + 1
    BY <1>22 DEF SetBatchEnd
  <2>2. \A b \in 1..Len(Batches) : b < wbatch'[w] => AllAnswered(w, b)
    <3>. SUFFICES ASSUME NEW b \in 1..Len(Batches), b < wbatch'[w] PROVE AllAnswered(w, b)
      OBVIOUS
    <3>1. b < wbatch[w] \/ b = wbatch[w]
      BY <2>1
    <3>. QED BY <2>1, <3>1
  <2>. QED BY <2>1, <2>2
<1>23. CASE FinalCheck(w)
  BY <1>23 DEF FinalCheck, Return, wquiet, wframe
<1>24. CASE FinalCommit(w)
  BY <1>24 DEF FinalCommit, wquiet, wframe
<1>25. CASE PayloadDone(w)
  BY <1>25 DEF PayloadDone, Return, wquiet, wframe
<1>26. CASE Fatal(w)
  BY <1>26 DEF Fatal, wquiet, wframe
<1>27. CASE FatalCommit(w)
  BY <1>27 DEF FatalCommit, Return, wquiet, wframe
<1>28. CASE Raises(w)
  BY <1>28 DEF Raises, wquiet, wframe, UsesRedis, UsesDb
<1>29. CASE HandlerRaises(w)
  BY <1>29 DEF HandlerRaises, Return, wframe
<1>. QED BY <1>1, <1>2, <1>3, <1>4, <1>5, <1>6, <1>7, <1>8, <1>9, <1>10,
         <1>11, <1>12, <1>13, <1>14, <1>15, <1>16, <1>17, <1>18, <1>19,
         <1>20, <1>21, <1>22, <1>23, <1>24, <1>25, <1>26, <1>27, <1>28, <1>29
      DEF ExecuteScan, WorkerFault

\* Requests, the creation and the stream leave the workers alone; a row that
\* is gone stays gone, and a final row of a module stays final.
Others ==
    \/ Create \/ CreatePublishFails \/ SseOpen \/ SseEnd \/ UNCHANGED vars
    \/ \E r \in Requests :
          RequestStart(r) \/ RequestStep(r) \/ RequestDies(r) \/ RescanPublishFails(r)

LEMMA OthersStep ==
  ASSUME TypeOK, Unborn, Locking, Others
  PROVE  /\ UNCHANGED <<pc, local>>
         /\ gen' = 0 => gen = 0
         /\ gen' = 0 => \A m \in Modules : mod[m] \in Settled => mod'[m] \in Settled
         /\ gen' = 0 => (status = "absent" => status' = "absent" \/ cpc = "new")
         /\ status' = "completed" => status = "completed"
         /\ gen' = 0 => (status' \in Cancellable => status \in Cancellable \/ cpc = "new")
         /\ cpc' = "new" => cpc = "new" /\ status' = "absent"
<1>. USE DEF TypeOK, TypeDb, TypeRequest, db, Unborn, Cancellable
<1>1. CASE Create \/ CreatePublishFails
  BY <1>1 DEF Create, CreateCommit, CreatePublish, CreatePublishFails, CreateSetId, cquiet, cframe
<1>2. CASE SseOpen \/ SseEnd \/ UNCHANGED vars
  BY <1>2 DEF SseOpen, SseEnd, squiet, vars
<1>3. ASSUME NEW r \in Requests, RequestStart(r) \/ RequestDies(r) \/ RescanPublishFails(r)
      PROVE  UNCHANGED <<pc, local, db, cpc>>
  BY <1>3 DEF RequestStart, CancelRead, RescanRead, DeleteRead, RetryRead, RequestDies,
              RescanPublishFails, rquiet
<1>4. CASE \E r \in Requests : CancelCommit(r) \/ DeleteCommit(r)
  BY <1>4 DEF CancelCommit, DeleteCommit, rquiet, Locking
<1>5. CASE \E r \in Requests : RescanCommit(r)
  BY <1>5 DEF RescanCommit, rquiet, Locking
<1>6. CASE \E r \in Requests : RetryCommit(r)
  BY <1>6 DEF RetryCommit, rquiet
<1>7. ASSUME NEW r \in Requests,
             \/ CancelFlush(r) \/ CancelRedis(r) \/ RescanFlush(r) \/ RescanRedis(r)
             \/ RescanPublish(r) \/ DeleteRedis(r)
      PROVE  UNCHANGED <<pc, local, db, cpc>>
  BY <1>7 DEF CancelFlush, CancelRedis, RescanFlush, RescanRedis, RescanPublish,
              DeleteRedis, rquiet
<1>. QED BY <1>1, <1>2, <1>3, <1>4, <1>5, <1>6, <1>7 DEF Others, RequestStep

\* A row's writer is in one request at a time, and only a delete whose
\* transaction is not blocked removes the row.
LEMMA LockingStep ==
  ASSUME TypeOK, Unborn, HoldsMessage, Locking, Next
  PROVE  Locking'
<1>. USE DEF TypeOK, TypeDb, TypeRequest, db, req, Locking
<1>1. ASSUME NEW w \in Workers, Take(w) \/ Crash(w) \/ Killed(w) \/ ExecuteScan(w) \/ WorkerFault(w)
      PROVE  Locking'
  <2>1. UNCHANGED <<rpc, lock>>
    BY <1>1 DEF Take, Crash, Killed, ExecuteScan, Gate, CompareAndSet, Recheck, Begin,
         BatchTop, Announce, SetProgress, CheckBeforeCall, CallBatch, BatchReturns,
         BatchFails, MarkRetrying, RetryProgress, RetryNext, CallModule, ModuleReturns,
         CloseBatch, CheckAfterBatch, SetBatchEnd, FinalCheck, FinalCommit,
         PayloadDone, Fatal, FatalCommit, WorkerFault, Raises, HandlerRaises, wquiet, wframe
  <2>. QED BY <1>1, <2>1, StatusStep
<1>2. CASE Create \/ CreatePublishFails
  BY <1>2 DEF Create, CreateCommit, CreatePublish, CreatePublishFails, CreateSetId, cquiet, cframe
<1>3. CASE SseOpen \/ SseEnd
  BY <1>3 DEF SseOpen, SseEnd, squiet
<1>4. ASSUME NEW r \in Requests, RequestStart(r) \/ RequestDies(r) \/ RescanPublishFails(r)
      PROVE  Locking'
  BY <1>4, FreeAssumption DEF RequestStart, CancelRead, RescanRead, DeleteRead, RetryRead,
         RequestDies, RescanPublishFails, RGo
<1>5. ASSUME NEW r \in Requests,
             CancelFlush(r) \/ CancelRedis(r) \/ CancelCommit(r) PROVE Locking'
  BY <1>5, FreeAssumption DEF CancelFlush, CancelRedis, CancelCommit, RGo, Vanished
<1>6. ASSUME NEW r \in Requests,
             RescanFlush(r) \/ RescanRedis(r) \/ RescanPublish(r) \/ RescanCommit(r)
      PROVE  Locking'
  BY <1>6, FreeAssumption DEF RescanFlush, RescanRedis, RescanPublish, RescanCommit, RGo, Vanished
<1>7. ASSUME NEW r \in Requests, DeleteRedis(r) \/ DeleteCommit(r) \/ RetryCommit(r)
      PROVE  Locking'
  BY <1>7, FreeAssumption DEF DeleteRedis, DeleteCommit, RetryCommit, RGo
<1>. QED BY <1>1, <1>2, <1>3, <1>4, <1>5, <1>6, <1>7 DEF Next, RequestStep

LEMMA UnbornStep ==
  ASSUME TypeOK, HoldsMessage, Unborn, Locking, Next
  PROVE  Unborn'
<1>1. ASSUME NEW w \in Workers, Take(w) \/ Crash(w) \/ Killed(w) \/ ExecuteScan(w) \/ WorkerFault(w)
      PROVE  Unborn'
  BY <1>1, WorkerFrame, StatusStep DEF Unborn
<1>2. CASE Others
  <2>1. cpc' = "new" => cpc = "new" /\ status' = "absent"
    BY <1>2, OthersStep
  <2>2. cpc' = "new" => gen' = gen
    BY <1>2, <2>1 DEF Others, Create, CreateCommit, CreatePublish, CreatePublishFails, CreateSetId,
         cframe, RescanPublishFails, SseOpen, SseEnd, vars,
         squiet, RequestStart, RequestDies, CancelRead, RescanRead, DeleteRead,
         RetryRead, RequestStep, CancelFlush, CancelRedis, CancelCommit, RescanFlush,
         RescanRedis, RescanPublish, RescanCommit, DeleteRedis, DeleteCommit,
         RetryCommit, db
  <2>. QED BY <2>1, <2>2 DEF Unborn
<1>. QED BY <1>1, <1>2 DEF Next, Others

Worker == \E w \in Workers : Take(w) \/ Crash(w) \/ Killed(w) \/ ExecuteScan(w) \/ WorkerFault(w)

LEMMA WorkerOrOthers == [Next]_vars => Worker \/ Others
  BY DEF Next, Worker, Others

LEMMA HoldsStep ==
  ASSUME TypeOK, Unborn, Locking, HoldsMessage, Worker \/ Others
  PROVE  HoldsMessage'
<1>1. ASSUME NEW w \in Workers, Take(w) \/ Crash(w) \/ Killed(w) \/ ExecuteScan(w) \/ WorkerFault(w)
      PROVE  HoldsMessage'
  BY <1>1, WorkerFrame DEF HoldsMessage
<1>2. CASE Others
  BY <1>2, OthersStep DEF HoldsMessage, local
<1>. QED BY <1>1, <1>2 DEF Worker

\* While the scan has not ended nobody re-runs it, so its one message goes
\* from the queue to one worker and back.
LEMMA FreshStep ==
  ASSUME TypeOK, Unborn, Locking, HoldsMessage, Fresh, Worker \/ Others
  PROVE  Fresh'
<1>1. ASSUME NEW w \in Workers, Take(w) \/ Crash(w) \/ Killed(w) \/ ExecuteScan(w) \/ WorkerFault(w)
      PROVE  Fresh'
  <2>. SUFFICES ASSUME Untouched' PROVE OneMessage' /\ NoRescan'
    BY DEF Fresh
  <2>1. /\ \A v \in Workers \ {w} : wtask'[v] = wtask[v]
        /\ UNCHANGED <<gen, cpc, rpc>>
    BY <1>1, WorkerFrame
  <2>2. Untouched
    BY <1>1, <2>1, StatusStep DEF Untouched
  <2>3. OneMessage /\ NoRescan
    BY <2>2 DEF Fresh
  <2>4. NoRescan'
    BY <2>1, <2>3 DEF NoRescan
  <2>5. OneMessage'
    <3>. USE DEF OneMessage, TypeOK, TypeBroker, TypeWorker
    <3>1. CASE msg' = msg /\ wtask'[w] = wtask[w]
      BY <2>1, <2>3, <3>1
    <3>2. ASSUME NEW t \in Tasks, msg[t] = "queued", wtask'[w] = wtask[w],
                 msg' = [msg EXCEPT ![t] = "acked"]
          PROVE  OneMessage'
      BY <2>1, <2>3, <3>2
    <3>3. ASSUME NEW t \in Tasks, msg[t] = "queued", pc[w] = "idle", wtask'[w] = t,
                 msg' = [msg EXCEPT ![t] = "taken"]
          PROVE  OneMessage'
      BY <2>1, <2>3, <3>3, TasksAssumption DEF HoldsMessage
    <3>4. ASSUME NEW e \in {"queued", "acked"}, pc[w] # "idle", wtask'[w] = 0,
                 msg' = [msg EXCEPT ![wtask[w]] = e]
          PROVE  OneMessage'
      <4>1. wtask[w] = 1 /\ msg[1] = "taken"
        BY <2>3, <3>4, TasksAssumption DEF HoldsMessage
      <4>2. \A v \in Workers : wtask'[v] = 0
        BY <2>1, <2>3, <3>4, <4>1
      <4>3. \A t \in Tasks : t # 1 => msg'[t] = msg[t]
        BY <3>4, <4>1
      <4>. QED BY <2>1, <2>3, <4>1, <4>2, <4>3
    <3>5. \/ msg' = msg /\ wtask'[w] = wtask[w]
          \/ \E t \in Tasks : /\ msg[t] = "queued" /\ wtask'[w] = wtask[w]
                              /\ msg' = [msg EXCEPT ![t] = "acked"]
          \/ \E t \in Tasks : /\ msg[t] = "queued" /\ pc[w] = "idle" /\ wtask'[w] = t
                              /\ msg' = [msg EXCEPT ![t] = "taken"]
          \/ \E e \in {"queued", "acked"} :
                 /\ pc[w] # "idle" /\ wtask'[w] = 0
                 /\ msg' = [msg EXCEPT ![wtask[w]] = e]
      BY <1>1, MessageStep
    <3>. HIDE DEF OneMessage
    <3>. QED BY <3>1, <3>2, <3>3, <3>4, <3>5
  <2>. QED BY <2>4, <2>5
<1>2. CASE Others
  <2>. SUFFICES ASSUME Untouched' PROVE OneMessage' /\ NoRescan'
    BY DEF Fresh
  <2>1. UNCHANGED <<pc, wtask>>
    BY <1>2, OthersStep DEF local
  <2>2. Untouched /\ gen' = 0
    BY <1>2, OthersStep DEF Untouched, Unborn
  <2>3. OneMessage /\ NoRescan /\ status \notin Terminal
    BY <2>2 DEF Fresh, Untouched, Unborn, Cancellable, Terminal
  <2>4. CASE Create \/ CreatePublishFails
    <3>1. NoRescan'
      BY <2>3, <2>4 DEF NoRescan, Create, CreateCommit, CreatePublish, CreatePublishFails, CreateSetId, cquiet, cframe, req
    <3>2. OneMessage'
      BY <2>1, <2>3, <2>4, TasksAssumption
         DEF OneMessage, Create, CreateCommit, CreatePublish, CreatePublishFails, CreateSetId, Publish,
             TypeOK, TypeBroker
    <3>. QED BY <3>1, <3>2
  <2>5. CASE SseOpen \/ SseEnd \/ UNCHANGED vars
    BY <2>3, <2>5 DEF OneMessage, NoRescan, SseOpen, SseEnd, squiet, vars, broker, local, req
  <2>6. ASSUME NEW r \in Requests,
               RequestStart(r) \/ RequestStep(r) \/ RequestDies(r) \/ RescanPublishFails(r)
        PROVE  UNCHANGED <<cpc, msg>> /\ NoRescan'
    <3>. USE DEF NoRescan, RescanPC, RGo, TypeOK, TypeRequest, rquiet
    <3>1. CASE RequestStart(r) \/ RequestDies(r) \/ RescanPublishFails(r)
      BY <2>3, <3>1 DEF RequestStart, RequestDies, RescanPublishFails, CancelRead, RescanRead, DeleteRead, RetryRead
    <3>2. CASE RequestStep(r)
      BY <2>3, <3>2 DEF RequestStep, CancelFlush, CancelRedis, CancelCommit, RescanFlush,
         RescanRedis, RescanPublish, RescanCommit, DeleteRedis, DeleteCommit, RetryCommit
    <3>. QED BY <2>6, <3>1, <3>2
  <2>7. ASSUME UNCHANGED <<cpc, msg>> PROVE OneMessage'
    BY <2>1, <2>3, <2>7 DEF OneMessage
  <2>. QED BY <1>2, <2>4, <2>5, <2>6, <2>7 DEF Others
<1>. QED BY <1>1, <1>2 DEF Worker

\* A worker passes the gate only with the one message of a scan that has not
\* ended, so until a rescan commits no second worker is past it.
LEMMA AloneStep ==
  ASSUME TypeOK, Unborn, Locking, HoldsMessage, Fresh, Alone, Worker \/ Others
  PROVE  Alone'
<1>1. ASSUME NEW w \in Workers, Take(w) \/ Crash(w) \/ Killed(w) \/ ExecuteScan(w) \/ WorkerFault(w)
      PROVE  Alone'
  <2>1. /\ \A v \in Workers \ {w} : pc'[v] = pc[v]
        /\ gen' = gen
        /\ pc'[w] \notin Outside => pc[w] \notin Outside \/ status \in Cancellable
    BY <1>1, WorkerFrame
  <2>2. CASE pc'[w] \in Outside
    BY <2>1, <2>2 DEF Alone
  <2>3. CASE pc[w] \notin Outside
    BY <2>1, <2>3 DEF Alone
  <2>4. CASE pc'[w] \notin Outside /\ pc[w] \in Outside /\ gen = 0
    <3>1. status \in Cancellable
      BY <2>1, <2>4
    <3>2. \A u, v \in Workers : wtask[u] # 0 /\ wtask[v] # 0 => u = v
      BY <2>4, <3>1 DEF Fresh, Untouched, OneMessage
    <3>3. wtask[w] # 0
      BY <1>1, <2>4 DEF Take, Crash, Killed, Return, ExecuteScan, HoldsMessage, Outside,
         Gate, CompareAndSet, Recheck, Begin, BatchTop, Announce, SetProgress,
         CheckBeforeCall, CallBatch, BatchReturns, BatchFails, MarkRetrying,
         RetryProgress, RetryNext, CallModule, ModuleReturns, CloseBatch,
         CheckAfterBatch, SetBatchEnd, FinalCheck, FinalCommit, PayloadDone, Fatal,
         FatalCommit, WorkerFault, Raises, HandlerRaises, Go, TypeOK, TypeWorker
    <3>4. \A v \in Workers : pc[v] \notin Outside => wtask[v] # 0
      BY DEF HoldsMessage, Outside
    <3>. QED BY <2>1, <3>2, <3>3, <3>4 DEF Alone
  <2>. QED BY <2>1, <2>2, <2>3, <2>4 DEF Alone
<1>2. CASE Others
  BY <1>2, OthersStep DEF Alone
<1>. QED BY <1>1, <1>2 DEF Worker

\* A worker that is at the gate, or past its final commit, writes no module row,
\* and a scan that has completed lets it no further.
LEMMA QuietWorker ==
  ASSUME TypeOK, NEW w \in Workers, pc[w] \in Outside \cup {"paydone"},
         Take(w) \/ Crash(w) \/ Killed(w) \/ ExecuteScan(w) \/ WorkerFault(w)
  PROVE  /\ UNCHANGED mod
         /\ status = "completed" => pc'[w] \in Outside \cup {"paydone"}
<1>. USE DEF Outside, TypeOK, TypeWorker, Go, db
<1>1. CASE Take(w) \/ Crash(w) \/ Killed(w) \/ WorkerFault(w)
  BY <1>1 DEF Take, Crash, Killed, WorkerFault, Raises, HandlerRaises, Return
<1>2. CASE Gate(w) \/ PayloadDone(w) \/ Fatal(w) \/ FatalCommit(w)
  BY <1>2 DEF Gate, PayloadDone, Fatal, FatalCommit, Return, Cancellable
<1>3. ~(Gate(w) \/ PayloadDone(w) \/ Fatal(w) \/ FatalCommit(w)) => ~ExecuteScan(w)
  BY DEF ExecuteScan, CompareAndSet, Recheck, Begin, BatchTop, Announce, SetProgress,
         CheckBeforeCall, CallBatch, BatchReturns, BatchFails, MarkRetrying,
         RetryProgress, RetryNext, CallModule, ModuleReturns, CloseBatch,
         CheckAfterBatch, SetBatchEnd, FinalCheck, FinalCommit
<1>. QED BY <1>1, <1>2, <1>3

LEMMA RecordedStep ==
  ASSUME TypeOK, Unborn, Locking, HoldsMessage, Fresh, Alone, Recorded,
         Worker \/ Others
  PROVE  Recorded'
<1>. SUFFICES ASSUME gen' = 0, status' # "absent", NEW v \in Workers, pc'[v] \in Loop
              PROVE  \A m \in Modules : wres'[v][m] # "none" => mod'[m] \in Settled
  BY DEF Recorded
<1>1. ASSUME NEW w \in Workers, Take(w) \/ Crash(w) \/ Killed(w) \/ ExecuteScan(w) \/ WorkerFault(w)
      PROVE  \A m \in Modules : wres'[v][m] # "none" => mod'[m] \in Settled
  <2>1. gen = 0 /\ status # "absent"
    BY <1>1, WorkerFrame, StatusStep
  <2>2. CASE v = w
    BY <1>1, <2>1, <2>2, RecordedWorker DEF Recorded
  <2>3. CASE v # w
    <3>1. pc'[v] = pc[v] /\ wres'[v] = wres[v]
      BY <1>1, <2>3, WorkerFrame
    <3>2. pc[w] \in Outside
      BY <2>1, <2>3, <3>1 DEF Alone, Outside, Loop
    <3>3. UNCHANGED mod
      BY <1>1, <3>2, QuietWorker
    <3>. QED BY <2>1, <3>1, <3>3 DEF Recorded
  <2>. QED BY <2>2, <2>3
<1>2. CASE Others
  <2>1. cpc # "new"
    <3>. SUFFICES ASSUME cpc = "new" PROVE FALSE
      OBVIOUS
    <3>1. wtask[v] = 0
      BY DEF Unborn, Fresh, Untouched, OneMessage
    <3>2. pc[v] \in Loop
      BY <1>2, OthersStep
    <3>. QED BY <3>1, <3>2 DEF Loop, HoldsMessage
  <2>. QED BY <1>2, <2>1, OthersStep DEF Recorded, local
<1>. QED BY <1>1, <1>2 DEF Worker

LEMMA ProgressedStep ==
  ASSUME TypeOK, Unborn, Locking, HoldsMessage, Progressed, Worker \/ Others
  PROVE  Progressed'
<1>1. ASSUME NEW w \in Workers, Take(w) \/ Crash(w) \/ Killed(w) \/ ExecuteScan(w) \/ WorkerFault(w)
      PROVE  Progressed'
  <2>1. pc'[w] \in Loop => Advanced(w)'
    BY <1>1, AdvancedStep DEF Progressed
  <2>2. ASSUME NEW v \in Workers \ {w}, pc'[v] \in Loop PROVE Advanced(v)'
    <3>1. /\ pc'[v] = pc[v] /\ wbatch'[v] = wbatch[v]
          /\ wres'[v] = wres[v] /\ wmod'[v] = wmod[v]
      BY <1>1, WorkerFrame
    <3>. QED BY <2>2, <3>1 DEF Progressed, Advanced, AllAnswered, Pending, Current
  <2>. QED BY <2>1, <2>2 DEF Progressed
<1>2. CASE Others
  BY <1>2, OthersStep DEF local, Progressed, Advanced, AllAnswered, Pending, Current
<1>. QED BY <1>1, <1>2 DEF Worker

LEMMA OverStep ==
  ASSUME TypeOK, Unborn, Locking, HoldsMessage, Alone, Over, Worker \/ Others
  PROVE  Over'
<1>. SUFFICES ASSUME gen' = 0, status' = "completed", NEW v \in Workers
              PROVE  pc'[v] \in Outside \cup {"paydone"}
  BY DEF Over
<1>1. ASSUME NEW w \in Workers, Take(w) \/ Crash(w) \/ Killed(w) \/ ExecuteScan(w) \/ WorkerFault(w)
      PROVE  pc'[v] \in Outside \cup {"paydone"}
  <2>1. gen = 0 /\ (v # w => pc'[v] = pc[v])
    BY <1>1, WorkerFrame
  <2>2. CASE status = "completed"
    BY <1>1, <2>1, <2>2, QuietWorker DEF Over
  <2>3. CASE pc[w] = "commit" /\ pc'[w] = "paydone"
    BY <2>1, <2>3 DEF Alone, Outside
  <2>. QED BY <1>1, <2>2, <2>3, StatusStep
<1>2. CASE Others
  BY <1>2, OthersStep DEF Over
<1>. QED BY <1>1, <1>2 DEF Worker

LEMMA SettledStep ==
  ASSUME TypeOK, Unborn, Locking, HoldsMessage, Recorded, Progressed, Over,
         CompletedIsSettled, Worker \/ Others
  PROVE  CompletedIsSettled'
<1>. SUFFICES ASSUME gen' = 0, status' = "completed",
                     NEW b \in 1..Len(Batches), NEW m \in Batches[b]
              PROVE  mod'[m] \in Settled
  BY DEF CompletedIsSettled
<1>1. m \in Modules
  BY BatchesAssumption
<1>2. ASSUME NEW w \in Workers, Take(w) \/ Crash(w) \/ Killed(w) \/ ExecuteScan(w) \/ WorkerFault(w)
      PROVE  mod'[m] \in Settled
  <2>1. gen = 0
    BY <1>2, WorkerFrame
  <2>2. CASE status = "completed"
    BY <1>2, <2>1, <2>2, QuietWorker DEF Over, CompletedIsSettled
  <2>3. CASE pc[w] = "commit" /\ UNCHANGED mod
    <3>1. pc[w] \in Loop /\ pc[w] \in Ending
      BY <2>3 DEF Loop, WorkerPC, Ending
    <3>2. wbatch[w] > Len(Batches) /\ wbatch[w] \in Nat /\ Len(Batches) \in Nat
      BY <3>1, BatchesAssumption DEF Progressed, Advanced, TypeOK, TypeWorker
    <3>3. AllAnswered(w, b)
      BY <3>1, <3>2 DEF Progressed, Advanced
    <3>4. status # "absent"
      BY <1>2, StatusStep
    <3>. QED BY <1>1, <2>1, <2>3, <3>1, <3>3, <3>4 DEF AllAnswered, Recorded
  <2>. QED BY <1>2, <2>2, <2>3, StatusStep
<1>3. CASE Others
  BY <1>1, <1>3, OthersStep DEF CompletedIsSettled
<1>. QED BY <1>2, <1>3 DEF Worker

RowsInv ==
    /\ Unborn /\ Locking /\ HoldsMessage /\ Fresh /\ Alone
    /\ Recorded /\ Progressed /\ Over /\ CompletedIsSettled

LEMMA RowsInit == Init => RowsInv
<1>. SUFFICES ASSUME Init PROVE RowsInv
  OBVIOUS
<1>. USE DEF Init
<1>1. Unborn /\ Locking /\ HoldsMessage /\ Alone
  BY DEF Unborn, Locking, HoldsMessage, Alone, Outside
<1>2. Fresh
  BY TasksAssumption DEF Fresh, Untouched, OneMessage, NoRescan, RescanPC
<1>3. Recorded /\ Progressed /\ Over /\ CompletedIsSettled
  BY DEF Recorded, Progressed, Over, CompletedIsSettled, Loop, Outside
<1>. QED BY <1>1, <1>2, <1>3 DEF RowsInv

\* A COMPLETED scan that no rescan touched has a final row for every module it
\* selected, whatever the number of workers: a redelivered message, a lost
\* worker, an overtaken cancel and a concurrent retry leave none open.
THEOREM CompletedSettled == Spec => []CompletedIsSettled
<1>1. TypeOK /\ RowsInv /\ [Next]_vars => RowsInv'
  <2>. SUFFICES ASSUME TypeOK, RowsInv, [Next]_vars PROVE RowsInv'
    OBVIOUS
  <2>1. Worker \/ Others
    BY WorkerOrOthers
  <2>2. Unborn' /\ Locking'
    BY UnbornStep, LockingStep DEF RowsInv, vars, db, req, Unborn, Locking
  <2>3. HoldsMessage' /\ Fresh' /\ Alone'
    BY <2>1, HoldsStep, FreshStep, AloneStep DEF RowsInv
  <2>4. Recorded' /\ Progressed' /\ Over' /\ CompletedIsSettled'
    BY <2>1, RecordedStep, ProgressedStep, OverStep, SettledStep DEF RowsInv
  <2>. QED BY <2>2, <2>3, <2>4 DEF RowsInv
<1>2. RowsInv => CompletedIsSettled
  BY DEF RowsInv
<1>. QED BY <1>1, <1>2, RowsInit, TypeCorrect, PTL DEF Spec

-----------------------------------------------------------------------------
(* A tab that follows a scan                                                *)

\* The layout streams nothing but the active scan; the detail page nothing but
\* its own scan, and not when that is the active one.
Streams ==
    /\ source # None => source = active
    /\ detail # None => detail = route /\ active # route

WatchInv == WatchTypeOK /\ StreamOrNotice /\ Streams

\* The effect of a render leaves the page's EventSource on the page's scan.
LEMMA RerenderStreams ==
  ASSUME Streams, NEW r, NEW c, NEW a, Rerender(r, c, a)
  PROVE  detail' # None => detail' = r /\ a # r
  BY DEF Streams, Rerender, Subscribes

LEMMA RerenderType ==
  ASSUME WatchTypeOK, NEW r \in Opt(Scans), NEW c, NEW a, Rerender(r, c, a)
  PROVE  detail' \in Opt(Scans)
  BY DEF WatchTypeOK, Rerender, Opt

\* What the active scan becomes is streamed, or was lost before.
LEMMA SetActiveStep ==
  ASSUME WatchInv, NEW s \in Scans, SetActive(s)
  PROVE  /\ active' = s /\ source' \in Opt(Scans) /\ lost' \in BOOLEAN
         /\ StreamOrNotice'
         /\ source' # None => source' = active'
<1>1. CASE s = active
  BY <1>1 DEF SetActive, WatchInv, WatchTypeOK, StreamOrNotice, Streams
<1>2. CASE s # active
  BY <1>2 DEF SetActive, WatchInv, WatchTypeOK, StreamOrNotice, Opt
<1>. QED BY <1>1, <1>2

\* The user's requests change nothing that is streamed.
LEMMA AskStep ==
  ASSUME WatchInv, NEW s \in Scans,
         \/ Submit(s) \/ Rescan(s) \/ Done(s) \/ AnsweredLate(s)
         \/ AskFails(s) \/ CancelDone(s) \/ Ends(s)
  PROVE  WatchInv'
<1>1. UNCHANGED <<active, source, lost, route, cache, stale, detail>>
  BY DEF Submit, Rescan, Done, AnsweredLate, AskFails,
         CancelDone, Ends, store, pages
<1>2. srv' \in [Scans -> Row] /\ list' \in [Scans -> Row]
  BY DEF WatchInv, WatchTypeOK, Row, Submit, Rescan, Done,
         AnsweredLate, AskFails, CancelDone, Ends, rows
<1>3. ask' \in [Scans -> Ask]
  BY DEF WatchInv, WatchTypeOK, Ask, Carried, Submit, Rescan,
         Done, AnsweredLate, AskFails, CancelDone, Ends
<1>4. cancel' \in [Scans -> {"none", "sent", "ok", "refused"}]
  BY DEF WatchInv, WatchTypeOK, Submit, Rescan, Done,
         AnsweredLate, AskFails, CancelDone, Ends
<1>5. dirty' \in BOOLEAN
  BY DEF WatchInv, WatchTypeOK, Submit, Rescan, Done,
         AnsweredLate, AskFails, CancelDone, Ends, rows
<1>6. WatchTypeOK'
  BY <1>1, <1>2, <1>3, <1>4, <1>5 DEF WatchInv, WatchTypeOK
<1>7. StreamOrNotice' /\ Streams'
  BY <1>1 DEF WatchInv, StreamOrNotice, Streams
<1>. QED BY <1>6, <1>7 DEF WatchInv

\* An answer makes its scan the active one and streams it.
LEMMA AnsweredStep ==
  ASSUME WatchInv, NEW s \in Scans, Answered(s)
  PROVE  WatchInv'
<1>1. /\ SetActive(s) /\ Rerender(route, cache, s) /\ dirty' = TRUE
      /\ ask' = [ask EXCEPT ![s] = "none"]
      /\ UNCHANGED <<srv, cancel, list, route, cache, stale>>
  BY DEF Answered
<1>2. /\ active' = s /\ source' \in Opt(Scans) /\ lost' \in BOOLEAN
      /\ StreamOrNotice' /\ (source' # None => source' = active')
  BY <1>1, SetActiveStep
<1>3. detail' # None => detail' = route' /\ active' # route'
  BY <1>1, <1>2, RerenderStreams DEF WatchInv
<1>4. WatchTypeOK'
  <2>1. detail' \in Opt(Scans)
    BY <1>1, RerenderType DEF WatchInv, WatchTypeOK
  <2>2. ask' \in [Scans -> Ask]
    BY <1>1 DEF WatchInv, WatchTypeOK, Ask
  <2>3. active' \in Opt(Scans)
    BY <1>2 DEF Opt
  <2>. QED BY <1>1, <1>2, <2>1, <2>2, <2>3 DEF WatchInv, WatchTypeOK
<1>. QED BY <1>2, <1>3, <1>4 DEF WatchInv, Streams

\* Clearing the active scan closes its stream and may open the page's own.
LEMMA ClearStep ==
  ASSUME WatchInv, ClearActive, Rerender(route, cache, None),
         dirty' = TRUE, ask' = ask, cancel' \in [Scans -> {"none", "sent", "ok", "refused"}],
         UNCHANGED <<srv, list, route, cache, stale>>
  PROVE  WatchInv'
<1>1. active' = None /\ source' = None /\ lost' = FALSE
  BY DEF ClearActive
<1>2. detail' # None => detail' = route' /\ active' # route'
  BY <1>1, RerenderStreams DEF WatchInv
<1>3. WatchTypeOK'
  <2>1. detail' \in Opt(Scans)
    BY RerenderType DEF WatchInv, WatchTypeOK
  <2>. QED BY <1>1, <2>1 DEF WatchInv, WatchTypeOK, Opt
<1>. QED BY <1>1, <1>2, <1>3 DEF WatchInv, Streams, StreamOrNotice

LEMMA CancelStep ==
  ASSUME WatchInv, CancelPressed \/ \E s \in Scans : CancelAnswered(s)
  PROVE  WatchInv'
<1>1. CASE CancelPressed
  <2>1. cancel' \in [Scans -> {"none", "sent", "ok", "refused"}]
    BY <1>1 DEF CancelPressed, WatchInv, WatchTypeOK
  <2>2. UNCHANGED <<srv, ask, active, source, lost, list, dirty, route, cache, stale, detail>>
    BY <1>1 DEF CancelPressed, store, rows, pages
  <2>. QED BY <2>1, <2>2 DEF WatchInv, WatchTypeOK, StreamOrNotice, Streams
<1>2. ASSUME NEW s \in Scans, CancelAnswered(s) PROVE WatchInv'
  <2>1. /\ cancel' \in [Scans -> {"none", "sent", "ok", "refused"}]
        /\ UNCHANGED <<srv, ask, list, route, cache, stale>>
    BY <1>2 DEF CancelAnswered, WatchInv, WatchTypeOK
  <2>2. CASE cancel[s] = "ok"
    BY <1>2, <2>1, <2>2, ClearStep DEF CancelAnswered
  <2>3. CASE cancel[s] # "ok"
    <3>1. UNCHANGED <<active, source, lost, detail, dirty>>
      BY <1>2, <2>3 DEF CancelAnswered, store
    <3>. QED BY <2>1, <3>1 DEF WatchInv, WatchTypeOK, StreamOrNotice, Streams
  <2>. QED BY <2>2, <2>3
<1>. QED BY <1>1, <1>2

LEMMA StreamStep ==
  ASSUME WatchInv,
         LayoutTerminal \/ Drop \/ DetailTerminal \/ DetailDrop
  PROVE  WatchInv'
<1>1. CASE LayoutTerminal
  BY <1>1, ClearStep DEF LayoutTerminal, server, WatchInv, WatchTypeOK
<1>2. CASE Drop
  <2>1. /\ source' = None /\ lost' = TRUE
        /\ UNCHANGED <<srv, ask, cancel, active, list, dirty, route, cache, stale, detail>>
    BY <1>2 DEF Drop, server, rows, pages
  <2>. QED BY <2>1 DEF WatchInv, WatchTypeOK, StreamOrNotice, Streams, Opt
<1>3. CASE DetailTerminal \/ DetailDrop
  <2>1. /\ detail' = None /\ UNCHANGED <<srv, ask, cancel, active, source, lost, list, route, cache>>
    BY <1>3 DEF DetailTerminal, DetailDrop, server, store, rows
  <2>2. stale' \in BOOLEAN /\ dirty' \in BOOLEAN
    BY <1>3 DEF DetailTerminal, DetailDrop, rows, WatchInv, WatchTypeOK
  <2>. QED BY <2>1, <2>2 DEF WatchInv, WatchTypeOK, StreamOrNotice, Streams, Opt
<1>. QED BY <1>1, <1>2, <1>3

LEMMA PageStep ==
  ASSUME WatchInv,
         \/ PollList \/ PollDetail \/ Back
         \/ \E s \in Scans : Open(s)
  PROVE  WatchInv'
<1>1. CASE PollList
  <2>1. /\ list' = srv /\ dirty' = FALSE
        /\ UNCHANGED <<srv, ask, cancel, active, source, lost, route, cache, stale, detail>>
    BY <1>1 DEF PollList, server, store, pages
  <2>. QED BY <2>1 DEF WatchInv, WatchTypeOK, StreamOrNotice, Streams
<1>2. CASE PollDetail
  <2>1. /\ route # None /\ cache' = [cache EXCEPT ![route] = srv[route]] /\ stale' = FALSE
        /\ Rerender(route, cache', active)
        /\ UNCHANGED <<srv, ask, cancel, active, source, lost, list, dirty, route>>
    BY <1>2 DEF PollDetail, server, store, rows
  <2>2. detail' # None => detail' = route' /\ active' # route'
    BY <2>1, RerenderStreams DEF WatchInv
  <2>3. detail' \in Opt(Scans)
    BY <2>1, RerenderType DEF WatchInv, WatchTypeOK
  <2>4. cache' \in [Scans -> Row]
    BY <2>1 DEF WatchInv, WatchTypeOK, Opt
  <2>. QED BY <2>1, <2>2, <2>3, <2>4 DEF WatchInv, WatchTypeOK, StreamOrNotice, Streams
<1>3. ASSUME NEW s \in Scans, Open(s) PROVE WatchInv'
  <2>1. /\ route' = s /\ ask' = [x \in Scans |-> Orphan[ask[x]]] /\ stale' \in BOOLEAN
        /\ Rerender(s, cache, active)
        /\ UNCHANGED <<srv, cancel, active, source, lost, list, dirty, cache>>
    BY <1>3 DEF Open, store, rows
  <2>2. s \in Opt(Scans)
    BY DEF Opt
  <2>3. detail' # None => detail' = route' /\ active' # route'
    BY <2>1, RerenderStreams DEF WatchInv
  <2>4. detail' \in Opt(Scans)
    BY <2>1, <2>2, RerenderType DEF WatchInv
  <2>5. ask' \in [Scans -> Ask]
    BY <2>1 DEF WatchInv, WatchTypeOK, Orphan, Ask
  <2>. QED BY <2>1, <2>2, <2>3, <2>4, <2>5
           DEF WatchInv, WatchTypeOK, StreamOrNotice, Streams
<1>4. CASE Back
  <2>1. /\ route' = None /\ dirty' \in {dirty, TRUE} /\ stale' = FALSE
        /\ Rerender(None, cache, active)
        /\ UNCHANGED <<srv, ask, cancel, active, source, lost, list, cache>>
    BY <1>4 DEF Back, server, store
  <2>2. None \in Opt(Scans)
    BY DEF Opt
  <2>3. detail' # None => detail' = route' /\ active' # route'
    BY <2>1, RerenderStreams DEF WatchInv
  <2>4. detail' \in Opt(Scans)
    BY <2>1, <2>2, RerenderType DEF WatchInv
  <2>5. dirty' \in BOOLEAN /\ stale' \in BOOLEAN
    BY <2>1 DEF WatchInv, WatchTypeOK
  <2>. QED BY <2>1, <2>2, <2>3, <2>4, <2>5
           DEF WatchInv, WatchTypeOK, StreamOrNotice, Streams
<1>. QED BY <1>1, <1>2, <1>3, <1>4

LEMMA WatchInvInit == WatchInit => WatchInv
<1>. SUFFICES ASSUME WatchInit PROVE WatchInv
  OBVIOUS
<1>1. WatchTypeOK
  BY DEF WatchInit, WatchTypeOK, Row, Ask, Opt
<1>. QED BY <1>1 DEF WatchInit, WatchInv, StreamOrNotice, Streams

LEMMA WatchInductive == WatchSpec => []WatchInv
<1>1. WatchInv /\ [WatchNext]_(watchVars) => WatchInv'
  <2>1. WatchInv /\ UNCHANGED watchVars => WatchInv'
    BY DEF WatchInv, watchVars, server, store, rows, pages,
           WatchTypeOK, StreamOrNotice, Streams
  <2>2. WatchInv /\ WatchNext => WatchInv'
    BY AskStep, AnsweredStep, CancelStep, StreamStep, PageStep DEF WatchNext
  <2>. QED BY <2>1, <2>2
<1>. QED BY <1>1, WatchInvInit, PTL DEF WatchSpec

\* Every reachable state of a tab has its type.
THEOREM TabTypeCorrect == WatchSpec => []WatchTypeOK
<1>1. WatchInv => WatchTypeOK
  BY DEF WatchInv
<1>. QED BY <1>1, WatchInductive, PTL

\* The active scan of a tab is streamed, or the page says that its stream was
\* lost, for any number of scans: no order of answers, cancels, terminal events
\* and drops leaves a progress card waiting in silence.
THEOREM ActiveIsStreamed == WatchSpec => []StreamOrNotice
<1>1. WatchInv => StreamOrNotice
  BY DEF WatchInv
<1>. QED BY <1>1, WatchInductive, PTL

\* No scan has two EventSources in a tab: the detail page streams its scan only
\* while the layout does not, across navigation, polls and changes of the
\* active scan.
THEOREM OneStreamEach == WatchSpec => []NoTwinStream
<1>1. WatchInv => NoTwinStream
  BY DEF WatchInv, Streams, NoTwinStream
<1>. QED BY <1>1, WatchInductive, PTL
=============================================================================

--------------------------- MODULE ScanLifecycle ---------------------------
(***************************************************************************)
(* One scan, from its creation to its end: the row in PostgreSQL, its      *)
(* module rows, the two Redis keys (cancel flag, progress payload), the    *)
(* Celery messages that ask a worker to run it, the workers inside         *)
(* execute_scan, the API requests that cancel, re-run, delete or patch it, *)
(* and the SSE stream that a browser follows.                              *)
(*                                                                         *)
(* Every step is what one process does between two points at which another *)
(* process can observe it: a committed statement, a Redis command, a       *)
(* message.  A request's flushed but uncommitted UPDATE is the row lock    *)
(* (variable lock): other writers of the row wait for it, readers still    *)
(* see the committed row.                                                  *)
(***************************************************************************)
EXTENDS Integers, Sequences, FiniteSets

CONSTANTS
    Workers,    \* Celery worker processes
    Requests,   \* API requests; each performs at most one operation
    Tasks,      \* identifiers of Celery messages, numbered from 1
    Modules,    \* scan modules
    Batches,    \* MODULE_BATCHES restricted to the selected modules, in order
    Ops,        \* the operations requests may perform
    Faults,     \* which failures may happen
    MaxCrashes  \* bound: worker processes lost while they hold a message

ASSUME BatchesAssumption == Batches \in Seq(SUBSET Modules)
ASSUME TasksAssumption == /\ Tasks \subseteq Nat \ {0}
                          /\ 1 \in Tasks
ASSUME BoundAssumption == MaxCrashes \in Nat
ASSUME OpsAssumption == Ops \subseteq {"cancel", "rescan", "delete", "retry"}
ASSUME FaultsAssumption == Faults \subseteq {"worker", "child", "redis", "db", "broker", "api"}

Free == "free"
ASSUME FreeAssumption == Free \notin Requests

VARIABLES
    status,     \* Scan.status, "absent" before creation and after deletion
    mod,        \* ScanModuleResult.status of each module
    gen,        \* identity of the module rows: rescan deletes and recreates them
    taskId,     \* Scan.celery_task_id, 0 for NULL
    lock,       \* the request whose uncommitted write holds the row, or Free
    flag,       \* scan:{id}:cancel_requested is set
    payload,    \* what scan:{id}:progress holds
    msg,        \* state of each Celery message
    revoked,    \* messages a cancel asked Celery to revoke
    crashes,    \* worker processes lost so far
    pc,         \* where each worker is in execute_scan
    wtask,      \* the message a worker executes, 0 when idle
    wbatch,     \* its position in Batches
    wres,       \* its all_raw_results: "none", "ok" or "bad" per module
    wmod,       \* the modules it still has to retry one by one
    late,       \* history: calls begun on a cancelled scan since the cancel
    escaped,    \* history: what failed behind the last guard, see HandlerRaises
    cpc,        \* the create_scan request
    rpc,        \* where each other request is
    rgen,       \* the module rows a retry_module request read
    rmod,       \* the module it retries
    rtask,      \* the message a rescan published
    sse         \* a progress stream

db     == <<status, mod, gen, taskId>>
redis  == <<flag, payload>>
broker == <<msg, revoked, crashes>>
local  == <<wtask, wbatch, wres, wmod>>
req    == <<rpc, rgen, rmod, rtask>>
vars   == <<db, lock, redis, broker, pc, local, late, escaped, cpc, req, sse>>

-----------------------------------------------------------------------------
Terminal    == {"completed", "failed", "cancelled"}
Cancellable == {"pending", "running"}
ScanStatus  == Terminal \cup Cancellable
ModStatus   == {"pending", "success", "failed", "retrying"}
Settled     == {"success", "failed"}

\* "full": a batch's own payload that already says progress 100.
Payload         == {"none", "running", "full", "done", "error", "cancelled"}
TerminalPayload == {"full", "done", "error", "cancelled"}

WorkerPC == {"idle", "gate", "cas", "recheck", "begin", "top", "announce",
             "setprog", "precall", "docall", "call", "markretry", "retryprog",
             "retry", "retrydo", "retrycall", "closebatch", "after", "setend",
             "final", "commit", "paydone", "fatal", "fatalcommit"}
RescanPC  == {"rescanFlush", "rescanRedis", "rescanPublish", "rescanCommit"}
RequestPC == {"idle", "cancelFlush", "cancelRedis", "cancelCommit",
              "deleteRedis", "deleteCommit", "retryCall", "end"} \cup RescanPC

NoResult == [m \in Modules |-> "none"]

TypeDb ==
    /\ status \in ScanStatus \cup {"absent"}
    /\ mod \in [Modules -> ModStatus]
    /\ gen \in Nat
    /\ taskId \in Tasks \cup {0}
    /\ lock \in Requests \cup {Free}

TypeRedis == flag \in BOOLEAN /\ payload \in Payload

TypeBroker ==
    /\ msg \in [Tasks -> {"unused", "queued", "taken", "acked"}]
    /\ revoked \subseteq Tasks
    /\ crashes \in Nat

TypeWorker ==
    /\ pc \in [Workers -> WorkerPC]
    /\ wtask \in [Workers -> Tasks \cup {0}]
    /\ wbatch \in [Workers -> Nat]
    /\ wres \in [Workers -> [Modules -> {"none", "ok", "bad"}]]
    /\ wmod \in [Workers -> SUBSET Modules]
    /\ late \in [Workers -> Nat]
    /\ escaped \subseteq {"redis", "db", "broker"}

TypeRequest ==
    /\ cpc \in {"new", "publish", "setid", "end"}
    /\ rpc \in [Requests -> RequestPC]
    /\ rgen \in [Requests -> Nat]
    /\ rmod \in [Requests -> SUBSET Modules]
    /\ rtask \in [Requests -> Tasks \cup {0}]
    /\ sse \in {"closed", "open", "done"}

TypeOK == TypeDb /\ TypeRedis /\ TypeBroker /\ TypeWorker /\ TypeRequest

Init ==
    /\ status = "absent" /\ mod = [m \in Modules |-> "pending"] /\ gen = 0
    /\ taskId = 0 /\ lock = Free
    /\ flag = FALSE /\ payload = "none"
    /\ msg = [t \in Tasks |-> "unused"] /\ revoked = {} /\ crashes = 0
    /\ pc = [w \in Workers |-> "idle"] /\ wtask = [w \in Workers |-> 0]
    /\ wbatch = [w \in Workers |-> 0] /\ wres = [w \in Workers |-> NoResult]
    /\ wmod = [w \in Workers |-> {}] /\ late = [w \in Workers |-> 0]
    /\ escaped = {}
    /\ cpc = "new"
    /\ rpc = [r \in Requests |-> "idle"] /\ rgen = [r \in Requests |-> 0]
    /\ rmod = [r \in Requests |-> {}] /\ rtask = [r \in Requests |-> 0]
    /\ sse = "closed"

-----------------------------------------------------------------------------
\* The Celery queue (Redis broker, acknowledged late).

NextTask(t) == msg[t] = "unused" /\ \A s \in Tasks : s < t => msg[s] # "unused"
Publish(t)  == msg' = [msg EXCEPT ![t] = "queued"]

\* A worker goes on to label l of execute_scan.
Go(w, l) == pc' = [pc EXCEPT ![w] = l]

\* execute_scan returns: the message is acknowledged and the worker is free.
Return(w) ==
    /\ Go(w, "idle")
    /\ msg' = [msg EXCEPT ![wtask[w]] = "acked"]
    /\ wtask' = [wtask EXCEPT ![w] = 0]

Take(w) ==
    \E t \in Tasks :
        /\ pc[w] = "idle" /\ msg[t] = "queued"
        /\ IF t \in revoked
           THEN msg' = [msg EXCEPT ![t] = "acked"] /\ UNCHANGED <<pc, wtask>>
           ELSE /\ msg' = [msg EXCEPT ![t] = "taken"]
                /\ wtask' = [wtask EXCEPT ![w] = t]
                /\ Go(w, "gate")
        /\ UNCHANGED <<db, lock, redis, revoked, crashes, wbatch, wres, wmod,
                       late, escaped, cpc, req, sse>>

\* The whole worker is lost: its transaction rolls back and the
\* unacknowledged message is delivered again.
Crash(w) ==
    /\ "worker" \in Faults /\ crashes < MaxCrashes /\ pc[w] # "idle"
    /\ crashes' = crashes + 1
    /\ msg' = [msg EXCEPT ![wtask[w]] = "queued"]
    /\ Go(w, "idle")
    /\ wtask' = [wtask EXCEPT ![w] = 0]
    /\ UNCHANGED <<db, lock, redis, revoked, wbatch, wres, wmod, late, escaped,
                   cpc, req, sse>>

\* Only the child that runs the task ends, by the SIGTERM of a revoke or for
\* a reason of its own (out of memory): Celery then acknowledges the message.
Killed(w) ==
    /\ pc[w] # "idle" /\ (wtask[w] \in revoked \/ "child" \in Faults)
    /\ Return(w)
    /\ UNCHANGED <<db, lock, redis, revoked, crashes, wbatch, wres, wmod, late,
                   escaped, cpc, req, sse>>

-----------------------------------------------------------------------------
\* execute_scan, before the batches.  Each step may raise instead of what it
\* says here: see Raises.

wframe == UNCHANGED <<lock, revoked, crashes, cpc, req, sse>>
wquiet == wframe /\ UNCHANGED escaped

\* First read of Scan.status.
Gate(w) ==
    /\ pc[w] = "gate"
    /\ IF status \in Cancellable
       THEN Go(w, "cas") /\ UNCHANGED <<msg, wtask>>
       ELSE Return(w)
    /\ UNCHANGED <<db, redis, wbatch, wres, wmod, late>> /\ wquiet

\* Faulty variant: the UPDATE without its WHERE.
CompareAndSetAlways(w) ==
    /\ pc[w] = "cas" /\ lock = Free
    /\ status' = (IF status = "absent" THEN status ELSE "running") /\ Go(w, "begin")
    /\ UNCHANGED <<mod, gen, taskId, redis, msg, local, late>> /\ wquiet

\* UPDATE ... SET status = RUNNING WHERE status = PENDING.
CompareAndSet(w) ==
    /\ pc[w] = "cas" /\ lock = Free
    /\ IF status = "pending"
       THEN status' = "running" /\ Go(w, "begin")
       ELSE UNCHANGED status /\ Go(w, "recheck")
    /\ UNCHANGED <<mod, gen, taskId, redis, msg, local, late>> /\ wquiet

\* Faulty variant: a redelivery never continues.
RecheckStrict(w) ==
    /\ pc[w] = "recheck" /\ Return(w)
    /\ UNCHANGED <<db, redis, wbatch, wres, wmod, late>> /\ wquiet

\* rowcount = 0: only a RUNNING row lets this delivery continue.
Recheck(w) ==
    /\ pc[w] = "recheck"
    /\ CASE status = "running" -> Go(w, "begin") /\ UNCHANGED <<msg, wtask>>
         [] status = "absent"  -> Go(w, "fatal") /\ UNCHANGED <<msg, wtask>>
         [] OTHER              -> Return(w)
    /\ UNCHANGED <<db, redis, wbatch, wres, wmod, late>> /\ wquiet

\* validate_url_safety may raise (the name may have moved to a private
\* address); otherwise the scan.started event is committed.
Begin(w) ==
    /\ pc[w] = "begin"
    /\ \/ Go(w, "fatal") /\ UNCHANGED <<wbatch, wres>>
       \/ /\ status # "absent" /\ Go(w, "top")
          /\ wbatch' = [wbatch EXCEPT ![w] = 1]
          /\ wres' = [wres EXCEPT ![w] = NoResult]
    /\ UNCHANGED <<db, redis, msg, wtask, wmod, late>> /\ wquiet

\* _is_scan_aborted, then an early return; a missing row raises instead.
Aborted   == flag \/ status = "cancelled"
Vanished  == status = "absent"

AbortCheck(w, onward) ==
    /\ CASE Vanished -> Go(w, "fatal") /\ UNCHANGED <<msg, wtask>>
         [] ~Vanished /\ Aborted  -> Return(w)
         [] ~Vanished /\ ~Aborted -> Go(w, onward) /\ UNCHANGED <<msg, wtask>>

-----------------------------------------------------------------------------
\* execute_scan, one batch.

Current(w) == Batches[wbatch[w]]
Pending(w) == {m \in Modules : m \in Current(w) /\ wres[w][m] = "none"}

\* Head of the loop; an empty batch is skipped after the check.
BatchTop(w) ==
    /\ pc[w] = "top"
    /\ IF wbatch[w] > Len(Batches)
       THEN Go(w, "final") /\ UNCHANGED <<msg, wtask, wbatch>>
       ELSE IF Current(w) # {}
            THEN AbortCheck(w, "announce") /\ UNCHANGED wbatch
            ELSE /\ AbortCheck(w, "top")
                 /\ wbatch' = [wbatch EXCEPT ![w] =
                                 IF Vanished \/ Aborted THEN @ ELSE @ + 1]
    /\ UNCHANGED <<db, redis, wres, wmod, late>> /\ wquiet

\* if not _is_scan_aborted(): redis.set(progress) -- the check ...
Announce(w) ==
    /\ pc[w] = "announce"
    /\ Go(w, CASE Aborted -> "precall"
               [] ~Aborted /\ Vanished -> "fatal"
               [] ~Aborted /\ ~Vanished -> "setprog")
    /\ UNCHANGED <<db, redis, msg, local, late>> /\ wquiet

\* ... and the write.
SetProgress(w) ==
    /\ pc[w] = "setprog" /\ payload' = "running" /\ Go(w, "precall")
    /\ UNCHANGED <<db, flag, msg, local, late>> /\ wquiet

CheckBeforeCall(w) ==
    /\ pc[w] = "precall" /\ AbortCheck(w, "docall")
    /\ UNCHANGED <<db, redis, wbatch, wres, wmod, late>> /\ wquiet

\* A call to the scan service begins; late counts the ones that begin while
\* the committed row says CANCELLED.
StartCall(w, l) ==
    /\ Go(w, l)
    /\ late' = IF status = "cancelled" THEN [late EXCEPT ![w] = @ + 1] ELSE late

CallBatch(w) ==
    /\ pc[w] = "docall" /\ StartCall(w, "call")
    /\ UNCHANGED <<db, redis, msg, local>> /\ wquiet

ModRow(res) == IF res = "ok" THEN "success" ELSE "failed"

\* The batch answers: every module of it has an envelope, and the rows and
\* the scan's progress are committed together.
BatchReturns(w) ==
    /\ pc[w] = "call" /\ lock = Free
    /\ \E out \in [Current(w) -> {"ok", "bad"}] :
        /\ wres' = [wres EXCEPT ![w] =
               [m \in Modules |-> IF m \in Current(w) THEN out[m] ELSE @[m]]]
        /\ mod' = IF Vanished THEN mod
                  ELSE [m \in Modules |->
                          IF m \in Current(w) THEN ModRow(out[m]) ELSE mod[m]]
    /\ Go(w, "after")
    /\ UNCHANGED <<status, gen, taskId, redis, msg, wtask, wbatch, wmod, late>>
    /\ wquiet

\* Faulty variant: the batch's error is swallowed.
BatchFailsSilently(w) ==
    /\ pc[w] = "call" /\ Go(w, "after")
    /\ UNCHANGED <<db, redis, msg, local, late>> /\ wquiet

\* The batch call raises, or its answer does after some modules (done) were
\* recorded; the commit of the event keeps those (the row must still exist).
BatchFails(w) ==
    /\ pc[w] = "call"
    /\ \E done \in SUBSET Current(w), out \in [Current(w) -> {"ok", "bad"}] :
        /\ wres' = [wres EXCEPT ![w] =
               [m \in Modules |-> IF m \in done THEN out[m] ELSE @[m]]]
        /\ mod' = IF Vanished THEN mod
                  ELSE [m \in Modules |->
                          IF m \in done THEN ModRow(out[m]) ELSE mod[m]]
    /\ Go(w, IF Vanished THEN "fatal" ELSE "markretry")
    /\ UNCHANGED <<status, gen, taskId, redis, msg, wtask, wbatch, wmod, late>>
    /\ wquiet

\* The modules without a result become RETRYING.
MarkRetrying(w) ==
    /\ pc[w] = "markretry" /\ lock = Free
    /\ wmod' = [wmod EXCEPT ![w] = Pending(w)]
    /\ mod' = IF Vanished THEN mod
              ELSE [m \in Modules |->
                      IF m \in Pending(w) THEN "retrying" ELSE mod[m]]
    /\ Go(w, IF Vanished THEN "fatal" ELSE "retryprog")
    /\ UNCHANGED <<status, gen, taskId, redis, msg, wtask, wbatch, wres, late>>
    /\ wquiet

\* Redis is told about the retry without looking at the cancel flag.
RetryProgress(w) ==
    /\ pc[w] = "retryprog" /\ payload' = "running" /\ Go(w, "retry")
    /\ UNCHANGED <<db, flag, msg, local, late>> /\ wquiet

\* Faulty variant: the retry loop does not look for a cancel.
RetryUnchecked(w) ==
    /\ pc[w] = "retry"
    /\ Go(w, IF wmod[w] = {} THEN "closebatch" ELSE "retrydo")
    /\ UNCHANGED <<db, redis, msg, local, late>> /\ wquiet

\* Loop over pending_modules with a check before each call.
RetryNext(w) ==
    /\ pc[w] = "retry"
    /\ IF wmod[w] = {}
       THEN Go(w, "closebatch") /\ UNCHANGED <<msg, wtask>>
       ELSE AbortCheck(w, "retrydo")
    /\ UNCHANGED <<db, redis, wbatch, wres, wmod, late>> /\ wquiet

CallModule(w) ==
    /\ pc[w] = "retrydo" /\ StartCall(w, "retrycall")
    /\ UNCHANGED <<db, redis, msg, local>> /\ wquiet

\* One module's envelope (a transport error is a failed envelope) is committed.
ModuleReturns(w) ==
    /\ pc[w] = "retrycall" /\ lock = Free
    /\ \E m \in wmod[w], res \in {"ok", "bad"} :
        /\ wres' = [wres EXCEPT ![w][m] = res]
        /\ wmod' = [wmod EXCEPT ![w] = @ \ {m}]
        /\ mod' = IF Vanished THEN mod ELSE [mod EXCEPT ![m] = ModRow(res)]
    /\ Go(w, "retry")
    /\ UNCHANGED <<status, gen, taskId, redis, msg, wtask, wbatch, late>>
    /\ wquiet

\* The scan's progress after the retries; waits for the row like any UPDATE.
CloseBatch(w) ==
    /\ pc[w] = "closebatch" /\ lock = Free
    /\ Go(w, IF Vanished THEN "fatal" ELSE "after")
    /\ UNCHANGED <<db, redis, msg, local, late>> /\ wquiet

CheckAfterBatch(w) ==
    /\ pc[w] = "after" /\ AbortCheck(w, "setend")
    /\ UNCHANGED <<db, redis, wbatch, wres, wmod, late>> /\ wquiet

\* progress_ranges gives the last batch the end value 100.
SetBatchEnd(w) ==
    /\ pc[w] = "setend"
    /\ payload' = IF wbatch[w] = Len(Batches) THEN "full" ELSE "running"
    /\ wbatch' = [wbatch EXCEPT ![w] = @ + 1]
    /\ Go(w, "top")
    /\ UNCHANGED <<db, flag, msg, wtask, wres, wmod, late>> /\ wquiet

-----------------------------------------------------------------------------
\* execute_scan, the end.

\* current_status is read; only CANCELLED stops the final update.
FinalCheck(w) ==
    /\ pc[w] = "final"
    /\ CASE status = "absent"    -> Go(w, "fatal") /\ UNCHANGED <<msg, wtask>>
         [] status = "cancelled" -> Return(w)
         [] OTHER                -> Go(w, "commit") /\ UNCHANGED <<msg, wtask>>
    /\ UNCHANGED <<db, redis, wbatch, wres, wmod, late>> /\ wquiet

FinalStatus(w) ==
    IF \E m \in Modules : wres[w][m] = "ok" THEN "completed" ELSE "failed"

\* The final UPDATE carries no condition on the status.
FinalCommit(w) ==
    /\ pc[w] = "commit" /\ lock = Free
    /\ IF Vanished THEN Go(w, "fatal") /\ UNCHANGED status
                   ELSE Go(w, "paydone") /\ status' = FinalStatus(w)
    /\ UNCHANGED <<mod, gen, taskId, redis, msg, local, late>> /\ wquiet

PayloadDone(w) ==
    /\ pc[w] = "paydone" /\ payload' = "done" /\ Return(w)
    /\ UNCHANGED <<db, flag, wbatch, wres, wmod, late>> /\ wquiet

\* Faulty variant: no payload for a failed scan.
FatalSilent(w) ==
    /\ pc[w] = "fatal" /\ Go(w, "fatalcommit")
    /\ UNCHANGED <<db, redis, msg, local, late>> /\ wquiet

\* except Exception: the error payload ...
Fatal(w) ==
    /\ pc[w] = "fatal" /\ payload' = "error" /\ Go(w, "fatalcommit")
    /\ UNCHANGED <<db, flag, msg, local, late>> /\ wquiet

\* ... then FAILED, whatever the row says by now.
FatalCommit(w) ==
    /\ pc[w] = "fatalcommit" /\ lock = Free
    /\ status' = IF Vanished THEN status ELSE "failed"
    /\ Return(w)
    /\ UNCHANGED <<mod, gen, taskId, redis, wbatch, wres, wmod, late>> /\ wquiet

\* Redis and the database may fail under any statement of the body.  A write
\* to Redis that raises may have arrived (its reply, or the expire after it,
\* is what failed); the database's transaction is rolled back.
UsesRedis(w) ==
    \/ pc[w] \in {"announce", "setprog", "precall", "retryprog", "after",
                  "setend", "paydone"}
    \/ pc[w] = "top" /\ wbatch[w] <= Len(Batches)
    \/ pc[w] = "retry" /\ wmod[w] # {}

UsesDb(w) ==
    \/ pc[w] \in {"gate", "cas", "recheck", "begin", "top", "announce", "precall",
                  "call", "markretry", "closebatch", "after", "final", "commit"}
    \/ pc[w] = "retrycall"
    \/ pc[w] = "retry" /\ wmod[w] # {}

Sent(w) ==
    CASE pc[w] \in {"setprog", "retryprog"} -> "running"
      [] pc[w] = "setend"  -> IF wbatch[w] = Len(Batches) THEN "full" ELSE "running"
      [] pc[w] = "paydone" -> "done"
      [] OTHER             -> payload

Raises(w) ==
    /\ \/ "redis" \in Faults /\ UsesRedis(w)
       \/ "db" \in Faults /\ UsesDb(w)
    /\ payload' \in {payload, Sent(w)}
    /\ Go(w, "fatal")
    /\ UNCHANGED <<db, flag, msg, local, late>> /\ wquiet

\* The handler has no handler of its own: its Redis write comes first, then a
\* new session.  What either raises leaves the task, whose message is
\* acknowledged all the same, and the row stays as it is.
HandlerRaises(w) ==
    /\ \/ /\ "redis" \in Faults /\ pc[w] = "fatal"
          /\ payload' \in {payload, "error"}
          /\ escaped' = escaped \cup {"redis"}
       \/ /\ "db" \in Faults /\ pc[w] = "fatalcommit" /\ UNCHANGED payload
          /\ escaped' = escaped \cup {"db"}
    /\ Return(w)
    /\ UNCHANGED <<db, flag, wbatch, wres, wmod, late>> /\ wframe

WorkerFault(w) == Raises(w) \/ HandlerRaises(w)

ExecuteScan(w) ==
    \/ Gate(w) \/ CompareAndSet(w) \/ Recheck(w) \/ Begin(w)
    \/ BatchTop(w) \/ Announce(w) \/ SetProgress(w) \/ CheckBeforeCall(w)
    \/ CallBatch(w) \/ BatchReturns(w) \/ BatchFails(w)
    \/ MarkRetrying(w) \/ RetryProgress(w) \/ RetryNext(w) \/ CallModule(w)
    \/ ModuleReturns(w) \/ CloseBatch(w) \/ CheckAfterBatch(w)
    \/ SetBatchEnd(w) \/ FinalCheck(w) \/ FinalCommit(w) \/ PayloadDone(w)
    \/ Fatal(w) \/ FatalCommit(w)

-----------------------------------------------------------------------------
\* POST /scans: commit the row, publish, commit the message's id.

cframe == UNCHANGED <<lock, redis, revoked, crashes, pc, local, late, req, sse>>
cquiet == cframe /\ UNCHANGED escaped

CreateCommit ==
    /\ cpc = "new" /\ cpc' = "publish"
    /\ status = "absent" /\ status' = "pending"    \* a fresh id
    /\ UNCHANGED <<mod, gen, taskId, msg>> /\ cquiet

CreatePublish ==
    /\ cpc = "publish" /\ cpc' = "setid"
    /\ Publish(1)
    /\ UNCHANGED db /\ cquiet

CreateSetId ==
    /\ cpc = "setid" /\ cpc' = "end" /\ lock = Free
    /\ taskId' = IF Vanished THEN taskId ELSE 1
    /\ UNCHANGED <<status, mod, gen, msg>> /\ cquiet

\* delay raises: the request ends with an error, the committed row stays, and
\* the broker may have taken the message nevertheless.
CreatePublishFails ==
    /\ "broker" \in Faults
    /\ cpc = "publish" /\ cpc' = "end"
    /\ \/ Publish(1) /\ UNCHANGED escaped
       \/ UNCHANGED msg /\ escaped' = escaped \cup {"broker"}
    /\ UNCHANGED db /\ cframe

Create == CreateCommit \/ CreatePublish \/ CreateSetId

-----------------------------------------------------------------------------
\* The other requests.

RGo(r, l) == rpc' = [rpc EXCEPT ![r] = l]
rquiet == UNCHANGED <<crashes, pc, local, escaped, cpc, sse>>

\* cancel_scan reads the row, refuses a scan that has ended, and asks Celery
\* to revoke a RUNNING scan's task; the broadcast may reach nobody.
CancelRead(r) ==
    /\ "cancel" \in Ops /\ rpc[r] = "idle" /\ status \in Cancellable
    /\ RGo(r, "cancelFlush")
    /\ \/ UNCHANGED revoked
       \/ /\ status = "running" /\ taskId # 0
          /\ revoked' = revoked \cup {taskId}
    /\ UNCHANGED <<db, lock, redis, msg, late, rgen, rmod, rtask>> /\ rquiet

\* The UPDATE is flushed: the row is locked until the request ends.
CancelFlush(r) ==
    /\ rpc[r] = "cancelFlush" /\ lock = Free
    /\ IF Vanished THEN RGo(r, "end") /\ UNCHANGED lock
                   ELSE RGo(r, "cancelRedis") /\ lock' = r
    /\ UNCHANGED <<db, redis, msg, revoked, late, rgen, rmod, rtask>> /\ rquiet

\* The terminal payload and the flag, best effort.
CancelRedis(r) ==
    /\ rpc[r] = "cancelRedis" /\ RGo(r, "cancelCommit")
    /\ \/ payload' = "cancelled" /\ flag' = TRUE
       \/ "redis" \in Faults /\ UNCHANGED redis
    /\ UNCHANGED <<db, lock, msg, revoked, late, rgen, rmod, rtask>> /\ rquiet

CancelCommit(r) ==
    /\ rpc[r] = "cancelCommit" /\ RGo(r, "end")
    /\ status' = "cancelled" /\ lock' = Free
    /\ late' = [w \in Workers |-> 0]
    /\ UNCHANGED <<mod, gen, taskId, redis, msg, revoked, rgen, rmod, rtask>>
    /\ rquiet

\* rescan: only for a scan that has ended (one rescan in flight at a time).
RescanRead(r) ==
    /\ "rescan" \in Ops /\ rpc[r] = "idle" /\ status \in Terminal
    /\ \A q \in Requests : rpc[q] \notin RescanPC
    /\ RGo(r, "rescanFlush")
    /\ UNCHANGED <<db, lock, redis, msg, revoked, late, rgen, rmod, rtask>>
    /\ rquiet

\* Module slots are replaced and the row reset, uncommitted.
RescanFlush(r) ==
    /\ rpc[r] = "rescanFlush" /\ lock = Free
    /\ IF Vanished THEN RGo(r, "end") /\ UNCHANGED lock
                   ELSE RGo(r, "rescanRedis") /\ lock' = r
    /\ UNCHANGED <<db, redis, msg, revoked, late, rgen, rmod, rtask>> /\ rquiet

\* Redis must answer here: an error ends the request and rolls back.
RescanRedis(r) ==
    /\ rpc[r] = "rescanRedis"
    /\ \/ /\ flag' = FALSE /\ payload' = "none"
          /\ RGo(r, "rescanPublish") /\ UNCHANGED lock
       \/ /\ "redis" \in Faults /\ RGo(r, "end") /\ lock' = Free
          /\ UNCHANGED redis
    /\ UNCHANGED <<db, msg, revoked, late, rgen, rmod, rtask>> /\ rquiet

\* execute_scan.delay runs before the endpoint commits.
RescanPublish(r) ==
    /\ rpc[r] = "rescanPublish"
    /\ \E t \in Tasks : /\ NextTask(t) /\ Publish(t)
                        /\ rtask' = [rtask EXCEPT ![r] = t]
    /\ RGo(r, "rescanCommit")
    /\ UNCHANGED <<db, lock, redis, revoked, late, rgen, rmod>> /\ rquiet

\* delay raises: the request's transaction is rolled back.
RescanPublishFails(r) ==
    /\ "broker" \in Faults
    /\ rpc[r] = "rescanPublish" /\ RGo(r, "end") /\ lock' = Free
    /\ \/ UNCHANGED msg
       \/ \E t \in Tasks : NextTask(t) /\ Publish(t)
    /\ UNCHANGED <<db, redis, revoked, late, rgen, rmod, rtask>> /\ rquiet

RescanCommit(r) ==
    /\ rpc[r] = "rescanCommit" /\ RGo(r, "end")
    /\ status' = "running" /\ mod' = [m \in Modules |-> "pending"]
    /\ gen' = gen + 1 /\ taskId' = rtask[r] /\ lock' = Free
    /\ UNCHANGED <<redis, msg, revoked, late, rgen, rmod, rtask>> /\ rquiet

\* delete_scan accepts every status; the Redis keys go first, best effort.
DeleteRead(r) ==
    /\ "delete" \in Ops /\ rpc[r] = "idle" /\ ~Vanished
    /\ RGo(r, "deleteRedis")
    /\ UNCHANGED <<db, lock, redis, msg, revoked, late, rgen, rmod, rtask>>
    /\ rquiet

DeleteRedis(r) ==
    /\ rpc[r] = "deleteRedis" /\ RGo(r, "deleteCommit")
    /\ \/ flag' = FALSE /\ payload' = "none"
       \/ "redis" \in Faults /\ UNCHANGED redis
    /\ UNCHANGED <<db, lock, msg, revoked, late, rgen, rmod, rtask>> /\ rquiet

DeleteCommit(r) ==
    /\ rpc[r] = "deleteCommit" /\ lock = Free /\ RGo(r, "end")
    /\ status' = "absent"
    /\ UNCHANGED <<mod, gen, taskId, lock, redis, msg, revoked, late, rgen,
                   rmod, rtask>>
    /\ rquiet

\* retry_module: only for a scan that has ended and a module that did not
\* succeed; then the request waits for the scan service.
RetryRead(r, m) ==
    /\ "retry" \in Ops /\ rpc[r] = "idle"
    /\ status \in Terminal /\ mod[m] # "success"
    /\ RGo(r, "retryCall")
    /\ rgen' = [rgen EXCEPT ![r] = gen] /\ rmod' = [rmod EXCEPT ![r] = {m}]
    /\ UNCHANGED <<db, lock, redis, msg, revoked, late, rtask>> /\ rquiet

\* The row it read is updated if it still exists; a failed call or a row
\* that a rescan replaced ends the request with an error.
RetryCommit(r) ==
    /\ rpc[r] = "retryCall" /\ lock = Free /\ RGo(r, "end")
    /\ \/ UNCHANGED mod
       \/ /\ rgen[r] = gen /\ ~Vanished
          /\ \E res \in Settled :
                mod' = [m \in Modules |-> IF m \in rmod[r] THEN res ELSE mod[m]]
    /\ UNCHANGED <<status, gen, taskId, lock, redis, msg, revoked, late, rgen,
                   rmod, rtask>>
    /\ rquiet

\* The API process dies, or the client's connection ends the request: the
\* transaction rolls back; Redis and the queue keep what was done to them.
RequestDies(r) ==
    /\ "api" \in Faults /\ rpc[r] \notin {"idle", "end"}
    /\ RGo(r, "end")
    /\ lock' = IF lock = r THEN Free ELSE lock
    /\ UNCHANGED <<db, redis, msg, revoked, late, rgen, rmod, rtask>> /\ rquiet

RequestStart(r) ==
    \/ CancelRead(r) \/ RescanRead(r) \/ DeleteRead(r)
    \/ \E m \in Modules : RetryRead(r, m)

RequestStep(r) ==
    \/ CancelFlush(r) \/ CancelRedis(r) \/ CancelCommit(r)
    \/ RescanFlush(r) \/ RescanRedis(r) \/ RescanPublish(r) \/ RescanCommit(r)
    \/ DeleteRedis(r) \/ DeleteCommit(r) \/ RetryCommit(r)

-----------------------------------------------------------------------------
\* GET /scans/{id}/progress polls the payload until it is a terminal one.

squiet == UNCHANGED <<db, lock, redis, broker, pc, local, late, escaped, cpc, req>>

SseOpen == sse = "closed" /\ ~Vanished /\ sse' = "open" /\ squiet
SseEnd  == sse = "open" /\ payload \in TerminalPayload /\ sse' = "done" /\ squiet

-----------------------------------------------------------------------------
Next ==
    \/ \E w \in Workers :
           Take(w) \/ Crash(w) \/ Killed(w) \/ ExecuteScan(w) \/ WorkerFault(w)
    \/ Create \/ CreatePublishFails
    \/ \E r \in Requests :
           RequestStart(r) \/ RequestStep(r) \/ RequestDies(r) \/ RescanPublishFails(r)
    \/ SseOpen \/ SseEnd

Spec == Init /\ [][Next]_vars

\* Workers, started requests and an open stream keep running; nobody has to
\* send a request, crash or kill, and nothing has to fail.
Fairness ==
    /\ \A w \in Workers : WF_vars(Take(w)) /\ WF_vars(ExecuteScan(w))
    /\ \A r \in Requests : WF_vars(RequestStep(r))
    /\ WF_vars(Create) /\ WF_vars(SseEnd)

FairSpec == Spec /\ Fairness

-----------------------------------------------------------------------------
(* Properties *)

\* A cancel is prompt: once it is committed, a worker begins at most one more
\* call to the scan service (the one it was about to make), whatever the
\* Redis flag, other workers and other requests do.
CancelStopsWork == \A w \in Workers : late[w] <= 1

\* A scan that has ended runs again only when a rescan commits: neither a
\* worker that read the row before the end nor a redelivered message revives
\* it.  This is what the conditional UPDATE at the start of execute_scan is for.
TerminalLeftOnlyByRescan ==
    [][ (status \in Terminal /\ status' \in Cancellable)
        => \E r \in Requests : rpc[r] = "rescanCommit" /\ rpc'[r] = "end" ]_vars

\* A COMPLETED scan that no rescan touched has a final row for every module
\* it selected: no overtaken cancel, redelivery or retry leaves one open.
CompletedIsSettled ==
    (gen = 0 /\ status = "completed") =>
        \A b \in 1..Len(Batches) : \A m \in Batches[b] : mod[m] \in Settled

\* Without rescans every scan that is created ends: a lost worker, a SIGTERM
\* from a cancel and a Redis or database command that fails anywhere in
\* execute_scan's body delay the end but do not prevent it.  What does prevent
\* it is a failure with nothing behind it: the Redis write or the session of
\* execute_scan's own handler, or the publication after create_scan's commit
\* (escaped).  (A child lost on its own, or a request that dies between its
\* revoke and its commit, does so too: no instance of this property has them.)
EventuallyEnds ==
    (status \in Cancellable) ~> (status \notin Cancellable \/ escaped # {})

\* A browser that follows a scan is told that it ended, also when Redis fails
\* the worker's last write or the database fails at any time.  It is not told
\* when the handler's Redis write or the first publication failed.  Excused
\* are cancelled and deleted scans (the cancel's own Redis write may fail, and
\* a worker may replace what it wrote) and a last batch without modules (then
\* a worker lost after the final commit leaves no final payload; no other
\* batch says progress 100).
StreamEnds ==
    (sse = "open") ~> \/ sse = "done" \/ status \in {"cancelled", "absent"}
                      \/ escaped \cap {"redis", "broker"} # {}

-----------------------------------------------------------------------------
(* What the repository says of the program, and the code does otherwise. *)

\* scan_tasks.py: "Skip final update if scan was cancelled (avoid
\* overwriting CANCELLED)": a worker never replaces CANCELLED.
CancelledNotOverwritten ==
    [][ status = "cancelled" => status' \notin {"completed", "failed"} ]_vars
=============================================================================

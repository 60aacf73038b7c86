----------------------------- MODULE UrlGroupRun -----------------------------
(***************************************************************************)
(* One batch scan of a URL group: the Celery task that walks through the   *)
(* members in batches and runs their scans in threads of its own, the      *)
(* request that cancels the run, and redeliveries of the task's message,   *)
(* after a lost worker or beside a slow one.                               *)
(*                                                                         *)
(* A session's writes reach the rows with its commit; until then they are  *)
(* its draft.  The order of the members is left open.  What a scan does is *)
(* ScanLifecycle's subject: here it ends, in one of the ways it can, or    *)
(* its own handler fails and the exception comes out of its thread.        *)
(***************************************************************************)
EXTENDS Naturals, FiniteSets

CONSTANTS
    Members,     \* URLs of the run
    Workers,     \* Celery workers
    NoScan,      \* no scan_id
    Limit,       \* concurrency_limit
    MaxFaults,   \* bound: lost workers and children, exceptions that reach the task's
                 \* handler, threads that raise, deliveries beside a busy worker, and a
                 \* cancel request that dies
    MaxShared    \* bound: members (skipped ones apart) of a run delivered beside one

ASSUME GroupAssumption ==
    /\ IsFiniteSet(Members) /\ NoScan \notin Workers /\ Limit \in Nat \ {0}
    /\ MaxFaults \in Nat /\ MaxShared \in Nat

VARIABLES
    status,    \* the run's row
    mem,       \* status of each member's row
    link,      \* its scan_id: the worker that made the scan, or NoScan
    scan,      \* rows of scans: by worker and member
    msgs,      \* messages process_url_group_run
    pc,        \* where each worker is
    todo,      \* members it found queued and has not put in a batch
    batch,     \* members of its batch it has not begun
    draft,     \* what its session will commit of each member
    runnable,  \* members of its batch with a scan to run, or to collect
    threads,   \* those whose scan it is running
    verdict,   \* the status it is about to commit for the run, or "same"
    cancel,    \* the cancel request: "none", "read", "done" or "dead"
    open, hit, \* members it found unfinished; their scans, whose Redis flags it sets
    thrown,    \* scans whose thread ended with an exception, by worker and member
    \* History
    late,      \* batches begun after the cancel's commit, by a lone worker
    twins,     \* two workers have been at work on the run at once
    acked,     \* how the message of an unfinished run was acknowledged: its child was
               \* "lost", or the task's handler has "failed"
    lost, raised, repeats

rows   == <<status, mem, link, scan>>
local  == <<todo, batch, draft, runnable, threads, verdict, thrown>>
api    == <<cancel, open, hit>>
faults == <<acked, lost, raised, repeats>>
vars   == <<rows, msgs, pc, local, api, late, twins, faults>>

Active    == {"pending", "running"}
Ended     == {"completed", "failed", "cancelled", "partial"}
MemEnded  == {"completed", "failed", "cancelled", "skipped"}
MemOpen   == {"queued", "creating", "running"}
ScanEnded == {"completed", "failed", "cancelled"}

\* What a session has for a member: nothing; CREATING_SCAN, committed; a scan to
\* run; a scan cancelled at once; a cancelled member; a failed one.
Draft == {"same", "creating", "running", "withdrawn", "cancelled", "failed"}

Idle == [m \in Members |-> "same"]
Busy == {w \in Workers : pc[w] # "idle"}

TypeOK ==
    /\ status \in Active \cup Ended /\ mem \in [Members -> MemOpen \cup MemEnded]
    /\ link \in [Members -> Workers \cup {NoScan}]
    /\ scan \in [Workers -> [Members -> ScanEnded \cup {"none", "live"}]]
    /\ msgs \in Nat
    /\ pc \in [Workers -> {"idle", "top", "members", "gate", "start", "scanning", "final", "publish"}]
    /\ todo \in [Workers -> SUBSET Members] /\ batch \in [Workers -> SUBSET Members]
    /\ draft \in [Workers -> [Members -> Draft]]
    /\ runnable \in [Workers -> SUBSET Members] /\ threads \in [Workers -> SUBSET Members]
    /\ verdict \in [Workers -> Ended \cup {"same"}]
    /\ cancel \in {"none", "read", "done", "dead"} /\ open \subseteq Members
    /\ hit \subseteq Workers \X Members /\ thrown \subseteq Workers \X Members
    /\ late \in Nat /\ twins \in BOOLEAN /\ acked \subseteq {"lost", "failed"}
    /\ lost \in Nat /\ raised \in Nat /\ repeats \in Nat

\* create_group_run has committed and the message is published: recently scanned
\* members are skipped, and some member is queued.
Init ==
    /\ status = "pending" /\ mem \in [Members -> {"queued", "skipped"}]
    /\ \E m \in Members : mem[m] = "queued"
    /\ link = [m \in Members |-> NoScan]
    /\ scan = [w \in Workers |-> [m \in Members |-> "none"]]
    /\ msgs = 1 /\ pc = [w \in Workers |-> "idle"]
    /\ todo = [w \in Workers |-> {}] /\ batch = [w \in Workers |-> {}]
    /\ draft = [w \in Workers |-> Idle]
    /\ runnable = [w \in Workers |-> {}] /\ threads = [w \in Workers |-> {}]
    /\ verdict = [w \in Workers |-> "same"]
    /\ cancel = "none" /\ open = {} /\ hit = {} /\ thrown = {} /\ late = 0 /\ twins = FALSE
    /\ acked = {} /\ lost = 0 /\ raised = 0 /\ repeats = 0

-----------------------------------------------------------------------------
(* process_url_group_run: the batches *)

Go(w, l) == pc' = [pc EXCEPT ![w] = l]

Fault == lost + raised + repeats + Cardinality(thrown) < IF cancel = "dead" THEN MaxFaults - 1
                                                                           ELSE MaxFaults

\* Faulty variants: a redelivered task resumes the members that were begun; or it
\* takes only a run that nobody has begun.
Resumable    == {m \in Members : mem[m] \in MemOpen}
TakesPending == status = "pending"

\* The members a task works on.
Queued == {m \in Members : mem[m] = "queued"}

\* The runs a task works on.
Takes == status \in Active

\* The task begins: a pending run becomes running; one that has ended is left.
Take(w) ==
    /\ pc[w] = "idle" /\ msgs > 0 /\ msgs' = msgs - 1
    /\ \/ /\ Takes
          /\ Go(w, "top") /\ status' = "running" /\ todo' = [todo EXCEPT ![w] = Queued]
          /\ twins' = (twins \/ Busy # {})
       \/ ~Takes /\ UNCHANGED <<pc, status, todo, twins>>
    /\ UNCHANGED <<mem, link, scan, batch, draft, runnable, threads, verdict, thrown, api, late,
                   faults>>

\* Faulty variant: the run is read once, when the task begins.
SeesNoCancel == FALSE

\* db.refresh(run), and the status it brings.
SeesCancel == status = "cancelled"

\* The next batch, if any member is left and nobody has cancelled.
NextBatch(w) ==
    /\ pc[w] = "top" /\ ~SeesCancel /\ todo[w] # {} /\ Go(w, "members")
    /\ \E b \in SUBSET todo[w] :
         /\ Cardinality(b) = Limit \/ (b = todo[w] /\ Cardinality(b) < Limit)
         /\ batch' = [batch EXCEPT ![w] = b] /\ todo' = [todo EXCEPT ![w] = @ \ b]
    /\ UNCHANGED <<rows, msgs, draft, runnable, threads, verdict, thrown, api, late,
                   twins, faults>>

\* What the drafts make of the rows when they are committed.
Drafted(w) ==
    [m \in Members |->
        CASE draft[w][m] \in {"running", "cancelled", "failed"} -> draft[w][m]
          [] draft[w][m] = "withdrawn" -> "cancelled"
          [] OTHER -> mem[m]]

CommitScans(w) ==
    /\ link' = [m \in Members |-> IF draft[w][m] \in {"running", "withdrawn"} THEN w ELSE link[m]]
    /\ scan' = [scan EXCEPT ![w] =
                    [m \in Members |-> CASE draft[w][m] = "running"   -> "live"
                                         [] draft[w][m] = "withdrawn" -> "cancelled"
                                         [] OTHER -> @[m]]]

\* One at a time, a member becomes CREATING_SCAN; the commit takes the drafts along.
Begun(w) == {m \in Members : draft[w][m] = "creating"}

BeginMember(w, m) ==
    /\ pc[w] = "members" /\ Begun(w) = {} /\ m \in batch[w]
    /\ batch' = [batch EXCEPT ![w] = @ \ {m}]
    /\ mem' = [Drafted(w) EXCEPT ![m] = "creating"] /\ CommitScans(w)
    /\ draft' = [draft EXCEPT ![w] = [Idle EXCEPT ![m] = "creating"]]
    /\ UNCHANGED <<status, msgs, pc, todo, runnable, threads, verdict, thrown, api, late,
                   twins, faults>>

\* Its scan is made, or not: the run is found cancelled, before or after the scan
\* is flushed; or the URL is no longer safe.
MakeScan(w, m) ==
    /\ pc[w] = "members" /\ m \in Begun(w)
    /\ \E d \in IF SeesCancel THEN {"cancelled", "withdrawn", "failed"} ELSE {"running", "failed"} :
         /\ draft' = [draft EXCEPT ![w][m] = d]
         /\ runnable' = [runnable EXCEPT ![w] = IF d = "running" THEN @ \cup {m} ELSE @]
    /\ UNCHANGED <<rows, msgs, pc, todo, batch, threads, verdict, thrown, api, late,
                   twins, faults>>

\* All members of the batch tried: their drafts are committed.
Settle(w) ==
    /\ pc[w] = "members" /\ Begun(w) = {} /\ batch[w] = {} /\ Go(w, "gate")
    /\ mem' = Drafted(w) /\ CommitScans(w) /\ draft' = [draft EXCEPT ![w] = Idle]
    /\ UNCHANGED <<status, msgs, todo, batch, runnable, threads, verdict, thrown, api,
                   late, twins, faults>>

\* Faulty variant: the batch of a cancelled run is dropped as it is.
LeaveRunnable(w) == UNCHANGED <<mem, scan>>

\* _cancel_runnable_members, and the commit.
CancelRunnable(w) ==
    /\ mem' = [m \in Members |-> IF m \in runnable[w] THEN "cancelled" ELSE mem[m]]
    /\ scan' = [scan EXCEPT ![w] =
                    [m \in Members |-> IF m \in runnable[w] THEN "cancelled" ELSE @[m]]]

\* The run is looked at once more before the scans are begun.
Gate(w) ==
    /\ pc[w] = "gate"
    /\ \/ /\ SeesCancel /\ Go(w, "top") /\ CancelRunnable(w)
          /\ runnable' = [runnable EXCEPT ![w] = {}]
       \/ ~SeesCancel /\ Go(w, "start") /\ UNCHANGED <<mem, scan, runnable>>
    /\ UNCHANGED <<status, link, msgs, todo, batch, draft, threads, verdict, thrown, api,
                   late, twins, faults>>

-----------------------------------------------------------------------------
(* process_url_group_run: the scans of a batch *)

\* The threads begin; a scan already cancelled ends there (execute_scan).
Start(w) ==
    /\ pc[w] = "start" /\ Go(w, IF runnable[w] = {} THEN "top" ELSE "scanning")
    /\ threads' = [threads EXCEPT ![w] = {m \in runnable[w] : scan[w][m] = "live"}]
    /\ late' = IF cancel = "done" /\ ~twins THEN late + 1 ELSE late
    /\ UNCHANGED <<rows, msgs, todo, batch, draft, runnable, verdict, thrown, api, twins,
                   faults>>

\* A scan ends: it writes its end over whatever the row says, or has met the
\* cancel (its Redis flag, or the row) and leaves the row to the request.
ScanEnds(w, m) ==
    /\ m \in threads[w] /\ threads' = [threads EXCEPT ![w] = @ \ {m}]
    /\ \/ \E s \in {"completed", "failed"} : scan' = [scan EXCEPT ![w][m] = s]
       \/ (<<w, m>> \in hit \/ scan[w][m] = "cancelled") /\ UNCHANGED scan
    /\ UNCHANGED <<status, mem, link, msgs, pc, todo, batch, draft, runnable, verdict,
                   thrown, api,
                   late, twins, faults>>

\* Its thread ends with an exception: the scan's own handler has failed (Redis, a new
\* session), and its row stays what the last commit made it.
ScanRaises(w, m) ==
    /\ m \in threads[w] /\ Fault /\ threads' = [threads EXCEPT ![w] = @ \ {m}]
    /\ thrown' = thrown \cup {<<w, m>>}
    /\ \/ UNCHANGED scan
       \/ \E s \in {"completed", "failed"} : scan' = [scan EXCEPT ![w][m] = s]
    /\ UNCHANGED <<status, mem, link, msgs, pc, todo, batch, draft, runnable, verdict, api,
                   late, twins, faults>>

\* _mark_member_from_scan; a row that has not ended counts as failed.
Marked(s) == IF s \in {"completed", "cancelled"} THEN s ELSE "failed"

\* The member of a thread that has ended is marked and committed: from its scan, or as
\* failed, without a look at the scan, when the thread has raised.
Collect(w, m) ==
    /\ pc[w] = "scanning" /\ m \in runnable[w] \ threads[w]
    /\ mem' = [mem EXCEPT ![m] = IF <<w, m>> \in thrown THEN "failed" ELSE Marked(scan[w][m])]
    /\ runnable' = [runnable EXCEPT ![w] = @ \ {m}]
    /\ Go(w, IF runnable[w] = {m} THEN "top" ELSE "scanning")
    /\ UNCHANGED <<status, link, scan, msgs, todo, batch, draft, threads, verdict, thrown, api,
                   late, twins, faults>>

-----------------------------------------------------------------------------
(* process_url_group_run: the end *)

Some(s) == \E m \in Members : mem[m] = s

\* _finalize_run_status
Verdict ==
    CASE \A m \in Members : mem[m] = "cancelled"   -> "cancelled"
      [] Some("cancelled")                         -> "partial"
      [] Some("failed") /\ Some("completed")       -> "partial"
      [] Some("failed") /\ ~Some("completed")      -> "failed"
      [] OTHER                                     -> "completed"

\* No batch is left, or the run is cancelled: the members are counted.  A status
\* that stays the same is not written.
CountMembers(w) ==
    /\ pc[w] = "top" /\ (SeesCancel \/ todo[w] = {}) /\ Go(w, "final")
    /\ verdict' = [verdict EXCEPT ![w] = IF SeesCancel \/ Verdict = status THEN "same" ELSE Verdict]
    /\ todo' = [todo EXCEPT ![w] = {}]
    /\ UNCHANGED <<rows, msgs, batch, draft, runnable, threads, thrown, api, late, twins,
                   faults>>

EndRun(w) ==
    /\ pc[w] = "final" /\ Go(w, "publish")
    /\ status' = IF verdict[w] = "same" THEN status ELSE verdict[w]
    /\ verdict' = [verdict EXCEPT ![w] = "same"]
    /\ UNCHANGED <<mem, link, scan, msgs, todo, batch, draft, runnable, threads, thrown,
                   api, late, twins, faults>>

\* The progress is published and the task returns.
Leave(w) ==
    /\ pc[w] = "publish" /\ Go(w, "idle")
    /\ UNCHANGED <<rows, msgs, local, api, late, twins, faults>>

\* What a worker that stops leaves of its session.
Drop(w) ==
    /\ Go(w, "idle") /\ draft' = [draft EXCEPT ![w] = Idle]
    /\ todo' = [todo EXCEPT ![w] = {}] /\ batch' = [batch EXCEPT ![w] = {}]
    /\ runnable' = [runnable EXCEPT ![w] = {}] /\ threads' = [threads EXCEPT ![w] = {}]
    /\ verdict' = [verdict EXCEPT ![w] = "same"]

\* An exception (Redis, the database), once the threads have ended: the drafts are
\* rolled back and the run is FAILED, whatever its row says; or the handler's own
\* session fails too and the run stays as it is.  The message is acknowledged.
Fatal(w) ==
    /\ w \in Busy /\ threads[w] = {} /\ Fault /\ raised' = raised + 1
    /\ Drop(w)
    /\ \/ status' = "failed" /\ UNCHANGED acked
       \/ acked' = acked \cup {"failed"} /\ UNCHANGED status
    /\ UNCHANGED <<mem, link, scan, msgs, thrown, api, late, twins, lost, repeats>>

-----------------------------------------------------------------------------
(* Lost and repeated deliveries; the cancel request *)

\* The worker is lost and its message is delivered again; or only the child that
\* runs the task is, and the message is acknowledged.
Crash(w) ==
    /\ w \in Busy /\ Fault /\ lost' = lost + 1 /\ Drop(w)
    /\ \/ msgs' = msgs + 1 /\ UNCHANGED acked
       \/ acked' = acked \cup {"lost"} /\ UNCHANGED msgs
    /\ UNCHANGED <<rows, thrown, api, late, twins, raised, repeats>>

\* A run outlasts the broker's visibility timeout.
Redeliver(w) ==
    /\ w \in Busy /\ Fault /\ Cardinality({m \in Members : mem[m] # "skipped"}) <= MaxShared
    /\ repeats' = repeats + 1 /\ msgs' = msgs + 1
    /\ UNCHANGED <<rows, pc, local, api, late, twins, acked, lost, raised>>

\* cancel_group_run reads the run and its members, and cancel_scan their scans, whose
\* flags it sets in Redis at once.
CancelReads ==
    /\ cancel = "none" /\ status \in Active /\ cancel' = "read"
    /\ open' = {m \in Members : mem[m] \in MemOpen}
    /\ hit' = {h \in Workers \X Members :
                 mem[h[2]] \in MemOpen /\ link[h[2]] = h[1] /\ scan[h[1]][h[2]] = "live"}
    /\ UNCHANGED <<rows, msgs, pc, local, late, twins, faults>>

\* Its commit.  A scan that ended in between is overwritten, or was read after it
\* had ended and is left.
CancelCommits ==
    /\ cancel = "read" /\ cancel' = "done" /\ open' = {} /\ hit' = {} /\ status' = "cancelled"
    /\ mem' = [m \in Members |-> IF m \in open THEN "cancelled" ELSE mem[m]]
    /\ \E spared \in SUBSET {h \in hit : scan[h[1]][h[2]] # "live"} :
         scan' = [w \in Workers |-> [m \in Members |->
                    IF <<w, m>> \in hit \ spared THEN "cancelled" ELSE scan[w][m]]]
    /\ UNCHANGED <<link, msgs, pc, local, late, twins, faults>>

\* It dies before its commit: nothing of it is left but the flags in Redis.
CancelDies ==
    /\ cancel = "read" /\ Fault /\ cancel' = "dead" /\ open' = {}
    /\ UNCHANGED <<rows, msgs, pc, local, hit, late, twins, faults>>

-----------------------------------------------------------------------------
Step(w) ==
    \/ Take(w) \/ NextBatch(w) \/ Settle(w) \/ Gate(w) \/ Start(w)
    \/ \E m \in Members : \/ BeginMember(w, m) \/ MakeScan(w, m) \/ Collect(w, m)
                          \/ ScanEnds(w, m) \/ ScanRaises(w, m)
    \/ CountMembers(w) \/ EndRun(w) \/ Leave(w)

Next ==
    \/ \E w \in Workers : Step(w) \/ Fatal(w) \/ Crash(w) \/ Redeliver(w)
    \/ CancelReads \/ CancelCommits \/ CancelDies

Spec == Init /\ [][Next]_vars

\* A worker that has work goes on, and its threads end (ScanLifecycle!EventuallyEnds, or
\* with the failure of a scan's handler that it excuses).
FairSpec == Spec /\ \A w \in Workers : WF_vars(Step(w))

-----------------------------------------------------------------------------
(* Properties *)

\* A member is scanned at most once, over redeliveries and lost workers, as long as
\* no two workers are at work on the run at once.  A worker's second scan of a member
\* would be counted as its first: that it could be made shows in the scan of another.
OneScan ==
    ~twins => \A m \in Members : Cardinality({w \in Workers : scan[w][m] # "none"}) <= 1

\* After the commit of a cancel, the scans of one more batch are begun at the most.
CancelStopsBatches == late <= 1

\* Unless a worker was lost or the task raised, a run that has ended leaves no unfinished
\* member behind; and no live scan either, but one whose own handler has failed, or whose
\* flag was set by a cancel request that died.
EndedIsSettled ==
    status \in Ended /\ Busy = {} /\ cancel # "read" /\ lost = 0 /\ raised = 0
      => \A m \in Members :
           /\ mem[m] \in MemEnded
           /\ \A w \in Workers : scan[w][m] = "live" => <<w, m>> \in thrown \cup hit

\* Over lost workers, exceptions of the task and of its scans, a run ends, unless its
\* message was acknowledged for a lost child, or after its handler had failed itself.
RunEnds == <>(status \in Ended \/ acked # {})
=============================================================================

------------------------- MODULE ReportScheduleRun -------------------------
(***************************************************************************)
(* One report schedule and its runs: the dispatcher that turns a due       *)
(* schedule into a PENDING run and leases pending runs for publication,    *)
(* the publishers (dispatcher ticks and run-now requests), the broker, and *)
(* the workers that generate a report and deliver it.                      *)
(*                                                                         *)
(* next_dispatch_at is abstracted to who holds the lease of a run: a       *)
(* publisher, or nobody (Due) once the time has passed.                    *)
(***************************************************************************)
EXTENDS Naturals, FiniteSets

CONSTANTS
    Runs,       \* report_schedule_runs rows
    Publishers, \* dispatcher ticks and run-now requests
    Workers,    \* Celery workers
    MaxFaults,  \* bound: crashes, redeliveries and failed publications
    MaxMsgs,    \* bound: messages of one run waiting in the broker
    MaxToggles  \* bound: pauses and resumes of the schedule

Due == "due"
NoRun == "norun"
ASSUME NamesAssumption == Due \notin Publishers /\ NoRun \notin Runs
ASSUME BoundsAssumption == MaxFaults \in Nat /\ MaxMsgs \in Nat /\ MaxToggles \in Nat

VARIABLES
    enabled,    \* ReportSchedule.is_enabled
    sdue,       \* next_run_at has passed
    exists,     \* the schedule has not been deleted
    status,     \* ReportScheduleRun.status
    lease,      \* next_dispatch_at: the publisher that reserved it, or Due
    allow,      \* allow_paused
    summary,    \* delivery_summary
    reports,    \* history: Report rows created for a run
    report,     \* Report.status of the row a run points to
    sent,       \* history: external deliveries made for a run
    msgs,       \* messages in the broker
    pub,        \* runs a publisher still has to publish
    rel,        \* runs whose failed publication it still has to release
    wpc,        \* where a worker is in generate_scheduled_report_run
    wrun,       \* the run it holds
    wout,       \* the delivery summary it has to record
    abandoned,  \* history: runs given up while GENERATING, see Fail and WorkerCrash
    faults, toggles

sched == <<enabled, sdue, exists, toggles>>
rows  == <<status, lease, allow, summary, reports, report>>
wvars == <<wpc, wrun, wout>>
vars  == <<sched, rows, sent, msgs, pub, rel, wvars, abandoned, faults>>

Outcome == {"unconfirmed", "success", "failure"}
RunStatus == {"unborn", "pending", "generating", "delivering", "completed",
              "failed", "deleted"}

TypeOK ==
    /\ enabled \in BOOLEAN /\ sdue \in BOOLEAN /\ exists \in BOOLEAN
    /\ status \in [Runs -> RunStatus]
    /\ lease \in [Runs -> Publishers \cup {Due}]
    /\ allow \in [Runs -> BOOLEAN]
    /\ summary \in [Runs -> Outcome \cup {"none"}]
    /\ reports \in [Runs -> Nat] /\ sent \in [Runs -> Nat] /\ msgs \in [Runs -> Nat]
    /\ pub \in [Publishers -> SUBSET Runs] /\ rel \in [Publishers -> SUBSET Runs]
    /\ report \in [Runs -> {"none", "generating", "completed", "failed"}]
    /\ wpc \in [Workers -> {"idle", "claim", "generate", "mark", "fail", "deliver", "record"}]
    /\ wrun \in [Workers -> Runs \cup {NoRun}]
    /\ wout \in [Workers -> Outcome]
    /\ abandoned \subseteq Runs /\ faults \in Nat /\ toggles \in Nat

Init ==
    /\ enabled = TRUE /\ sdue = FALSE /\ exists = TRUE
    /\ status = [r \in Runs |-> "unborn"]
    /\ lease = [r \in Runs |-> Due]
    /\ allow = [r \in Runs |-> FALSE]
    /\ summary = [r \in Runs |-> "none"]
    /\ reports = [r \in Runs |-> 0] /\ sent = [r \in Runs |-> 0]
    /\ msgs = [r \in Runs |-> 0] /\ report = [r \in Runs |-> "none"]
    /\ pub = [p \in Publishers |-> {}] /\ rel = [p \in Publishers |-> {}]
    /\ wpc = [w \in Workers |-> "idle"] /\ wrun = [w \in Workers |-> NoRun]
    /\ wout = [w \in Workers |-> "unconfirmed"]
    /\ abandoned = {} /\ faults = 0 /\ toggles = 0

-----------------------------------------------------------------------------
\* The schedule.

\* The wall clock reaches next_run_at.
TimeArrives ==
    /\ exists /\ enabled /\ ~sdue /\ sdue' = TRUE
    /\ UNCHANGED <<enabled, exists, toggles, rows, sent, msgs, pub, rel, wvars,
                   abandoned, faults>>

\* PUT: pausing clears next_run_at, resuming computes a later one.
Toggle ==
    /\ exists /\ toggles < MaxToggles /\ toggles' = toggles + 1
    /\ enabled' = ~enabled /\ sdue' = FALSE
    /\ UNCHANGED <<exists, rows, sent, msgs, pub, rel, wvars, abandoned, faults>>

\* DELETE cascades to the runs.
Delete ==
    /\ exists /\ exists' = FALSE /\ sdue' = FALSE
    /\ status' = [r \in Runs |-> IF status[r] = "unborn" THEN "unborn" ELSE "deleted"]
    /\ UNCHANGED <<enabled, toggles, lease, allow, summary, reports, report, sent, msgs,
                   pub, rel, wvars, abandoned, faults>>

-----------------------------------------------------------------------------
\* Publishers.

Unborn == {r \in Runs : status[r] = "unborn"}   \* rows the instance has left
Idle(p) == pub[p] = {} /\ rel[p] = {}

Born(r, l, a) ==
    /\ status' = [status EXCEPT ![r] = "pending"]
    /\ lease' = [lease EXCEPT ![r] = l]
    /\ allow' = [allow EXCEPT ![r] = a]

\* Faulty variant: only new runs are leased, never the overdue ones.
TickNewOnly(p) ==
    /\ Idle(p) /\ sdue /\ sdue' = FALSE
    /\ \E r \in Unborn : Born(r, p, FALSE) /\ pub' = [pub EXCEPT ![p] = {r}]
    /\ UNCHANGED <<enabled, exists, toggles, summary, reports, report, sent, msgs, rel,
                   wvars, abandoned, faults>>

\* dispatch_due_report_schedules, one transaction: a due schedule gets a new
\* run and its next date, then every pending run whose lease has passed,
\* the new one included, is leased to this tick.
Tick(p) ==
    /\ Idle(p)
    /\ \E new \in SUBSET Unborn :
        /\ Cardinality(new) = IF sdue /\ Unborn # {} THEN 1 ELSE 0
        /\ LET page == new \cup {r \in Runs : status[r] = "pending" /\ lease[r] = Due}
           IN  /\ page # {}
               /\ status' = [r \in Runs |-> IF r \in new THEN "pending" ELSE status[r]]
               /\ allow' = [r \in Runs |-> IF r \in new THEN FALSE ELSE allow[r]]
               /\ lease' = [r \in Runs |-> IF r \in page THEN p ELSE lease[r]]
               /\ pub' = [pub EXCEPT ![p] = page]
        /\ sdue' = FALSE
    /\ UNCHANGED <<enabled, exists, toggles, summary, reports, report, sent, msgs, rel,
                   wvars, abandoned, faults>>

\* POST run-now commits a run that is already leased, then publishes it.
RunNow(p) ==
    /\ Idle(p) /\ exists
    /\ \E r \in Runs :
        /\ status[r] = "unborn"
        /\ Born(r, p, ~enabled)
        /\ pub' = [pub EXCEPT ![p] = {r}]
    /\ UNCHANGED <<sched, summary, reports, report, sent, msgs, rel, wvars, abandoned, faults>>

Publish(p) ==
    \E r \in pub[p] :
        /\ pub' = [pub EXCEPT ![p] = @ \ {r}]
        /\ msgs' = [msgs EXCEPT ![r] = @ + 1]
        /\ UNCHANGED <<sched, rows, sent, rel, wvars, abandoned, faults>>

\* The broker call fails; the message may have been accepted all the same.
PublishFails(p) ==
    \E r \in pub[p] :
        /\ faults < MaxFaults /\ faults' = faults + 1
        /\ pub' = [pub EXCEPT ![p] = @ \ {r}]
        /\ rel' = [rel EXCEPT ![p] = @ \cup {r}]
        /\ \/ UNCHANGED msgs
           \/ msgs' = [msgs EXCEPT ![r] = @ + 1]
        /\ UNCHANGED <<sched, rows, sent, wvars, abandoned>>

\* The lease is given back if it is still this publisher's and the run is
\* still PENDING.
Release(p) ==
    \E r \in rel[p] :
        /\ rel' = [rel EXCEPT ![p] = @ \ {r}]
        /\ lease' = IF status[r] = "pending" /\ lease[r] = p
                    THEN [lease EXCEPT ![r] = Due] ELSE lease
        /\ UNCHANGED <<sched, status, allow, summary, reports, report, sent, msgs, pub,
                       wvars, abandoned, faults>>

\* The publisher dies, or the database refuses the release.
PublisherDies(p) ==
    /\ ~Idle(p) /\ faults < MaxFaults /\ faults' = faults + 1
    /\ pub' = [pub EXCEPT ![p] = {}] /\ rel' = [rel EXCEPT ![p] = {}]
    /\ UNCHANGED <<sched, rows, sent, msgs, wvars, abandoned>>

\* REPORT_DISPATCH_LEASE passes.
LeaseExpires(r) ==
    /\ status[r] = "pending" /\ lease[r] # Due /\ msgs[r] < MaxMsgs
    /\ lease' = [lease EXCEPT ![r] = Due]
    /\ UNCHANGED <<sched, status, allow, summary, reports, report, sent, msgs, pub, rel,
                   wvars, abandoned, faults>>

-----------------------------------------------------------------------------
\* Workers: generate_scheduled_report_run.

To(w, l) == wpc' = [wpc EXCEPT ![w] = l]
Ack(w)   == To(w, "idle") /\ wrun' = [wrun EXCEPT ![w] = NoRun]
SetStatus(r, s) == status' = [status EXCEPT ![r] = s]
MayRun(r) == enabled \/ allow[r]

wframe == UNCHANGED <<sched, lease, allow, pub, rel>>
wquiet == wframe /\ UNCHANGED <<report, abandoned>>

Receive(w) ==
    /\ wpc[w] = "idle"
    /\ \E r \in Runs :
        /\ msgs[r] > 0
        /\ msgs' = [msgs EXCEPT ![r] = @ - 1]
        /\ wrun' = [wrun EXCEPT ![w] = r]
    /\ To(w, "claim")
    /\ UNCHANGED <<status, summary, reports, sent, wout, faults>> /\ wquiet

\* Faulty variant: a redelivered run that had begun is begun again.
ClaimResumes(w) ==
    /\ wpc[w] = "claim"
    /\ LET r == wrun[w] IN
        IF status[r] \in {"pending", "generating", "delivering"}
        THEN /\ SetStatus(r, "generating") /\ To(w, "generate")
             /\ reports' = [reports EXCEPT ![r] = @ + 1]
             /\ report' = [report EXCEPT ![r] = "generating"]
             /\ UNCHANGED wrun
        ELSE Ack(w) /\ UNCHANGED <<status, reports, report>>
    /\ UNCHANGED <<summary, sent, wout, msgs, abandoned, faults>> /\ wframe

\* Under SELECT ... FOR UPDATE: only a PENDING run is taken; a paused
\* schedule or a scan that is missing or not completed fails it, otherwise the
\* report row and GENERATING are committed together.
Claim(w) ==
    /\ wpc[w] = "claim"
    /\ LET r == wrun[w] IN
        \/ /\ status[r] # "pending"
           /\ Ack(w) /\ UNCHANGED <<status, reports, report>>
        \/ /\ status[r] = "pending"
           /\ SetStatus(r, "failed") /\ Ack(w) /\ UNCHANGED <<reports, report>>
        \/ /\ status[r] = "pending" /\ MayRun(r)
           /\ SetStatus(r, "generating") /\ To(w, "generate")
           /\ reports' = [reports EXCEPT ![r] = @ + 1]
           /\ report' = [report EXCEPT ![r] = "generating"]
           /\ UNCHANGED wrun
    /\ UNCHANGED <<summary, sent, wout, msgs, abandoned, faults>> /\ wframe

\* Generation raises, or reading the schedule again does (it has been deleted,
\* or the database is away); a schedule paused meanwhile fails the run, and the
\* same commit completes the report that was built.
Generate(w) ==
    /\ wpc[w] = "generate"
    /\ LET r == wrun[w] IN
        \/ To(w, "fail") /\ UNCHANGED <<status, report, wrun>>
        \/ /\ status[r] # "deleted" /\ ~MayRun(r)
           /\ SetStatus(r, "failed") /\ Ack(w)
           /\ report' = [report EXCEPT ![r] = "completed"]
        \/ /\ status[r] # "deleted" /\ MayRun(r)
           /\ To(w, "mark") /\ UNCHANGED <<status, report, wrun>>
    /\ UNCHANGED <<summary, reports, sent, wout, msgs, abandoned, faults>> /\ wframe

\* Faulty variant: the handler fails the report and forgets the run.
FailReportOnly(w) ==
    /\ wpc[w] = "fail" /\ Ack(w)
    /\ report' = [report EXCEPT ![wrun[w]] = IF status[wrun[w]] = "deleted" THEN @ ELSE "failed"]
    /\ UNCHANGED <<status, summary, reports, sent, wout, msgs, abandoned, faults>> /\ wframe

\* The handler fails report and run in one commit.  The commit of a deleted
\* run raises; so may any other, and nothing guards the handler: the message
\* is acknowledged and both rows stay GENERATING.
Fail(w) ==
    /\ wpc[w] = "fail" /\ Ack(w)
    /\ LET r == wrun[w] IN
        \/ /\ status[r] # "deleted" /\ SetStatus(r, "failed")
           /\ report' = [report EXCEPT ![r] = "failed"]
           /\ UNCHANGED abandoned
        \/ /\ UNCHANGED <<status, report>>
           /\ abandoned' = abandoned \cup {r}
    /\ UNCHANGED <<summary, reports, sent, wout, msgs, faults>> /\ wframe

\* Faulty variant: the intent to deliver is not committed first.
MarkNothing(w) ==
    /\ wpc[w] = "mark" /\ To(w, "deliver")
    /\ UNCHANGED <<status, summary, reports, sent, wrun, wout, msgs, faults>> /\ wquiet

\* DELIVERING, the outcome "unconfirmed" and the completed report are committed
\* before any I/O; the commit may raise, and does when the run was deleted.
MarkDelivering(w) ==
    /\ wpc[w] = "mark" /\ UNCHANGED wrun
    /\ LET r == wrun[w] IN
        \/ To(w, "fail") /\ UNCHANGED <<status, summary, report>>
        \/ /\ status[r] # "deleted"
           /\ SetStatus(r, "delivering")
           /\ summary' = [summary EXCEPT ![r] = "unconfirmed"]
           /\ report' = [report EXCEPT ![r] = "completed"]
           /\ To(w, "deliver")
    /\ UNCHANGED <<reports, sent, wout, msgs, abandoned, faults>> /\ wframe

\* deliver_scheduled_report: the message goes out, or nothing is sent
\* (store-only run, no valid channel, no connection).  A lost answer leaves the
\* outcome in doubt; an unexpected error ends the task.
Deliver(w) ==
    /\ wpc[w] = "deliver"
    /\ \/ /\ sent' = [sent EXCEPT ![wrun[w]] = @ + 1]
          /\ \E o \in Outcome : wout' = [wout EXCEPT ![w] = o]
          /\ To(w, "record") /\ UNCHANGED wrun
       \/ /\ UNCHANGED sent
          /\ \E o \in Outcome : wout' = [wout EXCEPT ![w] = o]
          /\ To(w, "record") /\ UNCHANGED wrun
       \/ Ack(w) /\ UNCHANGED <<sent, wout>>
    /\ UNCHANGED <<status, summary, reports, msgs, faults>> /\ wquiet

\* Faulty variant: a doubtful outcome becomes FAILED.
RecordDoubtAsFailure(w) ==
    /\ wpc[w] = "record" /\ Ack(w)
    /\ SetStatus(wrun[w], IF wout[w] = "success" THEN "completed" ELSE "failed")
    /\ summary' = [summary EXCEPT ![wrun[w]] = wout[w]]
    /\ UNCHANGED <<reports, sent, wout, msgs, faults>> /\ wquiet

\* The receipt is committed; an unconfirmed one leaves the run DELIVERING.
Record(w) ==
    /\ wpc[w] = "record" /\ Ack(w)
    /\ LET r == wrun[w] IN
        IF status[r] = "deleted"
        THEN UNCHANGED <<status, summary>>
        ELSE /\ summary' = [summary EXCEPT ![r] = wout[w]]
             /\ status' = CASE wout[w] = "success" -> [status EXCEPT ![r] = "completed"]
                            [] wout[w] = "failure" -> [status EXCEPT ![r] = "failed"]
                            [] wout[w] = "unconfirmed" -> status
    /\ UNCHANGED <<reports, sent, wout, msgs, faults>> /\ wquiet

Building == {"generate", "mark", "fail"}

\* The worker is lost and its message is delivered again, or only the child
\* that runs the task, and Celery acknowledges the message; as it does when the
\* database fails the first or the last transaction, which nothing guards.
WorkerCrash(w) ==
    /\ wpc[w] # "idle" /\ faults < MaxFaults /\ faults' = faults + 1
    /\ \/ msgs' = [msgs EXCEPT ![wrun[w]] = @ + 1]
       \/ UNCHANGED msgs
    /\ Ack(w)
    /\ abandoned' = IF wpc[w] \in Building THEN abandoned \cup {wrun[w]} ELSE abandoned
    /\ UNCHANGED <<status, summary, reports, report, sent, wout>> /\ wframe

\* The broker's visibility timeout passes while the worker is still busy.
Redeliver(w) ==
    /\ wpc[w] # "idle" /\ faults < MaxFaults /\ faults' = faults + 1
    /\ msgs' = [msgs EXCEPT ![wrun[w]] = @ + 1]
    /\ UNCHANGED <<status, summary, reports, sent, wvars>> /\ wquiet

WorkerStep(w) ==
    \/ Claim(w) \/ Generate(w) \/ Fail(w) \/ MarkDelivering(w) \/ Deliver(w) \/ Record(w)

PublisherStep(p) == Publish(p) \/ Release(p)

-----------------------------------------------------------------------------
Next ==
    \/ TimeArrives \/ Toggle \/ Delete
    \/ \E p \in Publishers : \/ Tick(p) \/ RunNow(p) \/ PublisherStep(p)
                             \/ PublishFails(p) \/ PublisherDies(p)
    \/ \E r \in Runs : LeaseExpires(r)
    \/ \E w \in Workers : \/ Receive(w) \/ WorkerStep(w)
                          \/ WorkerCrash(w) \/ Redeliver(w)

Spec == Init /\ [][Next]_vars

\* Beat keeps ticking, time keeps passing, publishers and workers keep going.
Fairness ==
    /\ \A p \in Publishers : WF_vars(Tick(p)) /\ WF_vars(PublisherStep(p))
    /\ \A r \in Runs : WF_vars(LeaseExpires(r))
    /\ \A w \in Workers : WF_vars(Receive(w)) /\ WF_vars(WorkerStep(w))

FairSpec == Spec /\ Fairness

-----------------------------------------------------------------------------
(* Properties *)

\* No run is delivered twice, and none before DELIVERING is committed: not
\* after a crash, a redelivered or doubly published message, or a lease that
\* expired under a slow publisher.
DeliveredOnce ==
    \A r \in Runs :
        /\ sent[r] <= 1
        /\ sent[r] = 1 => status[r] \in {"delivering", "completed", "failed", "deleted"}

\* A run produces at most one report row, whatever is published or redelivered.
OneReport == \A r \in Runs : reports[r] <= 1

\* What a run's receipt says agrees with its status: COMPLETED is only said
\* with a confirmed outcome, and an unconfirmed one leaves the run DELIVERING
\* for a person to inspect, never FAILED or repeated.
ReceiptMatches ==
    \A r \in Runs :
        /\ status[r] = "completed" => summary[r] = "success"
        /\ status[r] \in {"unborn", "pending", "generating"} => summary[r] = "none"
        /\ summary[r] = "unconfirmed" => status[r] \in {"delivering", "deleted"}

\* A pending run is not forgotten: with a publisher that dies after leasing
\* it, a failed or doubtful publication and a lost worker, it is still claimed,
\* failed or deleted in the end.
PendingIsClaimed ==
    \A r \in Runs : (status[r] = "pending") ~> (status[r] # "pending")

\* A run and its report leave GENERATING together, whatever raises, is paused,
\* deleted or delivered again meanwhile.  A run stays GENERATING only in the
\* hands of a worker, or when it was lost with its worker or its handler raised
\* (abandoned).  A report stays GENERATING only with its run (or when the run is
\* deleted under it), and a report that failed has a run that failed.
GeneratingIsHeld ==
    \A r \in Runs :
        /\ status[r] = "generating" =>
               \/ r \in abandoned
               \/ \E w \in Workers : wrun[w] = r /\ wpc[w] \in Building
        /\ report[r] = "generating" => status[r] \in {"generating", "deleted"}
        /\ report[r] = "failed" => status[r] \in {"failed", "deleted"}

-----------------------------------------------------------------------------
\* The promise, under the mapping from rows to phases.

PhaseFor(s, o) ==
    CASE s \in {"unborn", "pending", "generating"} -> "waiting"
      [] s = "delivering" -> "committed"
      [] s = "completed" -> "settled"
      [] s = "failed" -> IF o = "none" THEN "dropped" ELSE "settled"
      [] s = "deleted" -> IF o = "none" THEN "dropped" ELSE "forgotten"

PhaseOf(r) == PhaseFor(status[r], summary[r])

Once == INSTANCE OnceDelivery WITH phase <- [r \in Runs |-> PhaseOf(r)]

\* The scheduler implements at-most-once delivery.
ImplementsOnce == Once!OnceSpec
=============================================================================

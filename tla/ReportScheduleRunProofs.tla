---------------------- MODULE ReportScheduleRunProofs ----------------------
(***************************************************************************)
(* At-most-once delivery of scheduled reports, truthful receipts, and that *)
(* a run and its report leave GENERATING together, in a worker's hands     *)
(* until then, for any number of runs, publishers, workers and faults.     *)
(***************************************************************************)
EXTENDS ReportScheduleRun, TLAPS

\* The labels at which a worker owns the run it holds.
Owning == {"generate", "mark", "fail", "deliver", "record"}
Before == {"unborn", "pending", "generating"}

TypeInv ==
    /\ status \in [Runs -> RunStatus]
    /\ summary \in [Runs -> Outcome \cup {"none"}]
    /\ reports \in [Runs -> Nat] /\ sent \in [Runs -> Nat]
    /\ report \in [Runs -> {"none", "generating", "completed", "failed"}]
    /\ wpc \in [Workers -> {"idle", "claim", "generate", "mark", "fail", "deliver", "record"}]
    /\ wrun \in [Workers -> Runs \cup {NoRun}]
    /\ wout \in [Workers -> Outcome]

\* What a worker knows of the run it owns.
OwnerInv ==
    \A w \in Workers :
        /\ wpc[w] # "idle" => wrun[w] \in Runs
        /\ wpc[w] \in Building
             => status[wrun[w]] \in {"generating", "deleted"}
        /\ wpc[w] \in {"deliver", "record"}
             => /\ status[wrun[w]] \in {"delivering", "deleted"}
                /\ summary[wrun[w]] = "unconfirmed"
        /\ wpc[w] = "deliver" => sent[wrun[w]] = 0

\* No run is owned twice.
Exclusive ==
    \A v, w \in Workers :
        wpc[v] \in Owning /\ wpc[w] \in Owning /\ wrun[v] = wrun[w] => v = w

\* What the row says of what has happened to it.
RunInv ==
    \A r \in Runs :
        /\ sent[r] \in {0, 1} /\ reports[r] \in {0, 1}
        /\ status[r] \in {"unborn", "pending"} => reports[r] = 0
        /\ status[r] \in Before => sent[r] = 0
        /\ summary[r] = "none" => sent[r] = 0
        /\ status[r] \in Before => summary[r] = "none"
        /\ status[r] = "delivering" => summary[r] = "unconfirmed"
        /\ status[r] = "completed" => summary[r] = "success"
        /\ status[r] = "failed" => summary[r] \in {"none", "failure"}

IInv == TypeInv /\ OwnerInv /\ Exclusive /\ RunInv

LEMMA InitIInv == Init => IInv
  BY DEF Init, IInv, TypeInv, OwnerInv, Exclusive, RunInv, Owning, Before,
         RunStatus, Outcome, Building

-----------------------------------------------------------------------------
\* The schedule and the publishers.

LEMMA ScheduleStep ==
  ASSUME IInv, TimeArrives \/ Toggle \/ Delete
  PROVE  IInv'
<1>1. CASE TimeArrives \/ Toggle
  BY <1>1 DEF IInv, TypeInv, OwnerInv, Exclusive, RunInv, TimeArrives, Toggle,
              rows, wvars, sched
<1>2. CASE Delete
  <2>1. TypeInv'
    BY <1>2 DEF IInv, TypeInv, Delete, wvars, RunStatus
  <2>2. OwnerInv'
    BY <1>2 DEF IInv, TypeInv, OwnerInv, Building, Delete, wvars
  <2>3. Exclusive'
    BY <1>2 DEF IInv, Exclusive, Delete, wvars
  <2>4. RunInv'
    BY <1>2 DEF IInv, TypeInv, RunInv, Before, Delete
  <2>. QED BY <2>1, <2>2, <2>3, <2>4 DEF IInv
<1>. QED BY <1>1, <1>2

LEMMA PublisherSteps ==
  ASSUME IInv, NEW p \in Publishers,
         \/ Tick(p) \/ RunNow(p) \/ PublisherStep(p)
         \/ PublishFails(p) \/ PublisherDies(p)
  PROVE  IInv'
<1>1. CASE Tick(p)
  <2>1. PICK new \in SUBSET Unborn :
             status' = [r \in Runs |-> IF r \in new THEN "pending" ELSE status[r]]
    BY <1>1 DEF Tick
  <2>2. UNCHANGED <<summary, reports, report, sent, wpc, wrun, wout>>
    BY <1>1 DEF Tick, wvars
  <2>. QED BY <2>1, <2>2 DEF IInv, TypeInv, OwnerInv, Exclusive, RunInv, Unborn,
                             Building, Before, RunStatus
<1>2. CASE RunNow(p)
  <2>1. PICK r \in Runs : status[r] = "unborn" /\ status' = [status EXCEPT ![r] = "pending"]
    BY <1>2 DEF RunNow, Born
  <2>2. UNCHANGED <<summary, reports, report, sent, wpc, wrun, wout>>
    BY <1>2 DEF RunNow, wvars
  <2>. QED BY <2>1, <2>2 DEF IInv, TypeInv, OwnerInv, Exclusive, RunInv, Before,
                             RunStatus
<1>3. CASE PublisherStep(p) \/ PublishFails(p) \/ PublisherDies(p)
  <2>1. UNCHANGED <<status, summary, reports, report, sent, wpc, wrun, wout>>
    BY <1>3 DEF PublisherStep, Publish, Release, PublishFails, PublisherDies, rows,
                wvars
  <2>. QED BY <2>1 DEF IInv, TypeInv, OwnerInv, Exclusive, RunInv
<1>. QED BY <1>1, <1>2, <1>3

LEMMA LeaseStep == ASSUME IInv, NEW r \in Runs, LeaseExpires(r) PROVE IInv'
  BY DEF IInv, TypeInv, OwnerInv, Exclusive, RunInv, LeaseExpires, wvars

LEMMA StutterStep == ASSUME IInv, UNCHANGED vars PROVE IInv'
  BY DEF IInv, TypeInv, OwnerInv, Exclusive, RunInv, vars, rows, wvars

-----------------------------------------------------------------------------
\* The workers.

LEMMA ReceiveStep ==
  ASSUME IInv, NEW w \in Workers, Receive(w)
  PROVE  IInv'
<1>. USE DEF IInv, Receive, wquiet, wframe, To
<1>1. TypeInv'
  BY DEF TypeInv
<1>2. OwnerInv'
  BY DEF TypeInv, OwnerInv, Building
<1>3. Exclusive' /\ RunInv'
  BY DEF TypeInv, Exclusive, RunInv, Owning
<1>. QED BY <1>1, <1>2, <1>3

LEMMA FaultStep ==
  ASSUME IInv, NEW w \in Workers, WorkerCrash(w) \/ Redeliver(w)
  PROVE  IInv'
<1>. USE DEF IInv, WorkerCrash, Redeliver, wquiet, wframe, To, Ack, wvars
<1>1. TypeInv'
  BY DEF TypeInv
<1>2. OwnerInv'
  BY DEF TypeInv, OwnerInv, Building
<1>3. Exclusive' /\ RunInv'
  BY DEF TypeInv, Exclusive, RunInv, Owning
<1>. QED BY <1>1, <1>2, <1>3

LEMMA ClaimStep ==
  ASSUME IInv, NEW w \in Workers, Claim(w)
  PROVE  IInv'
<1>. USE DEF IInv, Claim, wquiet, wframe, To, Ack, SetStatus
<1>1. TypeInv'
  BY DEF TypeInv, OwnerInv, Building, RunStatus, Outcome
<1>2. OwnerInv'
  BY DEF TypeInv, OwnerInv, RunInv, Exclusive, Owning, Building, Before
<1>3. Exclusive'
  BY DEF TypeInv, Exclusive, OwnerInv, Owning, Building
<1>4. RunInv'
  BY DEF TypeInv, RunInv, OwnerInv, Building, Before, Outcome
<1>. QED BY <1>1, <1>2, <1>3, <1>4

LEMMA GenerateStep ==
  ASSUME IInv, NEW w \in Workers, Generate(w)
  PROVE  IInv'
<1>. USE DEF IInv, Generate, wquiet, wframe, To, Ack, SetStatus
<1>1. TypeInv'
  BY DEF TypeInv, OwnerInv, Building, RunStatus, Outcome
<1>2. OwnerInv'
  BY DEF TypeInv, OwnerInv, RunInv, Exclusive, Owning, Building, Before
<1>3. Exclusive'
  BY DEF TypeInv, Exclusive, OwnerInv, Owning, Building
<1>4. RunInv'
  BY DEF TypeInv, RunInv, OwnerInv, Building, Before, Outcome
<1>. QED BY <1>1, <1>2, <1>3, <1>4

LEMMA FailStep ==
  ASSUME IInv, NEW w \in Workers, Fail(w)
  PROVE  IInv'
<1>. USE DEF IInv, Fail, wquiet, wframe, To, Ack, SetStatus
<1>1. TypeInv'
  BY DEF TypeInv, OwnerInv, Building, RunStatus, Outcome
<1>2. OwnerInv'
  BY DEF TypeInv, OwnerInv, RunInv, Exclusive, Owning, Building, Before
<1>3. Exclusive'
  BY DEF TypeInv, Exclusive, OwnerInv, Owning, Building
<1>4. RunInv'
  BY DEF TypeInv, RunInv, OwnerInv, Building, Before, Outcome
<1>. QED BY <1>1, <1>2, <1>3, <1>4

LEMMA MarkDeliveringStep ==
  ASSUME IInv, NEW w \in Workers, MarkDelivering(w)
  PROVE  IInv'
<1>. USE DEF IInv, MarkDelivering, wquiet, wframe, To, Ack, SetStatus
<1>1. TypeInv'
  BY DEF TypeInv, OwnerInv, Building, RunStatus, Outcome
<1>2. OwnerInv'
  <2>1. CASE wpc' = [wpc EXCEPT ![w] = "fail"] /\ UNCHANGED <<status, summary>>
    BY <2>1 DEF TypeInv, OwnerInv, Building
  <2>2. CASE ~(wpc' = [wpc EXCEPT ![w] = "fail"] /\ UNCHANGED <<status, summary>>)
    <3>1. /\ status[wrun[w]] = "generating" /\ wrun[w] \in Runs
          /\ status' = [status EXCEPT ![wrun[w]] = "delivering"]
          /\ summary' = [summary EXCEPT ![wrun[w]] = "unconfirmed"]
          /\ wpc' = [wpc EXCEPT ![w] = "deliver"]
          /\ UNCHANGED <<wrun, sent>>
      BY <2>2 DEF TypeInv, OwnerInv, Building
    <3>2. sent[wrun[w]] = 0
      BY <3>1 DEF RunInv, Before
    <3>3. ASSUME NEW v \in Workers, v # w, wpc[v] \in Owning PROVE wrun[v] # wrun[w]
      BY <3>3 DEF Exclusive, Owning
    <3>. QED BY <3>1, <3>2, <3>3 DEF TypeInv, OwnerInv, Owning, Building
  <2>. QED BY <2>1, <2>2
<1>3. Exclusive'
  BY DEF TypeInv, Exclusive, OwnerInv, Owning, Building
<1>4. RunInv'
  BY DEF TypeInv, RunInv, OwnerInv, Building, Before, Outcome
<1>. QED BY <1>1, <1>2, <1>3, <1>4

LEMMA DeliverStep ==
  ASSUME IInv, NEW w \in Workers, Deliver(w)
  PROVE  IInv'
<1>. USE DEF IInv, Deliver, wquiet, wframe, To, Ack, SetStatus
<1>1. TypeInv'
  BY DEF TypeInv, OwnerInv, Building, RunStatus, Outcome
<1>2. OwnerInv'
  BY DEF TypeInv, OwnerInv, RunInv, Exclusive, Owning, Building, Before
<1>3. Exclusive'
  BY DEF TypeInv, Exclusive, OwnerInv, Owning, Building
<1>4. RunInv'
  BY DEF TypeInv, RunInv, OwnerInv, Building, Before, Outcome
<1>. QED BY <1>1, <1>2, <1>3, <1>4

LEMMA RecordStep ==
  ASSUME IInv, NEW w \in Workers, Record(w)
  PROVE  IInv'
<1>. USE DEF IInv, Record, wquiet, wframe, To, Ack, SetStatus
<1>1. TypeInv'
  BY DEF TypeInv, OwnerInv, Building, RunStatus, Outcome
<1>2. OwnerInv'
  <2>1. /\ wpc' = [wpc EXCEPT ![w] = "idle"]
        /\ wrun' = [wrun EXCEPT ![w] = NoRun]
        /\ wrun[w] \in Runs
        /\ UNCHANGED sent
    BY DEF TypeInv, OwnerInv
  <2>2. \A r \in Runs : r # wrun[w] => status'[r] = status[r] /\ summary'[r] = summary[r]
    <3>1. \/ UNCHANGED status
          \/ \E s \in {"completed", "failed"} : status' = [status EXCEPT ![wrun[w]] = s]
      BY DEF TypeInv, Outcome
    <3>2. UNCHANGED summary \/ summary' = [summary EXCEPT ![wrun[w]] = wout[w]]
      OBVIOUS
    <3>. QED BY <3>1, <3>2 DEF TypeInv
  <2>3. ASSUME NEW v \in Workers, v # w, wpc[v] \in Owning PROVE wrun[v] # wrun[w]
    BY <2>3 DEF Exclusive, Owning
  <2>4. ASSUME NEW v \in Workers, v # w, wpc[v] \in Owning
        PROVE  /\ wpc'[v] = wpc[v] /\ wrun'[v] = wrun[v] /\ wrun[v] \in Runs
               /\ status'[wrun[v]] = status[wrun[v]]
               /\ summary'[wrun[v]] = summary[wrun[v]]
    <3>1. wpc'[v] = wpc[v] /\ wrun'[v] = wrun[v]
      BY <2>1, <2>4 DEF TypeInv
    <3>2. wrun[v] \in Runs
      BY <2>4 DEF OwnerInv, Owning
    <3>. QED BY <3>1, <3>2, <2>2, <2>3, <2>4
  <2>. QED BY <2>1, <2>4 DEF TypeInv, OwnerInv, Owning, Building
<1>3. Exclusive'
  BY DEF TypeInv, Exclusive, OwnerInv, Owning, Building
<1>4. RunInv'
  BY DEF TypeInv, RunInv, OwnerInv, Building, Before, Outcome
<1>. QED BY <1>1, <1>2, <1>3, <1>4

-----------------------------------------------------------------------------
(* The invariant, and what follows from it. *)

LEMMA NextIInv == IInv /\ [Next]_vars => IInv'
<1>. SUFFICES ASSUME IInv, [Next]_vars PROVE IInv'
  OBVIOUS
<1>1. CASE UNCHANGED vars
  BY <1>1, StutterStep
<1>2. ASSUME NEW w \in Workers, WorkerStep(w) PROVE IInv'
  BY <1>2, ClaimStep, GenerateStep, FailStep, MarkDeliveringStep, DeliverStep, RecordStep
     DEF WorkerStep
<1>. QED BY <1>1, <1>2, ScheduleStep, PublisherSteps, LeaseStep, ReceiveStep,
            FaultStep DEF Next

LEMMA Invariant == Spec => []IInv
  BY InitIInv, NextIInv, PTL DEF Spec

\* Crashes, redeliveries, doubtful publications and expired leases never make
\* a run's message go out twice, or before DELIVERING is committed.
THEOREM AtMostOnce == Spec => []DeliveredOnce
<1>1. IInv => DeliveredOnce
  BY DEF IInv, TypeInv, RunInv, DeliveredOnce, Before, RunStatus
<1>. QED BY <1>1, Invariant, PTL

\* ... nor a second report row.
THEOREM AtMostOneReport == Spec => []OneReport
<1>1. IInv => OneReport
  BY DEF IInv, RunInv, OneReport
<1>. QED BY <1>1, Invariant, PTL

\* The recorded receipt always agrees with the status of the run.
THEOREM ReceiptsMatch == Spec => []ReceiptMatches
<1>1. IInv => ReceiptMatches
  BY DEF IInv, TypeInv, RunInv, ReceiptMatches, Before, RunStatus
<1>. QED BY <1>1, Invariant, PTL

-----------------------------------------------------------------------------
(* The variables the invariant leaves alone: types only. *)

Flags  == enabled \in BOOLEAN /\ sdue \in BOOLEAN /\ exists \in BOOLEAN
Leases == lease \in [Runs -> Publishers \cup {Due}] /\ allow \in [Runs -> BOOLEAN]
Mail   ==
    /\ msgs \in [Runs -> Nat]
    /\ pub \in [Publishers -> SUBSET Runs] /\ rel \in [Publishers -> SUBSET Runs]
Counts == faults \in Nat /\ toggles \in Nat /\ abandoned \subseteq Runs

LEMMA FlagsStep == ASSUME Flags, [Next]_vars PROVE Flags'
<1>. USE DEF Flags
<1>1. ASSUME NEW p \in Publishers,
             \/ Tick(p) \/ RunNow(p) \/ PublisherStep(p)
             \/ PublishFails(p) \/ PublisherDies(p)
      PROVE  Flags'
  BY <1>1, Zenon DEF Tick, RunNow, PublisherStep, Publish, Release, PublishFails,
                     PublisherDies, sched
<1>2. ASSUME NEW w \in Workers,
             Receive(w) \/ WorkerStep(w) \/ WorkerCrash(w) \/ Redeliver(w)
      PROVE  Flags'
  BY <1>2, Zenon DEF Receive, WorkerStep, Claim, Generate, Fail, MarkDelivering, Deliver,
                     Record, WorkerCrash, Redeliver, wquiet, wframe, sched
<1>3. CASE TimeArrives \/ Toggle \/ Delete \/ UNCHANGED vars
  BY <1>3, Zenon DEF TimeArrives, Toggle, Delete, vars, sched
<1>4. ASSUME NEW r \in Runs, LeaseExpires(r) PROVE Flags'
  BY <1>4, Zenon DEF LeaseExpires, sched
<1>. QED BY <1>1, <1>2, <1>3, <1>4 DEF Next

LEMMA LeasesStep == ASSUME Flags, Leases, [Next]_vars PROVE Leases'
<1>. USE DEF Leases
<1>1. ASSUME NEW p \in Publishers, Tick(p) PROVE Leases'
  BY <1>1 DEF Tick
<1>2. ASSUME NEW p \in Publishers, RunNow(p) PROVE Leases'
  <2>1. PICK r \in Runs : Born(r, p, ~enabled)
    BY <1>2 DEF RunNow
  <2>2. lease' \in [Runs -> Publishers \cup {Due}]
    BY <2>1 DEF Born
  <2>3. allow' \in [Runs -> BOOLEAN]
    <3>1. PICK a \in BOOLEAN : allow' = [allow EXCEPT ![r] = a]
      BY <2>1, Zenon DEF Born
    <3>. QED BY <3>1
  <2>. QED BY <2>2, <2>3
<1>3. ASSUME NEW p \in Publishers, PublisherStep(p) \/ PublishFails(p) \/ PublisherDies(p)
      PROVE  Leases'
  BY <1>3 DEF PublisherStep, Publish, Release, PublishFails, PublisherDies, rows
<1>4. ASSUME NEW w \in Workers,
             Receive(w) \/ WorkerStep(w) \/ WorkerCrash(w) \/ Redeliver(w)
      PROVE  Leases'
  BY <1>4 DEF Receive, WorkerStep, Claim, Generate, Fail, MarkDelivering, Deliver,
              Record, WorkerCrash, Redeliver, wquiet, wframe
<1>5. CASE TimeArrives \/ Toggle \/ Delete \/ UNCHANGED vars
  BY <1>5 DEF TimeArrives, Toggle, Delete, vars, rows
<1>6. ASSUME NEW r \in Runs, LeaseExpires(r) PROVE Leases'
  BY <1>6 DEF LeaseExpires
<1>. QED BY <1>1, <1>2, <1>3, <1>4, <1>5, <1>6 DEF Next

LEMMA MailStep == ASSUME IInv, Mail, [Next]_vars PROVE Mail'
<1>. USE DEF Mail
<1>1. ASSUME NEW p \in Publishers, Tick(p) PROVE Mail'
  BY <1>1 DEF Tick, Unborn
<1>2. ASSUME NEW p \in Publishers,
             RunNow(p) \/ PublisherStep(p) \/ PublishFails(p) \/ PublisherDies(p)
      PROVE  Mail'
  BY <1>2 DEF RunNow, PublisherStep, Publish, Release, PublishFails, PublisherDies
<1>3. ASSUME NEW w \in Workers, Receive(w) \/ WorkerStep(w) PROVE Mail'
  BY <1>3 DEF Receive, WorkerStep, Claim, Generate, Fail, MarkDelivering, Deliver,
              Record, wquiet, wframe
<1>4. ASSUME NEW w \in Workers, WorkerCrash(w) \/ Redeliver(w) PROVE Mail'
  <2>1. wrun[w] \in Runs
    BY <1>4 DEF WorkerCrash, Redeliver, IInv, OwnerInv
  <2>. QED BY <1>4, <2>1 DEF WorkerCrash, Redeliver, wquiet, wframe
<1>5. CASE TimeArrives \/ Toggle \/ Delete \/ UNCHANGED vars
  BY <1>5 DEF TimeArrives, Toggle, Delete, vars
<1>6. ASSUME NEW r \in Runs, LeaseExpires(r) PROVE Mail'
  BY <1>6 DEF LeaseExpires
<1>. QED BY <1>1, <1>2, <1>3, <1>4, <1>5, <1>6 DEF Next

LEMMA CountsStep == ASSUME IInv, Counts, [Next]_vars PROVE Counts'
<1>. USE DEF Counts
<1>0. ASSUME NEW p \in Publishers, Tick(p) PROVE Counts'
  BY <1>0, Zenon DEF Tick
<1>1. ASSUME NEW p \in Publishers,
             RunNow(p) \/ PublisherStep(p) \/ PublishFails(p) \/ PublisherDies(p)
      PROVE  Counts'
  BY <1>1 DEF RunNow, PublisherStep, Publish, Release, PublishFails,
              PublisherDies, sched
<1>2. ASSUME NEW w \in Workers, Receive(w) \/ WorkerStep(w) PROVE Counts'
  <2>1. WorkerStep(w) => wrun[w] \in Runs
    BY DEF WorkerStep, Claim, Generate, Fail, MarkDelivering, Deliver, Record, IInv, OwnerInv
  <2>. QED BY <1>2, <2>1 DEF Receive, WorkerStep, Claim, Generate, Fail, MarkDelivering,
                             Deliver, Record, wquiet, wframe, sched
<1>3. ASSUME NEW w \in Workers, WorkerCrash(w) \/ Redeliver(w) PROVE Counts'
  <2>1. wrun[w] \in Runs
    BY <1>3 DEF WorkerCrash, Redeliver, IInv, OwnerInv
  <2>. QED BY <1>3, <2>1 DEF WorkerCrash, Redeliver, wquiet, wframe, sched
<1>4. CASE TimeArrives \/ Toggle \/ Delete \/ UNCHANGED vars
  BY <1>4 DEF TimeArrives, Toggle, Delete, vars, sched
<1>5. ASSUME NEW r \in Runs, LeaseExpires(r) PROVE Counts'
  BY <1>5 DEF LeaseExpires, sched
<1>. QED BY <1>0, <1>1, <1>2, <1>3, <1>4, <1>5 DEF Next

\* Leases, messages and rows stay within their domains, and a worker always
\* holds a run it can name when it dies or its message comes back.
THEOREM TypeCorrect == Spec => []TypeOK
<1>. DEFINE T == IInv /\ Flags /\ Leases /\ Mail /\ Counts
<1>1. Init => Flags
  BY Zenon DEF Init, Flags
<1>2. Init => Leases /\ Mail /\ Counts
  BY DEF Init, Leases, Mail, Counts
<1>3. T /\ [Next]_vars => T'
  BY NextIInv, FlagsStep, LeasesStep, MailStep, CountsStep
<1>4. T => TypeOK
  BY Zenon DEF IInv, TypeInv, Flags, Leases, Mail, Counts, TypeOK
<1>. QED BY <1>1, <1>2, <1>3, <1>4, InitIInv, PTL DEF Spec

-----------------------------------------------------------------------------
(* Who holds a run in GENERATING, and what its report says. *)

Holds(w, r) == wrun[w] = r /\ wpc[w] \in Building
HeldInv ==
    \A r \in Runs :
        status[r] = "generating" => r \in abandoned \/ \E w \in Workers : Holds(w, r)
RowsInv ==
    \A r \in Runs :
        /\ report[r] = "generating" => status[r] \in {"generating", "deleted"}
        /\ report[r] = "failed" => status[r] \in {"failed", "deleted"}

\* Everything but the workers' own steps.
Elsewhere ==
    \/ TimeArrives \/ Toggle \/ Delete \/ UNCHANGED vars
    \/ \E p \in Publishers : \/ Tick(p) \/ RunNow(p) \/ PublisherStep(p)
                             \/ PublishFails(p) \/ PublisherDies(p)
    \/ \E r \in Runs : LeaseExpires(r)
    \/ \E w \in Workers : Redeliver(w)

\* It moves no worker and no report; a run is born, stays or is deleted.
LEMMA OutsideRows ==
  ASSUME IInv, Elsewhere
  PROVE  /\ UNCHANGED <<wpc, wrun, abandoned, report>>
         /\ \A r \in Runs : \/ status'[r] = status[r]
                            \/ status[r] = "unborn" /\ status'[r] = "pending"
                            \/ status'[r] = "deleted"
<1>. DEFINE Goal == /\ UNCHANGED <<wpc, wrun, abandoned, report>>
                    /\ \A r \in Runs : \/ status'[r] = status[r]
                                       \/ status[r] = "unborn" /\ status'[r] = "pending"
                                       \/ status'[r] = "deleted"
<1>1. CASE TimeArrives \/ Toggle \/ UNCHANGED vars
  BY <1>1 DEF TimeArrives, Toggle, vars, rows, wvars
<1>2. CASE Delete
  BY <1>2 DEF Delete, wvars
<1>3. ASSUME NEW p \in Publishers, Tick(p) PROVE Goal
  <2>1. PICK new \in SUBSET Unborn :
             status' = [r \in Runs |-> IF r \in new THEN "pending" ELSE status[r]]
    BY <1>3 DEF Tick
  <2>2. UNCHANGED <<wpc, wrun, abandoned, report>>
    BY <1>3 DEF Tick, wvars
  <2>. QED BY <2>1, <2>2 DEF Unborn
<1>4. ASSUME NEW p \in Publishers, RunNow(p) PROVE Goal
  BY <1>4 DEF RunNow, Born, wvars, IInv, TypeInv
<1>5. ASSUME NEW p \in Publishers, PublisherStep(p) \/ PublishFails(p) \/ PublisherDies(p)
      PROVE  Goal
  BY <1>5 DEF PublisherStep, Publish, Release, PublishFails, PublisherDies, rows, wvars
<1>6. ASSUME NEW q \in Runs, LeaseExpires(q) PROVE Goal
  BY <1>6 DEF LeaseExpires, wvars
<1>7. ASSUME NEW w \in Workers, Redeliver(w) PROVE Goal
  BY <1>7 DEF Redeliver, wquiet, wvars
<1>. QED BY <1>1, <1>2, <1>3, <1>4, <1>5, <1>6, <1>7 DEF Elsewhere

\* Nobody else's run moves with a worker's step.
LEMMA OnlyMine ==
  ASSUME IInv, NEW w \in Workers,
         Receive(w) \/ WorkerStep(w) \/ WorkerCrash(w)
  PROVE  /\ abandoned \subseteq abandoned'
         /\ \A v \in Workers \ {w} : wpc'[v] = wpc[v] /\ wrun'[v] = wrun[v]
<1>1. abandoned \subseteq abandoned'
  BY DEF Receive, WorkerStep, Claim, Generate, Fail, MarkDelivering, Deliver, Record,
         WorkerCrash, wquiet
<1>2. \A v \in Workers \ {w} : wpc'[v] = wpc[v] /\ wrun'[v] = wrun[v]
  BY DEF Receive, WorkerStep, Claim, Generate, Fail, MarkDelivering, Deliver, Record,
         WorkerCrash, Ack, To, IInv, TypeInv
<1>. QED BY <1>1, <1>2

\* A worker lets go of a run in GENERATING only by giving it up.
LEMMA HeldByWorker ==
  ASSUME IInv, NEW w \in Workers, Receive(w) \/ WorkerStep(w) \/ WorkerCrash(w),
         NEW r \in Runs, status'[r] = "generating",
         status[r] = "generating" => r \in abandoned \/ \E v \in Workers : Holds(v, r)
  PROVE  r \in abandoned' \/ \E v \in Workers : Holds(v, r)'
<1>1. CASE status[r] = "generating" /\ r \in abandoned
  BY <1>1, OnlyMine
<1>2. CASE status[r] = "generating" /\ r \notin abandoned
  <2>1. PICK v \in Workers : Holds(v, r)
    BY <1>2
  <2>2. CASE v # w
    BY <2>1, <2>2, OnlyMine DEF Holds
  <2>3. CASE v = w
    <3>1. CASE Generate(w) \/ MarkDelivering(w)
      <4>1. /\ wpc' = [wpc EXCEPT ![w] = "mark"] \/ wpc' = [wpc EXCEPT ![w] = "fail"]
            /\ UNCHANGED wrun
        BY <1>2, <2>1, <2>3, <3>1 DEF Holds, Generate, MarkDelivering, SetStatus, To,
                                      IInv, TypeInv
      <4>. QED BY <2>1, <2>3, <4>1 DEF Holds, IInv, TypeInv, Building
    <3>2. CASE Fail(w)
      BY <1>2, <2>1, <2>3, <3>2 DEF Holds, Fail, SetStatus, IInv, TypeInv
    <3>3. CASE WorkerCrash(w)
      BY <2>1, <2>3, <3>3 DEF Holds, WorkerCrash
    <3>. QED BY <2>1, <2>3, <3>1, <3>2, <3>3
             DEF Holds, Building, Receive, WorkerStep, Claim, Deliver, Record
  <2>. QED BY <2>2, <2>3
<1>3. CASE status[r] # "generating"
  <2>1. Claim(w)
    BY <1>3 DEF Receive, WorkerStep, Generate, Fail, MarkDelivering, Deliver, Record,
                WorkerCrash, SetStatus, IInv, TypeInv, OwnerInv, Outcome
  <2>2. /\ wrun[w] = r /\ UNCHANGED wrun
        /\ wpc' = [wpc EXCEPT ![w] = "generate"]
    BY <1>3, <2>1 DEF Claim, SetStatus, To, IInv, TypeInv
  <2>. QED BY <2>2 DEF Holds, IInv, TypeInv, Building
<1>. QED BY <1>1, <1>2, <1>3

LEMMA HeldStep ==
  ASSUME IInv, HeldInv, RowsInv, [Next]_vars
  PROVE  HeldInv'
<1>. SUFFICES ASSUME NEW r \in Runs, status'[r] = "generating"
              PROVE  r \in abandoned' \/ \E v \in Workers : Holds(v, r)'
  BY DEF HeldInv
<1>1. status[r] = "generating" => r \in abandoned \/ \E v \in Workers : Holds(v, r)
  BY DEF HeldInv
<1>2. CASE Elsewhere
  <2>1. status[r] = "generating" /\ UNCHANGED <<wpc, wrun, abandoned>>
    BY <1>2, OutsideRows
  <2>. QED BY <1>1, <2>1 DEF Holds
<1>3. ASSUME NEW w \in Workers, Receive(w) \/ WorkerStep(w) \/ WorkerCrash(w)
      PROVE  r \in abandoned' \/ \E v \in Workers : Holds(v, r)'
  BY <1>1, <1>3, HeldByWorker
<1>. QED BY <1>2, <1>3 DEF Next, Elsewhere

\* The rows a worker commits leave GENERATING together.
LEMMA RowsStep ==
  ASSUME IInv, RowsInv, [Next]_vars
  PROVE  RowsInv'
<1>. USE DEF RowsInv
<1>1. CASE Elsewhere
  BY <1>1, OutsideRows
<1>2. ASSUME NEW w \in Workers, Receive(w) \/ Deliver(w) \/ WorkerCrash(w) PROVE RowsInv'
  BY <1>2 DEF Receive, Deliver, WorkerCrash, wquiet
<1>3. ASSUME NEW w \in Workers, Record(w) PROVE RowsInv'
  <2>1. wrun[w] \in Runs /\ status[wrun[w]] \in {"delivering", "deleted"}
    BY <1>3 DEF Record, IInv, OwnerInv
  <2>2. UNCHANGED report
    BY <1>3 DEF Record, wquiet
  <2>3. \/ UNCHANGED status
        \/ /\ status[wrun[w]] = "delivering"
           /\ \E s \in RunStatus : status' = [status EXCEPT ![wrun[w]] = s]
    BY <1>3, <2>1 DEF Record, IInv, TypeInv, RunStatus, Outcome
  <2>. QED BY <2>1, <2>2, <2>3 DEF IInv, TypeInv
<1>4. ASSUME NEW w \in Workers, Claim(w) PROVE RowsInv'
  <2>1. wrun[w] \in Runs
    BY <1>4 DEF Claim, IInv, OwnerInv
  <2>. QED BY <1>4, <2>1 DEF Claim, SetStatus, IInv, TypeInv
<1>5. ASSUME NEW w \in Workers, Generate(w) \/ Fail(w) \/ MarkDelivering(w)
      PROVE  RowsInv'
  <2>1. wrun[w] \in Runs /\ status[wrun[w]] \in {"generating", "deleted"}
    BY <1>5 DEF Generate, Fail, MarkDelivering, Building, IInv, OwnerInv
  <2>. QED BY <1>5, <2>1 DEF Generate, Fail, MarkDelivering, SetStatus, IInv, TypeInv
<1>. QED BY <1>1, <1>2, <1>3, <1>4, <1>5 DEF Next, Elsewhere, WorkerStep

\* A run stays GENERATING only in a worker's hands or abandoned by one that
\* died or whose handler raised, and its report leaves GENERATING in the same
\* commit, for any number of workers, faults, pauses and redeliveries.
THEOREM GeneratingHeld == Spec => []GeneratingIsHeld
<1>. DEFINE H == IInv /\ HeldInv /\ RowsInv
<1>1. Init => HeldInv /\ RowsInv
  BY DEF Init, HeldInv, RowsInv
<1>2. H /\ [Next]_vars => H'
  BY NextIInv, HeldStep, RowsStep
<1>3. H => GeneratingIsHeld
  BY DEF HeldInv, RowsInv, Holds, GeneratingIsHeld
<1>. QED BY <1>1, <1>2, <1>3, InitIInv, PTL DEF Spec

-----------------------------------------------------------------------------
(* Refinement: ReportScheduleRun implements OnceDelivery. *)

ph == [r \in Runs |-> PhaseOf(r)]

\* The phase of every status and receipt.
LEMMA Phases ==
  /\ \A o : /\ PhaseFor("unborn", o) = "waiting" /\ PhaseFor("pending", o) = "waiting"
            /\ PhaseFor("generating", o) = "waiting"
            /\ PhaseFor("delivering", o) = "committed"
            /\ PhaseFor("completed", o) = "settled"
  /\ PhaseFor("failed", "none") = "dropped" /\ PhaseFor("deleted", "none") = "dropped"
  /\ \A o : o # "none" => /\ PhaseFor("failed", o) = "settled"
                          /\ PhaseFor("deleted", o) = "forgotten"
  BY DEF PhaseFor

LEMMA InitOnce == Init => Once!OnceInit
  BY Phases DEF Init, Once!OnceInit, PhaseOf

LEMMA SamePhase ==
  ASSUME UNCHANGED <<status, summary>>
  PROVE  ph' = ph
  BY DEF ph, PhaseOf

\* A run that fails before DELIVERING is committed is given up.
LEMMA FailOnce ==
  ASSUME IInv, NEW r \in Runs, PhaseOf(r) = "waiting", summary[r] = "none",
         status' = [status EXCEPT ![r] = "failed"], UNCHANGED <<summary, sent>>
  PROVE  Once!OnceNext
<1>1. PhaseOf(r)' = "dropped"
  BY Phases DEF PhaseOf, IInv, TypeInv
<1>2. \A q \in Runs \ {r} : PhaseOf(q)' = PhaseOf(q)
  BY DEF PhaseOf, IInv, TypeInv
<1>3. Once!GiveUp({r})
  BY <1>1, <1>2 DEF Once!GiveUp
<1>. QED BY <1>3 DEF Once!OnceNext

\* Everything but the workers' progress and the deletion leaves the phases.
LEMMA QuietOnce ==
  ASSUME IInv,
         \/ TimeArrives \/ Toggle \/ UNCHANGED vars
         \/ \E p \in Publishers : \/ Tick(p) \/ RunNow(p) \/ PublisherStep(p)
                                  \/ PublishFails(p) \/ PublisherDies(p)
         \/ \E r \in Runs : LeaseExpires(r)
         \/ \E w \in Workers : Receive(w) \/ WorkerCrash(w) \/ Redeliver(w)
  PROVE  UNCHANGED <<ph, sent>>
<1>1. CASE UNCHANGED <<status, summary, sent>>
  BY <1>1, SamePhase
<1>2. ASSUME NEW p \in Publishers, Tick(p) \/ RunNow(p)
      PROVE  UNCHANGED <<ph, sent>>
  <2>1. UNCHANGED <<summary, sent>>
    BY <1>2 DEF Tick, RunNow
  <2>2. \A r \in Runs : \/ status'[r] = status[r]
                        \/ status[r] = "unborn" /\ status'[r] = "pending"
    <3>1. CASE Tick(p)
      BY <3>1 DEF Tick, Unborn
    <3>2. CASE RunNow(p)
      BY <3>2 DEF RunNow, Born, IInv, TypeInv
    <3>. QED BY <1>2, <3>1, <3>2
  <2>3. \A r \in Runs : PhaseOf(r)' = PhaseOf(r)
    BY <2>1, <2>2, Phases DEF PhaseOf
  <2>. QED BY <2>1, <2>3 DEF ph
<1>3. CASE \/ TimeArrives \/ Toggle \/ UNCHANGED vars
           \/ \E r \in Runs : LeaseExpires(r)
  BY <1>1, <1>3 DEF TimeArrives, Toggle, LeaseExpires, vars, rows
<1>4. ASSUME NEW p \in Publishers, PublisherStep(p) \/ PublishFails(p) \/ PublisherDies(p)
      PROVE  UNCHANGED <<ph, sent>>
  BY <1>1, <1>4 DEF PublisherStep, Publish, Release, PublishFails, PublisherDies, rows
<1>5. ASSUME NEW w \in Workers, Receive(w) \/ WorkerCrash(w) \/ Redeliver(w)
      PROVE  UNCHANGED <<ph, sent>>
  BY <1>1, <1>5 DEF Receive, WorkerCrash, Redeliver
<1>. QED BY <1>2, <1>3, <1>4, <1>5

\* Deleting the schedule gives every born run up.
LEMMA DeleteOnce == ASSUME IInv, Delete PROVE Once!OnceNext
<1>. DEFINE S == {r \in Runs : status[r] # "unborn"}
<1>1. UNCHANGED <<summary, sent>>
  BY DEF Delete
<1>2. ASSUME NEW r \in S
      PROVE  PhaseOf(r)' = IF PhaseOf(r) \in {"waiting", "dropped"}
                           THEN "dropped" ELSE "forgotten"
  <2>1. status'[r] = "deleted" /\ summary'[r] = summary[r] /\ status[r] \in RunStatus
    BY DEF Delete, IInv, TypeInv
  <2>. QED BY <2>1, Phases DEF PhaseOf, IInv, RunInv, Before, RunStatus
<1>3. ASSUME NEW r \in Runs \ S PROVE PhaseOf(r)' = PhaseOf(r)
  BY <1>1 DEF Delete, PhaseOf
<1>4. Once!GiveUp(S)
  BY <1>1, <1>2, <1>3 DEF Once!GiveUp
<1>. QED BY <1>4 DEF Once!OnceNext

\* A step of a worker moves only the run it owns.
LEMMA WorkerOnce ==
  ASSUME IInv, NEW w \in Workers, WorkerStep(w)
  PROVE  Once!OnceNext \/ UNCHANGED <<ph, sent>>
<1>1. CASE UNCHANGED <<status, summary, sent>>
  BY <1>1, SamePhase
<1>2. PICK r \in Runs : r = wrun[w] /\ status[r] \in RunStatus
  BY DEF WorkerStep, Claim, Generate, Fail, MarkDelivering, Deliver, Record, IInv,
         TypeInv, OwnerInv
<1>3. CASE Claim(w)
  <2>1. UNCHANGED <<summary, sent>>
    BY <1>3 DEF Claim
  <2>2. CASE status' = [status EXCEPT ![r] = "failed"] /\ status[r] = "pending"
    <3>1. summary[r] = "none" /\ PhaseOf(r) = "waiting"
      BY <1>2, <2>2, Phases DEF IInv, RunInv, Before, PhaseOf
    <3>. QED BY <1>2, <2>1, <2>2, <3>1, FailOnce
  <2>3. CASE status' = [status EXCEPT ![r] = "generating"] /\ status[r] = "pending"
    <3>1. \A q \in Runs : PhaseOf(q)' = PhaseOf(q)
      BY <1>2, <2>1, <2>3, Phases DEF PhaseOf, IInv, TypeInv
    <3>. QED BY <2>1, <3>1 DEF ph
  <2>. QED BY <1>1, <1>2, <1>3, <2>1, <2>2, <2>3 DEF Claim, SetStatus
<1>4. CASE Generate(w)
  <2>1. UNCHANGED <<summary, sent>>
    BY <1>4 DEF Generate
  <2>2. CASE status' = [status EXCEPT ![r] = "failed"] /\ status[r] # "deleted"
    <3>1. status[r] = "generating"
      BY <1>2, <1>4, <2>2 DEF Generate, IInv, OwnerInv, Building
    <3>2. summary[r] = "none" /\ PhaseOf(r) = "waiting"
      BY <1>2, <3>1, Phases DEF IInv, RunInv, Before, PhaseOf
    <3>. QED BY <1>2, <2>1, <2>2, <3>2, FailOnce
  <2>. QED BY <1>1, <1>2, <1>4, <2>1, <2>2 DEF Generate, SetStatus
<1>5. CASE Fail(w)
  <2>1. UNCHANGED <<summary, sent>>
    BY <1>5 DEF Fail
  <2>2. CASE status' = [status EXCEPT ![r] = "failed"] /\ status[r] # "deleted"
    <3>1. status[r] = "generating"
      BY <1>2, <1>5, <2>2 DEF Fail, IInv, OwnerInv, Building
    <3>2. summary[r] = "none" /\ PhaseOf(r) = "waiting"
      BY <1>2, <3>1, Phases DEF IInv, RunInv, Before, PhaseOf
    <3>. QED BY <1>2, <2>1, <2>2, <3>2, FailOnce
  <2>. QED BY <1>1, <1>2, <1>5, <2>1, <2>2 DEF Fail, SetStatus
<1>6. CASE MarkDelivering(w)
  <2>1. CASE UNCHANGED <<status, summary>>
    BY <1>1, <1>6, <2>1 DEF MarkDelivering
  <2>2. CASE ~UNCHANGED <<status, summary>>
    <3>1. /\ status[r] = "generating" /\ UNCHANGED sent
          /\ status' = [status EXCEPT ![r] = "delivering"]
          /\ summary' = [summary EXCEPT ![r] = "unconfirmed"]
      BY <1>2, <1>6, <2>2 DEF MarkDelivering, SetStatus, IInv, OwnerInv, Building
    <3>2. PhaseOf(r) = "waiting" /\ PhaseOf(r)' = "committed"
      BY <1>2, <3>1, Phases DEF PhaseOf, IInv, TypeInv
    <3>3. \A q \in Runs \ {r} : PhaseOf(q)' = PhaseOf(q)
      BY <1>2, <3>1 DEF PhaseOf, IInv, TypeInv
    <3>4. Once!Commit(r)
      BY <1>2, <3>1, <3>2, <3>3 DEF Once!Commit
    <3>. QED BY <1>2, <3>4 DEF Once!OnceNext
  <2>. QED BY <2>1, <2>2
<1>7. CASE Deliver(w)
  <2>1. UNCHANGED <<status, summary>> /\ ph' = ph
    BY <1>7, SamePhase DEF Deliver
  <2>2. CASE sent' = [sent EXCEPT ![r] = @ + 1]
    <3>1. /\ status[r] \in {"delivering", "deleted"} /\ sent[r] = 0
          /\ summary[r] = "unconfirmed"
      BY <1>2, <1>7 DEF Deliver, IInv, OwnerInv
    <3>2. sent' = [sent EXCEPT ![r] = 1]
      BY <1>2, <2>2, <3>1 DEF IInv, TypeInv
    <3>3. PhaseOf(r) \in {"committed", "forgotten"}
      BY <3>1, Phases DEF PhaseOf
    <3>4. Once!Send(r)
      BY <1>2, <2>1, <3>1, <3>2, <3>3 DEF Once!Send, ph
    <3>. QED BY <1>2, <3>4 DEF Once!OnceNext
  <2>. QED BY <1>2, <1>7, <2>1, <2>2 DEF Deliver
<1>8. CASE Record(w)
  <2>1. CASE status[r] = "deleted"
    BY <1>1, <1>2, <1>8, <2>1 DEF Record
  <2>2. CASE status[r] # "deleted"
    <3>1. /\ status[r] = "delivering" /\ UNCHANGED sent /\ wout[w] \in Outcome
          /\ summary[r] = "unconfirmed"
          /\ summary' = [summary EXCEPT ![r] = wout[w]]
          /\ wout[w] = "unconfirmed" => status' = status
          /\ wout[w] = "success" => status' = [status EXCEPT ![r] = "completed"]
          /\ wout[w] = "failure" => status' = [status EXCEPT ![r] = "failed"]
      BY <1>2, <1>8, <2>2 DEF Record, IInv, OwnerInv, TypeInv
    <3>2. CASE wout[w] = "unconfirmed"
      <4>1. summary' = summary /\ status' = status
        BY <1>2, <3>1, <3>2 DEF IInv, TypeInv
      <4>. QED BY <1>1, <3>1, <4>1
    <3>3. CASE wout[w] # "unconfirmed"
      <4>1. PhaseOf(r) = "committed" /\ PhaseOf(r)' = "settled"
        BY <1>2, <3>1, <3>3, Phases DEF PhaseOf, IInv, TypeInv, Outcome
      <4>2. \A q \in Runs \ {r} : PhaseOf(q)' = PhaseOf(q)
        BY <1>2, <3>1, <3>3 DEF PhaseOf, IInv, TypeInv, Outcome
      <4>3. Once!Settle(r)
        BY <1>2, <3>1, <4>1, <4>2 DEF Once!Settle
      <4>. QED BY <1>2, <4>3 DEF Once!OnceNext
    <3>. QED BY <3>2, <3>3
  <2>. QED BY <2>1, <2>2
<1>. QED BY <1>3, <1>4, <1>5, <1>6, <1>7, <1>8 DEF WorkerStep

\* The scheduler, whatever fails, does nothing that OnceDelivery forbids.
THEOREM Refinement == Spec => ImplementsOnce
<1>1. IInv /\ [Next]_vars => [Once!OnceNext]_<<ph, sent>>
  <2>. SUFFICES ASSUME IInv, [Next]_vars
                PROVE  Once!OnceNext \/ UNCHANGED <<ph, sent>>
    OBVIOUS
  <2>. QED BY QuietOnce, DeleteOnce, WorkerOnce DEF Next
<1>. QED BY <1>1, InitOnce, Invariant, PTL DEF Spec, ImplementsOnce, Once!OnceSpec, ph
=============================================================================

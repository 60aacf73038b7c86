---------------------------- MODULE ModuleBatch ----------------------------
(***************************************************************************)
(* POST /api/scan/batch of the scan service: modules of several batches    *)
(* against one hostname, each under the batch's own concurrency limit and  *)
(* the host's shared one, with the runner's timeout, the middleware around *)
(* the module (safety check by DNS, then the handler raced against an      *)
(* abort) and handlers that may go on after everybody has stopped waiting. *)
(*                                                                         *)
(* The middleware's own timer has the runner's duration and starts later,  *)
(* so the runner's always fires first and clears it: it is left out.       *)
(***************************************************************************)
EXTENDS Naturals, Sequences, FiniteSets

CONSTANTS
    Batches,  \* requests to /api/scan/batch, all for one hostname
    Modules,  \* scan modules
    Asked,    \* the modules each batch asks for, each once
    BatchCap, \* SCAN_BATCH_CONCURRENCY
    HostCap   \* SCAN_HOST_CONCURRENCY

ASSUME CapAssumption == BatchCap \in Nat \ {0} /\ HostCap \in Nat \ {0}

ASSUME AskedAssumption == Asked \in [Batches -> SUBSET Modules]

Jobs == {j \in Batches \X Modules : j[2] \in Asked[j[1]]}

VARIABLES
    request, \* "new", "open" or "answered" per batch
    pc,      \* where runModule of each job is, see PC
    hostq,   \* the host limiter's queue
    timer,   \* jobs whose runner timer is set
    aborted, \* jobs whose runner signal has fired
    answer,  \* the envelope runModule settled with
    fn,      \* the module's handler: "idle", "running" or "ended"
    told     \* handlers whose signal (linked to the runner's) has fired

vars == <<request, pc, hostq, timer, aborted, answer, fn, told>>

\* In the batch's queue; in the host's queue; holding a slot in the safety
\* check; holding it while handler and abort race; slot given back.
PC      == {"waiting", "queued", "checking", "racing", "left"}
Holders == {j \in Jobs : pc[j] \in {"checking", "racing"}}

TypeOK ==
    /\ request \in [Batches -> {"new", "open", "answered"}]
    /\ pc \in [Jobs -> PC] /\ hostq \in Seq(Jobs)
    /\ timer \subseteq Jobs /\ aborted \subseteq Jobs
    /\ answer \in [Jobs -> {"none", "result", "error", "timeout"}]
    /\ fn \in [Jobs -> {"idle", "running", "ended"}] /\ told \subseteq Jobs

Init ==
    /\ request = [b \in Batches |-> "new"]
    /\ pc = [j \in Jobs |-> "waiting"] /\ hostq = <<>>
    /\ timer = {} /\ aborted = {} /\ told = {}
    /\ answer = [j \in Jobs |-> "none"] /\ fn = [j \in Jobs |-> "idle"]

Arrive(b) ==
    /\ request[b] = "new" /\ request' = [request EXCEPT ![b] = "open"]
    /\ UNCHANGED <<pc, hostq, timer, aborted, answer, fn, told>>

-----------------------------------------------------------------------------
(* Limits *)

\* The jobs that occupy the batch's own limit: begun, and not yet answered.
Begun(b) == {m \in Asked[b] : pc[<<b, m>>] # "waiting" /\ answer[<<b, m>>] = "none"}

\* Faulty variant: the time in the host's queue counts.
StartTimed(b, m) ==
    /\ request[b] = "open" /\ pc[<<b, m>>] = "waiting"
    /\ Cardinality(Begun(b)) < BatchCap
    /\ pc' = [pc EXCEPT ![<<b, m>>] = "queued"]
    /\ hostq' = Append(hostq, <<b, m>>) /\ timer' = timer \cup {<<b, m>>}
    /\ UNCHANGED <<request, aborted, answer, fn, told>>

\* limit(...) lets runModule begin, in the order of the request's list (any
\* order); it queues at the host's limiter.
Start(b, m) ==
    /\ request[b] = "open" /\ pc[<<b, m>>] = "waiting"
    /\ Cardinality(Begun(b)) < BatchCap
    /\ pc' = [pc EXCEPT ![<<b, m>>] = "queued"]
    /\ hostq' = Append(hostq, <<b, m>>)
    /\ UNCHANGED <<request, timer, aborted, answer, fn, told>>

\* hostLimiter.run calls back: the timer starts, then the safety check.
TakeSlot ==
    /\ hostq # <<>> /\ Cardinality(Holders) < HostCap
    /\ hostq' = Tail(hostq)
    /\ pc' = [pc EXCEPT ![Head(hostq)] = "checking"]
    /\ timer' = timer \cup {Head(hostq)}
    /\ UNCHANGED <<request, aborted, answer, fn, told>>

-----------------------------------------------------------------------------
(* runModule and runDirect *)

\* Faulty variant: the answer of a module that was timed out is used after all.
ReturnLate(j, a) ==
    /\ pc' = [pc EXCEPT ![j] = "left"] /\ timer' = timer \ {j}
    /\ answer' = [answer EXCEPT ![j] = a]

\* runDirect settles: the host slot is free, and runModule's race is decided
\* unless its timeout was first.
Return(j, a) ==
    /\ pc' = [pc EXCEPT ![j] = "left"] /\ timer' = timer \ {j}
    /\ answer' = [answer EXCEPT ![j] = IF answer[j] = "none" THEN a ELSE answer[j]]

\* resolvePublicUrl refuses the target, or fails.
Refused(j) ==
    /\ pc[j] = "checking" /\ Return(j, "error")
    /\ UNCHANGED <<request, hostq, aborted, fn, told>>

\* Faulty variant: an abort during the check goes unseen.
AcceptedUnlinked(j) ==
    /\ pc[j] = "checking"
    /\ fn' = [fn EXCEPT ![j] = "running"]
    /\ pc' = [pc EXCEPT ![j] = "racing"]
    /\ UNCHANGED <<request, hostq, aborted, told, timer, answer>>

\* The target is public.  The handler is called in any case; if the runner's
\* signal has fired meanwhile, the race is lost at once.
Accepted(j) ==
    /\ pc[j] = "checking"
    /\ fn' = [fn EXCEPT ![j] = "running"]
    /\ IF j \in aborted THEN told' = told \cup {j} /\ Return(j, "error")
       ELSE /\ pc' = [pc EXCEPT ![j] = "racing"]
            /\ UNCHANGED <<told, timer, answer>>
    /\ UNCHANGED <<request, hostq, aborted>>

\* The handler returns or throws; nobody listens if the race is over.
HandlerEnds(j, a) ==
    /\ fn[j] = "running" /\ fn' = [fn EXCEPT ![j] = "ended"]
    /\ IF pc[j] = "racing" THEN Return(j, a) ELSE UNCHANGED <<pc, timer, answer>>
    /\ UNCHANGED <<request, hostq, aborted, told>>

\* Faulty variants: the timeout answers and does not abort; or it gives up the
\* slot and does not abort.
TimeoutAnswersOnly(j) ==
    /\ j \in timer /\ timer' = timer \ {j}
    /\ answer' = [answer EXCEPT ![j] = "timeout"]
    /\ UNCHANGED <<request, pc, hostq, aborted, fn, told>>

TimeoutUntold(j) ==
    /\ j \in timer /\ timer' = timer \ {j}
    /\ answer' = [answer EXCEPT ![j] = "timeout"] /\ aborted' = aborted \cup {j}
    /\ pc' = [pc EXCEPT ![j] = IF @ = "racing" THEN "left" ELSE @]
    /\ UNCHANGED <<request, hostq, fn, told>>

\* The runner's timer: runModule answers 408, the signal fires, and a race in
\* the middleware ends with it.  A safety check goes on, and keeps the slot.
Timeout(j) ==
    /\ j \in timer /\ timer' = timer \ {j}
    /\ answer' = [answer EXCEPT ![j] = "timeout"] /\ aborted' = aborted \cup {j}
    /\ IF pc[j] = "racing"
       THEN pc' = [pc EXCEPT ![j] = "left"] /\ told' = told \cup {j}
       ELSE UNCHANGED <<pc, told>>
    /\ UNCHANGED <<request, hostq, fn>>

Reply(b) ==
    /\ request[b] = "open" /\ \A m \in Asked[b] : answer[<<b, m>>] # "none"
    /\ request' = [request EXCEPT ![b] = "answered"]
    /\ UNCHANGED <<pc, hostq, timer, aborted, answer, fn, told>>

Checked(j) == Refused(j) \/ Accepted(j)

Next ==
    \/ \E b \in Batches : Arrive(b) \/ Reply(b) \/ \E m \in Asked[b] : Start(b, m)
    \/ TakeSlot
    \/ \E j \in Jobs : Checked(j) \/ Timeout(j)
                       \/ \E a \in {"result", "error"} : HandlerEnds(j, a)

Spec == Init /\ [][Next]_vars

\* The limiters and timers work and DNS answers; a handler may never end.
Fairness ==
    /\ WF_vars(TakeSlot)
    /\ \A b \in Batches : WF_vars(Reply(b)) /\ WF_vars(\E m \in Asked[b] : Start(b, m))
    /\ \A j \in Jobs : WF_vars(Checked(j)) /\ WF_vars(Timeout(j))

FairSpec == Spec /\ Fairness

-----------------------------------------------------------------------------
(* Properties *)

\* B-5: a module's time runs exactly while it has a slot and no answer: not
\* in a queue, and never on after the answer, when it would abort what other
\* code has taken over.
BudgetIsSlotTime == timer = {j \in Holders : answer[j] = "none"}

\* A slot outlives its module's answer only in the safety check of a module
\* that was timed out; then it was aborted, and leaves when DNS answers.
SlotGivenBack ==
    \A j \in Holders : answer[j] # "none" =>
        pc[j] = "checking" /\ answer[j] = "timeout" /\ j \in aborted

\* A handler that runs outside the host's limit has been told to stop.
OutsidersTold == \A j \in Jobs : fn[j] = "running" /\ j \notin Holders => j \in told

\* A late result never replaces the answer of a module that was timed out.
AnswersStand ==
    [][\A j \in Jobs : answer[j] # "none" => answer'[j] = answer[j]]_vars

\* Every batch is answered, even if no handler ever ends: slots come back and
\* queued modules of all batches get their turn.
BatchEnds == \A b \in Batches : (request[b] = "open") ~> (request[b] = "answered")
=============================================================================

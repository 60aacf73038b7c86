--------------------------- MODULE OutboundProofs ---------------------------
(***************************************************************************)
(* Proofs about what the scan service does to other hosts: the circuit     *)
(* breaker of a host (CircuitBreaker), for any number of calls, any        *)
(* threshold and any probe budget, and the ports module (PortScan), for    *)
(* any number of ports and workers.                                        *)
(***************************************************************************)
EXTENDS CircuitBreaker, PortScan, FiniteSetTheorems, TLAPS

\* Outside a half-open period no probe of "this" period is left over.
PeriodInv == state # "half_open" => cur = {} /\ muted = 0

\* What consecutiveFailures is worth: the streak while closed, the threshold
\* ever after (a failed probe does not count, and need not).
CountInv ==
    /\ state = "closed" => fails = streak /\ fails < Threshold
    /\ state # "closed" => fails = Threshold /\ streak = Threshold

IInv == TypeOK /\ PeriodInv /\ CountInv /\ BudgetExact

\* The probes of a period are finitely many, and counted one by one.
LEMMA CurCount ==
    ASSUME TypeOK
    PROVE  /\ IsFiniteSet(cur) /\ Cardinality(cur) \in Nat
           /\ \A c \in Calls : c \notin sent =>
                Cardinality(cur \cup {c}) = Cardinality(cur) + 1
           /\ \A c \in cur : /\ Cardinality(cur \ {c}) = Cardinality(cur) - 1
                              /\ Cardinality(cur \ {c}) \in Nat
           /\ \A c : c \notin cur => cur \ {c} = cur
<1>1. cur \subseteq Calls
  BY DEF TypeOK
<1>2. IsFiniteSet(cur)
  BY <1>1, CallsAssumption, FS_Subset
<1>3. \A c \in Calls : c \notin sent => c \notin cur
  BY DEF TypeOK
<1>. QED
  BY <1>2, <1>3, FS_CardinalityType, FS_AddElement, FS_RemoveElement

\* A success leaves the breaker closed and clean.
LEMMA SuccessKeeps ==
    ASSUME IInv, NEW c \in Calls, Succeeds(c)
    PROVE  IInv'
<1>1. Cardinality({}) = 0
  BY FS_EmptySet
<1>. QED
  BY <1>1, PolicyAssumption
     DEF IInv, TypeOK, PeriodInv, CountInv, BudgetExact, Succeeds, Settled,
         RecordSuccess, EndPeriod

\* A failure ends a half-open period, or counts towards the threshold.
LEMMA FailureKeeps ==
    ASSUME IInv, NEW c \in Calls, Fails(c)
    PROVE  IInv'
<1>1. Cardinality({}) = 0
  BY FS_EmptySet
<1>2. CASE state = "half_open"
  <2>1. /\ state' = "open" /\ cooled' = FALSE /\ inFlight' = 0
        /\ cur' = {} /\ muted' = 0 /\ fails' = fails
        /\ streak' = UpTo(streak)
        /\ sent' = sent \ {c}
    BY <1>2 DEF Fails, Settled, RecordFailure, EndPeriod
  <2>2. fails = Threshold /\ streak = Threshold
    BY <1>2 DEF IInv, CountInv
  <2>3. streak' = Threshold
    BY <2>1, <2>2, PolicyAssumption DEF UpTo
  <2>4. sent' \subseteq Calls /\ cur' \subseteq sent'
    BY <2>1 DEF IInv, TypeOK
  <2>5. 0 \in 0..MaxProbes /\ Threshold \in 0..Threshold
    BY PolicyAssumption
  <2>6. TypeOK'
    BY <2>1, <2>2, <2>3, <2>4, <2>5, Zenon DEF TypeOK
  <2>. QED
    BY <1>1, <2>1, <2>2, <2>3, <2>6
       DEF IInv, PeriodInv, CountInv, BudgetExact
<1>3. CASE state # "half_open"
  <2>1. cur = {} /\ cur' = {} /\ inFlight' = 0 /\ muted' = 0
    BY <1>1, <1>3 DEF IInv, PeriodInv, BudgetExact, Fails, RecordFailure, TypeOK
  <2>2. CountInv'
    BY <1>3, PolicyAssumption
       DEF IInv, TypeOK, CountInv, Fails, RecordFailure, UpTo
  <2>3. sent' \subseteq Calls /\ cur' \subseteq sent'
    BY <2>1 DEF IInv, TypeOK, Fails, Settled
  <2>4. \/ state' = "open" /\ cooled' = FALSE
        \/ state' = state /\ cooled' = cooled
    BY <1>3, Zenon DEF Fails, RecordFailure
  <2>5. state' \in {"closed", "open", "half_open"} /\ cooled' \in BOOLEAN
    BY <2>4, Zenon DEF IInv, TypeOK
  <2>6. fails' \in 0..Threshold /\ streak' \in 0..Threshold
    BY <1>3, PolicyAssumption DEF IInv, TypeOK, Fails, RecordFailure, UpTo
  <2>7. inFlight' \in 0..MaxProbes /\ muted' \in 0..MaxProbes
    BY <2>1, PolicyAssumption
  <2>8. TypeOK'
    BY <2>3, <2>5, <2>6, <2>7, Zenon DEF TypeOK
  <2>. QED
    BY <1>1, <2>1, <2>2, <2>8 DEF IInv, PeriodInv, BudgetExact
<1>. QED
  BY <1>2, <1>3

\* A probe that ends unrecorded moves from cur to muted.
LEMMA UnrecordedKeeps ==
    ASSUME IInv, NEW c \in Calls, Unrecorded(c)
    PROVE  IInv'
<1>1. TypeOK
  BY DEF IInv
<1>2. CASE c \in cur
  <2>1. /\ Cardinality(cur \ {c}) = Cardinality(cur) - 1
        /\ Cardinality(cur \ {c}) \in Nat /\ Cardinality(cur) \in Nat
    BY <1>1, <1>2, CurCount
  <2>2. cur' = cur \ {c} /\ muted' = muted + 1 /\ inFlight' = inFlight
    BY <1>2 DEF Unrecorded, entry
  <2>3. inFlight' = Cardinality(cur') + muted' /\ Cardinality(cur') \in Nat
    BY <1>1, <2>1, <2>2 DEF IInv, BudgetExact, TypeOK
  <2>4. muted' \in 0..MaxProbes
    BY <1>1, <2>2, <2>3, PolicyAssumption DEF TypeOK
  <2>. QED
    BY <1>1, <1>2, <2>3, <2>4
       DEF IInv, TypeOK, PeriodInv, CountInv, BudgetExact, Unrecorded, Settled, entry
<1>3. CASE c \notin cur
  <2>1. cur' = cur /\ muted' = muted
    BY <1>3 DEF Unrecorded
  <2>. QED
    BY <1>3, <2>1
       DEF IInv, TypeOK, PeriodInv, CountInv, BudgetExact, Unrecorded, Settled, entry
<1>. QED
  BY <1>2, <1>3

\* A call that is let through takes one unit of the budget, or none.
LEMMA SendKeeps ==
    ASSUME IInv, NEW c \in Calls, Send(c)
    PROVE  IInv'
<1>1. CASE SendClosed(c)
  BY <1>1 DEF IInv, TypeOK, PeriodInv, CountInv, BudgetExact, SendClosed, entry
<1>2. CASE SendProbe(c)
  <2>1. c \notin sent /\ TypeOK
    BY DEF Send, IInv
  <2>2. Cardinality(cur') = Cardinality(cur) + 1 /\ Cardinality(cur) \in Nat
    BY <1>2, <2>1, CurCount DEF SendProbe
  <2>3. Used = inFlight
    BY DEF IInv, BudgetExact, Used, Due
  <2>4. inFlight' = inFlight + 1 /\ inFlight < MaxProbes /\ state # "closed"
    BY <1>2, <2>3 DEF SendProbe, Due
  <2>5. TypeOK'
    BY <1>2, <2>1, <2>4, PolicyAssumption DEF TypeOK, SendProbe
  <2>6. BudgetExact'
    BY <1>2, <2>2, <2>4 DEF IInv, TypeOK, BudgetExact, SendProbe
  <2>. QED
    BY <1>2, <2>4, <2>5, <2>6 DEF IInv, PeriodInv, CountInv, SendProbe
<1>. QED
  BY <1>1, <1>2 DEF Send

\* The invariant is inductive.
THEOREM Invariant == Spec => []IInv
<1>1. Init => IInv
  BY FS_EmptySet, PolicyAssumption
     DEF Init, IInv, TypeOK, PeriodInv, CountInv, BudgetExact
<1>2. IInv /\ [Next]_vars => IInv'
  <2> SUFFICES ASSUME IInv, [Next]_vars
               PROVE  IInv'
    OBVIOUS
  <2>1. CASE CooldownPasses
    BY <2>1 DEF IInv, TypeOK, PeriodInv, CountInv, BudgetExact, CooldownPasses
  <2>2. ASSUME NEW c \in Calls, Send(c)
        PROVE  IInv'
    BY <2>2, SendKeeps
  <2>3. ASSUME NEW c \in Calls, Settle(c)
        PROVE  IInv'
    BY <2>3, SuccessKeeps, FailureKeeps, UnrecordedKeeps DEF Settle
  <2>4. CASE UNCHANGED vars
    BY <2>4 DEF IInv, TypeOK, PeriodInv, CountInv, BudgetExact, vars, entry
  <2>. QED
    BY <2>1, <2>2, <2>3, <2>4 DEF Next
<1>. QED
  BY <1>1, <1>2, PTL DEF Spec

\* The entry of a host keeps its type; its counters stay within the policy.
THEOREM TypeCorrect == Spec => []TypeOK
<1>1. IInv => TypeOK
  BY DEF IInv
<1>. QED
  BY <1>1, Invariant, PTL

\* The probe budget is exact for every policy: halfOpenInFlight is the number
\* of this period's probes that are out or ended unrecorded.
THEOREM ProbeBudget == Spec => []BudgetExact
<1>1. IInv => BudgetExact
  BY DEF IInv
<1>. QED
  BY <1>1, Invariant, PTL

\* The breaker lets traffic pass freely exactly while fewer than Threshold
\* failures were recorded since the last success.
THEOREM Healthy == Spec => []ClosedIffHealthy
<1>1. IInv => ClosedIffHealthy
  BY PolicyAssumption DEF IInv, TypeOK, CountInv, ClosedIffHealthy
<1>. QED
  BY <1>1, Invariant, PTL

-----------------------------------------------------------------------------
(* The ports module                                                          *)

Accounted ==
    \A p \in Ports :
        /\ p > index => socket[p] = "none" /\ probed[p] = "none"
        /\ p <= index /\ native # "rejected" => (socket[p] # "none") # (probed[p] # "none")

Bounded == Cardinality(Open) <= Concurrency

Completed == native = "complete" => \A p \in Ports : probed[p] # "none"

\* Sockets are open only while the TCP scan runs, which starts after the nmap
\* scanner was found absent or has failed, and never on a signal that has fired.
Started ==
    /\ Open # {} => native = "running"
    /\ native = "idle" => index = 0
    /\ scanner \in {"unasked", "calling"} => native = "idle"
    /\ aborted => scanner # "calling"
    /\ scanner = "unasked" => ~timer /\ (answer # "none" => aborted)

ScanInv ==
    /\ PortTypeOK /\ Accounted /\ Bounded /\ Completed /\ Started
    /\ LateWorkIsTimeout

\* The ports up to n are finitely many.
LEMMA PortsFinite ==
  /\ IsFiniteSet(Ports)
  /\ \A s \in [Ports -> {"none", "connecting", "connected"}] :
       IsFiniteSet({p \in Ports : s[p] # "none"})
<1>1. IsFiniteSet(Ports)
  BY SizeAssumption, FS_Interval DEF SizeAssumption, Ports
<1>2. ASSUME NEW s \in [Ports -> {"none", "connecting", "connected"}]
      PROVE  IsFiniteSet({p \in Ports : s[p] # "none"})
  BY <1>1, FS_Subset
<1>. QED BY <1>1, <1>2

LEMMA ScanInit == PortInit => ScanInv
<1>. SUFFICES ASSUME PortInit PROVE ScanInv
  OBVIOUS
<1>. USE SizeAssumption DEF PortInit, SizeAssumption
<1>1. PortTypeOK
  <2>1. aborted \in BOOLEAN /\ timer \in BOOLEAN
    OBVIOUS
  <2>2. /\ socket \in [Ports -> {"none", "connecting", "connected"}]
        /\ probed \in [Ports -> State \cup {"none"}]
        /\ index \in 0..Last /\ scanner = "unasked" /\ native = "idle" /\ answer = "none"
    OBVIOUS
  <2>. QED BY <2>1, <2>2 DEF PortTypeOK
<1>5. Accounted /\ Completed
  BY DEF Ports, Accounted, Completed
<1>2. Open = {}
  BY DEF Open
<1>3. Bounded
  BY <1>2, FS_EmptySet DEF Bounded
<1>4. Started /\ LateWorkIsTimeout
  BY <1>2 DEF Started, LateWorkIsTimeout
<1>. QED BY <1>1, <1>3, <1>4, <1>5 DEF ScanInv

\* The TCP scan begins with one port for each of its workers.
LEMMA StartStep ==
  ASSUME ScanInv, native = "idle", StartNative, ~aborted
  PROVE  /\ native' = "running" /\ answer' = answer
         /\ index' \in 1..Last
         /\ socket' = [p \in Ports |-> IF p <= index' THEN "connecting" ELSE "none"]
         /\ Open' = 1..index'
         /\ Cardinality(Open') <= Concurrency
<1> DEFINE n == IF Last < Concurrency THEN Last ELSE Concurrency
<1>. USE SizeAssumption DEF SizeAssumption, Ports
<1>1. n \in 1..Last /\ n <= Concurrency /\ n \in Nat
  OBVIOUS
<1>2. index = 0 /\ \A p \in Ports : socket[p] = "none"
  BY DEF ScanInv, Started, Open
<1>3. /\ native' = "running" /\ answer' = answer /\ index' = index + n
      /\ socket' = [p \in Ports |->
                      IF p \in index + 1..index + n THEN "connecting" ELSE socket[p]]
  BY DEF StartNative, Take
<1>4. index' = n
  BY <1>1, <1>2, <1>3
<1>5. socket' = [p \in Ports |-> IF p <= index' THEN "connecting" ELSE "none"]
  BY <1>1, <1>2, <1>3
<1>6. Open' = 1..index'
  BY <1>1, <1>4, <1>5 DEF Open
<1>7. Cardinality(Open') = n
  <2>. HIDE DEF n
  <2>1. Cardinality(1..n) = IF 1 > n THEN 0 ELSE n - 1 + 1
    BY <1>1, FS_Interval
  <2>. QED BY <1>1, <1>4, <1>6, <2>1
<1>. QED BY <1>1, <1>3, <1>4, <1>5, <1>6, <1>7

LEMMA ProbedStep ==
  ASSUME ScanInv, NEW p \in Ports, Probe(p)
  PROVE  ScanInv'
<1>. USE SizeAssumption DEF SizeAssumption
<1>. DEFINE S == [q \in Ports |-> IF q = p THEN "none" ELSE socket[q]]
<1>1. PICK o \in Outcomes(p) : Probed(p, o)
  BY DEF Probe
<1>2. o \in State
  BY DEF Outcomes, State
<1>3. /\ socket \in [Ports -> {"none", "connecting", "connected"}]
      /\ probed \in [Ports -> State \cup {"none"}] /\ index \in 0..Last
  BY DEF ScanInv, PortTypeOK
<1>4. p \in Open /\ native = "running" /\ p <= index
  BY <1>1, <1>3 DEF Open, Probed, ScanInv, Accounted, Started, Ports
<1>5. /\ probed' = [probed EXCEPT ![p] = o]
      /\ UNCHANGED <<scanner, aborted, timer>>
  BY <1>1 DEF Probed
<1>6. IsFiniteSet(Open) /\ Cardinality(Open) <= Concurrency
  BY <1>3, PortsFinite DEF Open, ScanInv, Bounded
<1>7. scanner \notin {"unasked", "calling"} /\ (answer # "none" => answer = "timeout")
  BY <1>4 DEF ScanInv, Started, LateWorkIsTimeout
<1>8. CASE index < Last
  <2>1. /\ index' = index + 1 /\ UNCHANGED <<native, answer>>
        /\ socket' = [q \in Ports |-> IF q \in index + 1..index + 1 THEN "connecting"
                                          ELSE [socket EXCEPT ![p] = "none"][q]]
    BY <1>1, <1>8 DEF Probed, Take
  <2>2. index + 1 \in Ports /\ index + 1 # p /\ socket[index + 1] = "none"
    BY <1>3, <1>4, <1>8 DEF Ports, ScanInv, Accounted
  <2>3. socket' = [q \in Ports |-> IF q = index + 1 THEN "connecting"
                                       ELSE IF q = p THEN "none" ELSE socket[q]]
    BY <1>3, <2>1, <2>2 DEF Ports
  <2>4. Open' = (Open \ {p}) \cup {index + 1}
    BY <2>2, <2>3 DEF Open
  <2>5. Cardinality(Open') = Cardinality(Open)
    <3>1. Cardinality(Open \ {p}) = Cardinality(Open) - 1 /\ IsFiniteSet(Open \ {p})
      BY <1>4, <1>6, FS_RemoveElement
    <3>2. index + 1 \notin Open \ {p}
      BY <2>2 DEF Open
    <3>3. Cardinality((Open \ {p}) \cup {index + 1}) = Cardinality(Open \ {p}) + 1
      BY <3>1, <3>2, FS_AddElement
    <3>4. Cardinality(Open) \in Nat
      BY <1>6, FS_CardinalityType
    <3>. QED BY <2>4, <3>1, <3>3, <3>4
  <2>6. PortTypeOK'
    BY <1>2, <1>3, <1>5, <2>1, <2>3, <1>8 DEF ScanInv, PortTypeOK
  <2>7. Accounted'
    BY <1>2, <1>3, <1>4, <1>5, <2>1, <2>2, <2>3 DEF ScanInv, Accounted, Ports, State
  <2>8. Completed' /\ Started' /\ LateWorkIsTimeout'
    BY <1>4, <1>5, <1>7, <2>1 DEF ScanInv, Completed, Started, LateWorkIsTimeout
  <2>. QED BY <1>6, <2>5, <2>6, <2>7, <2>8 DEF ScanInv, Bounded
<1>9. CASE index = Last
  <2>1. /\ socket' = [socket EXCEPT ![p] = "none"] /\ UNCHANGED index
        /\ IF Open = {p} THEN native' = "complete" /\ Race("native")
           ELSE UNCHANGED <<native, answer>>
    BY <1>1, <1>9 DEF Probed
  <2>2. Open' = Open \ {p}
    BY <1>3, <2>1 DEF Open
  <2>3. Bounded'
    <3>1. Cardinality(Open \ {p}) = Cardinality(Open) - 1
      BY <1>4, <1>6, FS_RemoveElement
    <3>2. Cardinality(Open) \in Nat
      BY <1>6, FS_CardinalityType
    <3>. QED BY <1>6, <2>2, <3>1, <3>2 DEF Bounded
  <2>4. PortTypeOK'
    BY <1>2, <1>3, <1>5, <2>1 DEF ScanInv, PortTypeOK, Race
  <2>5. Accounted'
    BY <1>2, <1>3, <1>4, <1>5, <2>1 DEF ScanInv, Accounted, Ports, State
  <2>6. Completed'
    <3>1. CASE Open = {p}
      <4>1. \A q \in Ports : probed[q] # "none" \/ q = p
        BY <1>3, <1>4, <1>9, <3>1 DEF ScanInv, Accounted, Open, Ports
      <4>. QED BY <1>2, <1>3, <1>5, <4>1 DEF Completed, State
    <3>2. CASE Open # {p}
      BY <1>4, <2>1, <3>2 DEF Completed
    <3>. QED BY <3>1, <3>2
  <2>7. Started' /\ LateWorkIsTimeout'
    <3>1. CASE Open = {p}
      <4>1. Open' = {}
        BY <2>2, <3>1
      <4>. QED BY <1>4, <1>5, <1>7, <2>1, <3>1, <4>1 DEF ScanInv, Started, LateWorkIsTimeout
    <3>2. CASE Open # {p}
      BY <1>4, <1>5, <1>7, <2>1, <3>2 DEF ScanInv, Started, LateWorkIsTimeout
    <3>. QED BY <3>1, <3>2
  <2>. QED BY <2>3, <2>4, <2>5, <2>6, <2>7 DEF ScanInv
<1>. QED BY <1>3, <1>8, <1>9

LEMMA CallStep ==
  ASSUME ScanInv, Call
  PROVE  ScanInv'
<1>. USE SizeAssumption DEF SizeAssumption
<1>1. /\ scanner = "unasked" /\ native = "idle" /\ index = 0 /\ ~timer /\ Open = {}
      /\ (answer # "none" => aborted)
  BY DEF Call, ScanInv, Started
<1>2. UNCHANGED <<probed, aborted>> /\ timer' = ~aborted
  BY DEF Call
<1>3. CASE scanner' = "none" /\ StartNative /\ ~aborted
  <2>1. /\ native' = "running" /\ answer' = answer /\ index' \in 1..Last
        /\ socket' = [p \in Ports |-> IF p <= index' THEN "connecting" ELSE "none"]
        /\ Cardinality(Open') <= Concurrency
    BY <1>1, <1>3, StartStep
  <2>2. PortTypeOK'
    <3>1. aborted' \in BOOLEAN /\ timer' \in BOOLEAN
      BY <1>2 DEF ScanInv, PortTypeOK
    <3>. QED BY <1>2, <1>3, <2>1, <3>1 DEF ScanInv, PortTypeOK
  <2>3. Accounted' /\ Completed'
    BY <1>1, <1>2, <2>1 DEF ScanInv, Accounted, Completed, Ports
  <2>4. Started' /\ LateWorkIsTimeout'
    BY <1>1, <1>2, <1>3, <2>1 DEF Started, LateWorkIsTimeout
  <2>. QED BY <2>1, <2>2, <2>3, <2>4 DEF ScanInv, Bounded
<1>4. CASE scanner' = "none" /\ StartNative /\ aborted
  <2>1. /\ native' = "rejected" /\ UNCHANGED <<index, socket>>
        /\ answer' \in {answer, "aborted"} /\ Open' = {}
    BY <1>1, <1>4 DEF StartNative, Race, Open
  <2>2. PortTypeOK'
    <3>1. aborted' \in BOOLEAN /\ timer' \in BOOLEAN
      BY <1>2 DEF ScanInv, PortTypeOK
    <3>. QED BY <1>2, <1>4, <2>1, <3>1 DEF ScanInv, PortTypeOK
  <2>3. Accounted' /\ Completed' /\ Bounded'
    BY <1>1, <1>2, <2>1 DEF ScanInv, Accounted, Completed, Bounded
  <2>4. Started' /\ LateWorkIsTimeout'
    BY <1>1, <1>2, <1>4, <2>1 DEF Started, LateWorkIsTimeout
  <2>. QED BY <2>2, <2>3, <2>4 DEF ScanInv
<1>5. CASE scanner' = (IF aborted THEN "ended" ELSE "calling")
           /\ UNCHANGED <<native, index, socket, answer>>
  <2>1. Open' = {}
    BY <1>1, <1>5 DEF Open
  <2>2. PortTypeOK'
    <3>1. aborted' \in BOOLEAN /\ timer' \in BOOLEAN
      BY <1>2 DEF ScanInv, PortTypeOK
    <3>. QED BY <1>2, <1>5, <3>1 DEF ScanInv, PortTypeOK
  <2>3. Accounted' /\ Completed' /\ Bounded'
    BY <1>1, <1>2, <1>5, <2>1 DEF ScanInv, Accounted, Completed, Bounded
  <2>4. Started'
    BY <1>1, <1>2, <1>5, <2>1 DEF Started
  <2>5. LateWorkIsTimeout'
    BY <1>1, <1>5, <2>1 DEF LateWorkIsTimeout
  <2>. QED BY <2>2, <2>3, <2>4, <2>5 DEF ScanInv
<1>. QED BY <1>3, <1>4, <1>5 DEF Call

LEMMA NmapStep ==
  ASSUME ScanInv, Nmap
  PROVE  ScanInv'
<1>1. /\ scanner = "calling" /\ native = "idle" /\ ~aborted /\ Open = {}
      /\ answer \in {"none", "timeout"} /\ index = 0
  BY DEF Nmap, NmapAnswers, NmapFails, ScanInv, Started,
         LateWorkIsTimeout
<1>2. CASE NmapAnswers
  <2>1. /\ scanner' = "ended" /\ UNCHANGED <<socket, probed, index, native, aborted, timer>>
        /\ answer' \in {answer, "nmap"} /\ Open' = {}
    BY <1>1, <1>2 DEF NmapAnswers, Race, Open
  <2>2. PortTypeOK'
    BY <2>1 DEF ScanInv, PortTypeOK
  <2>3. Accounted' /\ Completed' /\ Bounded'
    BY <1>1, <2>1 DEF ScanInv, Accounted, Completed, Bounded
  <2>4. Started' /\ LateWorkIsTimeout'
    BY <1>1, <2>1 DEF Started, LateWorkIsTimeout
  <2>. QED BY <2>2, <2>3, <2>4 DEF ScanInv
<1>3. ASSUME NEW late \in BOOLEAN, NmapFails(late) PROVE ScanInv'
  <2>1. scanner' = "failed" /\ StartNative /\ UNCHANGED <<probed, aborted, timer>>
    BY <1>3 DEF NmapFails
  <2>2. /\ native' = "running" /\ answer' = answer /\ index' \in 1..Last
        /\ socket' = [p \in Ports |-> IF p <= index' THEN "connecting" ELSE "none"]
        /\ Cardinality(Open') <= Concurrency
    BY <1>1, <2>1, StartStep
  <2>3. PortTypeOK'
    BY <2>1, <2>2 DEF ScanInv, PortTypeOK
  <2>4. Accounted' /\ Completed'
    BY <1>1, <2>1, <2>2, SizeAssumption DEF ScanInv, Accounted, Completed, Ports, SizeAssumption
  <2>5. Started' /\ LateWorkIsTimeout'
    BY <1>1, <2>1, <2>2 DEF Started, LateWorkIsTimeout
  <2>. QED BY <2>2, <2>3, <2>4, <2>5 DEF ScanInv, Bounded
<1>. QED BY <1>2, <1>3 DEF Nmap

\* The abort stops everything; the handler's own timer stops nothing.
LEMMA TimerStep ==
  ASSUME ScanInv, Abort \/ GlobalTimeout
  PROVE  ScanInv'
<1>1. CASE Abort
  <2>1. /\ aborted' = TRUE /\ timer' = FALSE /\ answer' = "aborted" /\ answer = "none"
        /\ scanner' = (IF scanner = "calling" THEN "ended" ELSE scanner)
        /\ native' = (IF native = "running" THEN "rejected" ELSE native)
        /\ socket' = [p \in Ports |-> "none"] /\ UNCHANGED <<probed, index>>
    BY <1>1 DEF Abort
  <2>2. Open' = {}
    BY <2>1 DEF Open
  <2>3. PortTypeOK'
    <3>1. aborted' \in BOOLEAN /\ timer' \in BOOLEAN
      BY <2>1
    <3>. QED BY <2>1, <3>1 DEF ScanInv, PortTypeOK
  <2>4. Bounded'
    BY <2>2, FS_EmptySet, SizeAssumption DEF Bounded, SizeAssumption
  <2>5. Accounted'
    <3>1. CASE native = "running"
      BY <2>1, <3>1 DEF ScanInv, Accounted
    <3>2. CASE native # "running"
      <4>1. \A p \in Ports : socket[p] = "none"
        BY <3>2 DEF ScanInv, Started, Open
      <4>. QED BY <2>1, <3>2, <4>1 DEF ScanInv, Accounted
    <3>. QED BY <3>1, <3>2
  <2>6. Completed' /\ Started' /\ LateWorkIsTimeout'
    BY <2>1, <2>2 DEF ScanInv, Completed, Started, LateWorkIsTimeout
  <2>. QED BY <2>3, <2>4, <2>5, <2>6 DEF ScanInv
<1>2. CASE GlobalTimeout
  <2>1. /\ timer /\ timer' = FALSE /\ answer' = (IF answer = "none" THEN "timeout" ELSE answer)
        /\ UNCHANGED <<scanner, socket, probed, index, native, aborted>>
    BY <1>2 DEF GlobalTimeout, Race
  <2>2. PortTypeOK'
    <3>1. aborted' \in BOOLEAN /\ timer' \in BOOLEAN
      BY <2>1 DEF ScanInv, PortTypeOK
    <3>. QED BY <2>1, <3>1 DEF ScanInv, PortTypeOK
  <2>3. Accounted' /\ Completed' /\ Bounded'
    BY <2>1 DEF ScanInv, Accounted, Completed, Bounded, Open
  <2>4. Started' /\ LateWorkIsTimeout'
    BY <2>1 DEF ScanInv, Started, LateWorkIsTimeout, Open
  <2>. QED BY <2>2, <2>3, <2>4 DEF ScanInv
<1>. QED BY <1>1, <1>2

LEMMA ConnectsStep ==
  ASSUME ScanInv, NEW p \in Ports, Connects(p)
  PROVE  ScanInv'
<1>1. /\ socket[p] = "connecting" /\ socket' = [socket EXCEPT ![p] = "connected"]
      /\ UNCHANGED <<scanner, probed, index, native, aborted, timer, answer>>
  BY DEF Connects
<1>2. socket \in [Ports -> {"none", "connecting", "connected"}]
  BY DEF ScanInv, PortTypeOK
<1>3. Open' = Open
  BY <1>1, <1>2 DEF Open
<1>4. PortTypeOK'
  BY <1>1, <1>2 DEF ScanInv, PortTypeOK
<1>5. Accounted' /\ Completed'
  BY <1>1, <1>2 DEF ScanInv, Accounted, Completed
<1>6. Bounded' /\ Started' /\ LateWorkIsTimeout'
  BY <1>1, <1>3 DEF ScanInv, Bounded, Started, LateWorkIsTimeout
<1>. QED BY <1>4, <1>5, <1>6 DEF ScanInv

LEMMA ScanInductive == PortSpec => []ScanInv
<1>1. ScanInv /\ [PortNext]_(portVars) => ScanInv'
  <2>1. ScanInv /\ UNCHANGED portVars => ScanInv'
    BY DEF ScanInv, portVars, PortTypeOK, Accounted, Bounded, Completed, Started,
           LateWorkIsTimeout, Open
  <2>2. ScanInv /\ PortNext => ScanInv'
    BY CallStep, NmapStep, TimerStep, ConnectsStep, ProbedStep DEF PortNext
  <2>. QED BY <2>1, <2>2
<1>. QED BY <1>1, ScanInit, PTL DEF PortSpec

\* Every reachable state of a port scan has its type.
THEOREM PortsTypeCorrect == PortSpec => []PortTypeOK
<1>1. ScanInv => PortTypeOK
  BY DEF ScanInv
<1>. QED BY <1>1, ScanInductive, PTL

\* The TCP workers of one port scan share the list without losing or repeating
\* a port, whatever the number of ports and workers: every port taken has its
\* socket or its result, no more than MAX_CONCURRENT sockets are open, and the
\* scan is complete only with a result for every port.
THEOREM PortsShared == PortSpec => []PortsAccounted
<1>1. Cardinality(Open) = Cardinality(Open)
  BY DEF Cardinality, Cardinality
<1>2. ScanInv => PortsAccounted
  BY <1>1 DEF ScanInv, Accounted, Bounded, Completed, PortsAccounted
<1>. QED BY <1>2, ScanInductive, PTL

\* Only the handler's own timer leaves work behind an answer: an abort, a result
\* of nmap and a finished TCP scan do not.
THEOREM LateWork == PortSpec => []LateWorkIsTimeout
<1>1. ScanInv => LateWorkIsTimeout
  BY DEF ScanInv
<1>. QED BY <1>1, ScanInductive, PTL
=============================================================================

---------------------------- MODULE OnceDelivery ----------------------------
(***************************************************************************)
(* What the report scheduler promises about the outside world: the         *)
(* decision to deliver a run is made durable before its message goes out,  *)
(* the message goes out at most once, and a run that was given up before   *)
(* that decision never sends anything.                                     *)
(***************************************************************************)
EXTENDS Naturals

CONSTANT Runs

VARIABLES
    phase,  \* see Phase
    sent    \* how many times a run's message went out

\* "waiting"; "committed" to deliver; "settled" with a known outcome;
\* "dropped" before, or "forgotten" after the decision.
Phase == {"waiting", "committed", "settled", "dropped", "forgotten"}

OnceInit == phase = [r \in Runs |-> "waiting"] /\ sent = [r \in Runs |-> 0]

Commit(r) ==
    /\ phase[r] = "waiting"
    /\ phase' = [phase EXCEPT ![r] = "committed"]
    /\ UNCHANGED sent

Send(r) ==
    /\ phase[r] \in {"committed", "forgotten"} /\ sent[r] = 0
    /\ sent' = [sent EXCEPT ![r] = 1]
    /\ UNCHANGED phase

Settle(r) ==
    /\ phase[r] = "committed"
    /\ phase' = [phase EXCEPT ![r] = "settled"]
    /\ UNCHANGED sent

\* Some runs are given up or deleted.
GiveUp(S) ==
    /\ phase' = [r \in Runs |->
                    CASE r \in S /\ phase[r] \in {"waiting", "dropped"} -> "dropped"
                      [] r \in S /\ phase[r] \notin {"waiting", "dropped"} -> "forgotten"
                      [] r \notin S -> phase[r]]
    /\ UNCHANGED sent

OnceNext ==
    \/ \E r \in Runs : Commit(r) \/ Send(r) \/ Settle(r)
    \/ \E S \in SUBSET Runs : GiveUp(S)

OnceSpec == OnceInit /\ [][OnceNext]_<<phase, sent>>
=============================================================================

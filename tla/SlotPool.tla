------------------------------ MODULE SlotPool ------------------------------
(***************************************************************************)
(* What a limiter of the scan service promises to those who ask for its    *)
(* slots: no more hold one than there are, nobody waits while one is free, *)
(* they are served in the order in which they asked, whoever gives up in   *)
(* between, and nobody who asks later overtakes one who waits.             *)
(***************************************************************************)
EXTENDS Naturals, Sequences, FiniteSets

CONSTANTS Callers, Slots

VARIABLES
    holding, \* those to whom a slot belongs
    line     \* those who wait for one, the first in front

InLine(c) == \E i \in 1..Len(line) : line[i] = c

PoolInit == holding = {} /\ line = <<>>

AskFree(c) ==
    /\ c \notin holding /\ line = <<>> /\ Cardinality(holding) < Slots
    /\ holding' = holding \cup {c} /\ UNCHANGED line

AskFull(c) ==
    /\ c \notin holding /\ ~ InLine(c) /\ Cardinality(holding) = Slots
    /\ line' = Append(line, c) /\ UNCHANGED holding

\* Those behind move up.
GiveUp(c) ==
    /\ \E i \in 1..Len(line) :
         /\ line[i] = c
         /\ line' = [k \in 1..Len(line) - 1 |-> IF k < i THEN line[k] ELSE line[k + 1]]
    /\ UNCHANGED holding

\* The slot passes to the first in line.
GiveBack(c) ==
    /\ c \in holding
    /\ \/ line = <<>> /\ holding' = holding \ {c} /\ UNCHANGED line
       \/ /\ line # <<>> /\ line' = Tail(line)
          /\ holding' = (holding \ {c}) \cup {Head(line)}

PoolNext == \E c \in Callers : AskFree(c) \/ AskFull(c) \/ GiveUp(c) \/ GiveBack(c)

PoolSpec == PoolInit /\ [][PoolNext]_<<holding, line>>
=============================================================================

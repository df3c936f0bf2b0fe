--------------------------- MODULE MCSignalPipeline ---------------------------
(* Instances of SignalPipeline for TLC: two states of one node on the first *)
(* queue, the later one with relationships; one of another on the second.   *)
EXTENDS SignalPipeline

CONSTANTS a1, a2, q1, q2, e1, e2

MCQueueOf == [s \in Signal |-> IF s \in {a1, a2} THEN q1 ELSE q2]
MCEntityOf == [s \in Signal |-> IF s \in {a1, a2} THEN e1 ELSE e2]
MCEventTime == [s \in Signal |-> IF s = a2 THEN 2 ELSE 1]

=============================================================================

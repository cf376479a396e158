--------------------------- MODULE MCIntegration ---------------------------
(* Small states and commands for Integration.                              *)
EXTENDS Integration

MCStarts == {Zero, [i \in Indices |-> i], [i \in Indices |-> IF i % 2 = 0 THEN -1 ELSE 2]}
MCControls == {[i \in 0 .. 3 |-> 0], [i \in 0 .. 3 |-> i + 1], [i \in 0 .. 3 |-> 2 - i]}
=============================================================================

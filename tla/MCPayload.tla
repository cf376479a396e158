------------------------------ MODULE MCPayload ------------------------------
(* Patterns for Payload with bytes of two bits and the field of 251, the    *)
(* greatest prime that a word of eight bits holds.                          *)
EXTENDS Payload

MCPatterns ==
  {[i \in 1 .. 13 |-> (k * k * i * i + 17 * k * i + 29 * i * i * i + 3 * k) % P] : k \in 0 .. 11}
MCTanh(a) == (a * a * 7 + 3 * a + 5) % P
=============================================================================

---------------------------- MODULE ResultService ----------------------------
(***************************************************************************)
(* What the server promises about its answers, with no threads and no      *)
(* stock: results are computed in order and never more than two ahead of   *)
(* the answers, and the m-th answer carries the result of round m or, when *)
(* that one was overwritten before it was sent, of round m + 1.            *)
(***************************************************************************)
EXTENDS Naturals, Sequences

VARIABLES computed,   \* rounds whose result has been computed
          answers     \* the round each datagram sent so far stands for

vars == <<computed, answers>>

Init == computed = 0 /\ answers = <<>>

Compute == /\ computed <= Len(answers) + 1
           /\ computed' = computed + 1
           /\ UNCHANGED answers

Answer == \E round \in {Len(answers) + 1, Len(answers) + 2} :
            /\ round <= computed
            /\ answers' = Append(answers, round)
            /\ UNCHANGED computed

Next == Compute \/ Answer

Spec == Init /\ [][Next]_vars
=============================================================================

---------------------------- MODULE BinarySignal ----------------------------
(***************************************************************************)
(* What a ThreadConditionPack promises its users, with no mutex and no     *)
(* condition variable: one flag that a signaller raises and that a wait    *)
(* consumes, both atomically, somewhere between the call and the return.   *)
(* Two raises that no wait separates merge into one.                       *)
(***************************************************************************)
CONSTANTS Waiters,        \* threads that call wait_with_pack
          Signallers,     \* threads that call signal_with_pack
          InitVerifVar    \* the flag's initial value

VARIABLES flag,           \* TRUE: a raise that no wait has consumed yet
          phase           \* where each thread is in its call

vars == <<flag, phase>>

Threads == Waiters \cup Signallers

TypeOK == /\ flag \in BOOLEAN
          /\ phase \in [Threads -> {"idle", "pending", "done"}]

Init == /\ flag = InitVerifVar
        /\ phase = [t \in Threads |-> "idle"]

Begin(t) == /\ phase[t] = "idle"
            /\ phase' = [phase EXCEPT ![t] = "pending"]
            /\ UNCHANGED flag

Take(w) == /\ phase[w] = "pending"
           /\ flag
           /\ flag' = FALSE
           /\ phase' = [phase EXCEPT ![w] = "done"]

Raise(s) == /\ phase[s] = "pending"
            /\ flag' = TRUE
            /\ phase' = [phase EXCEPT ![s] = "done"]

Return(t) == /\ phase[t] = "done"
             /\ phase' = [phase EXCEPT ![t] = "idle"]
             /\ UNCHANGED flag

Next == \/ \E t \in Threads : Begin(t) \/ Return(t)
        \/ \E w \in Waiters : Take(w)
        \/ \E s \in Signallers : Raise(s)

Spec == Init /\ [][Next]_vars
=============================================================================

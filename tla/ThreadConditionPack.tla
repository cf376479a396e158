------------------------- MODULE ThreadConditionPack -------------------------
(***************************************************************************)
(* One ThreadConditionPack - a mutex, a condition variable and the int     *)
(* cond_to_verify - and the threads that call wait_with_pack and           *)
(* signal_with_pack on it (client/threading_stuff.c).  The server has the  *)
(* same two bodies inlined under eight names (wait_listener,               *)
(* wait_until_calc_reads, wait_for_calculator, wait_for_sender,            *)
(* signal_listener, signal_listener_ready, signal_calculated,              *)
(* signal_sender_ready); this module stands for all of them.               *)
(*                                                                         *)
(* A step is one call into pthreads or one access to cond_to_verify.       *)
(*                                                                         *)
(* Definitions marked "Mistake:" are not the code's: PROJECT.json's        *)
(* mutants put them in the place of the definition that follows.           *)
(***************************************************************************)
EXTENDS Naturals

CONSTANTS Waiters,        \* threads that call wait_with_pack
          Signallers,     \* threads that call signal_with_pack
          NoThread,       \* the mutex is free
          InitVerifVar,   \* initialize_thread_cond_pack's argument
          MaxCalls,       \* bound: calls each thread makes
          MaxSpurious     \* bound: spurious wake-ups in a behaviour

Threads == Waiters \cup Signallers

ASSUME PackAssumption == /\ Waiters \cap Signallers = {}
                         /\ NoThread \notin Threads
                         /\ InitVerifVar \in BOOLEAN
                         /\ MaxCalls \in Nat
                         /\ MaxSpurious \in Nat

VARIABLES cond_to_verify, \* the predicate the waiters loop on
          mutex,          \* mutex_to_use: the thread that holds it, or NoThread
          at,             \* each thread's next statement
          calls,          \* calls each thread has made
          spurious        \* spurious wake-ups so far

vars == <<cond_to_verify, mutex, at, calls, spurious>>

-----------------------------------------------------------------------------
(* Statements.  "asleep" is inside pthread_cond_wait, "relock" is          *)
(* pthread_cond_wait taking the mutex back before it returns.              *)

WaiterAt    == {"idle", "lock", "check", "asleep", "relock", "clear", "unlock"}
SignallerAt == {"idle", "lock", "set", "notify", "unlock"}

Asleep == {w \in Waiters : at[w] = "asleep"}

Init == /\ cond_to_verify = InitVerifVar
        /\ mutex = NoThread
        /\ at = [t \in Threads |-> "idle"]
        /\ calls = [t \in Threads |-> 0]
        /\ spurious = 0

Goto(t, there) == at' = [at EXCEPT ![t] = there]

\* Mistake: signal_with_pack without the mutex.
UnlockedEntry(t) == IF t \in Signallers THEN "set" ELSE "lock"
\* The first statement of both functions is pthread_mutex_lock.
Entry(t) == "lock"

Call(t) == /\ at[t] = "idle"
           /\ calls[t] < MaxCalls
           /\ calls' = [calls EXCEPT ![t] = @ + 1]
           /\ Goto(t, Entry(t))
           /\ UNCHANGED <<cond_to_verify, mutex, spurious>>

\* Mistake: every thread runs signal_with_pack's body.
AlwaysSignals(t) == "set"
AfterLock(t) == IF t \in Waiters THEN "check" ELSE "set"

Lock(t) == /\ at[t] = "lock"
           /\ mutex = NoThread
           /\ mutex' = t
           /\ Goto(t, AfterLock(t))
           /\ UNCHANGED <<cond_to_verify, calls, spurious>>

\* Mistake: "if" in the place of "while".
IfAfterWakeUp == "clear"
\* pthread_cond_wait has returned: "while" evaluates is_cond_false again.
AfterWakeUp == "check"

Relock(w) == /\ at[w] = "relock"
             /\ mutex = NoThread
             /\ mutex' = w
             /\ Goto(w, AfterWakeUp)
             /\ UNCHANGED <<cond_to_verify, calls, spurious>>

\* is_cond_false: release the mutex and block, in one step.
CondWait(w) == /\ at[w] = "check"
               /\ ~cond_to_verify
               /\ mutex' = NoThread
               /\ Goto(w, "asleep")
               /\ UNCHANGED <<cond_to_verify, calls, spurious>>

LeaveLoop(w) == /\ at[w] = "check"
                /\ cond_to_verify
                /\ Goto(w, "clear")
                /\ UNCHANGED <<cond_to_verify, mutex, calls, spurious>>

Clear(w) == /\ at[w] = "clear"
            /\ cond_to_verify' = FALSE
            /\ Goto(w, "unlock")
            /\ UNCHANGED <<mutex, calls, spurious>>

Set(s) == /\ at[s] = "set"
          /\ cond_to_verify' = TRUE
          /\ Goto(s, "notify")
          /\ UNCHANGED <<mutex, calls, spurious>>

\* Mistake: no pthread_cond_signal.
WakesNobody(woken) == woken = {}
\* pthread_cond_signal unblocks at least one of the threads blocked on cond_var.
WakesSome(woken) == woken = {} => Asleep = {}

CondSignal(s) ==
  /\ at[s] = "notify"
  /\ \E woken \in SUBSET Asleep :
       /\ WakesSome(woken)
       /\ at' = [t \in Threads |-> IF t = s THEN "unlock"
                                   ELSE IF t \in woken THEN "relock"
                                   ELSE at[t]]
  /\ UNCHANGED <<cond_to_verify, mutex, calls, spurious>>

Unlock(t) == /\ at[t] = "unlock"
             /\ mutex' = NoThread
             /\ Goto(t, "idle")
             /\ UNCHANGED <<cond_to_verify, calls, spurious>>

\* POSIX lets pthread_cond_wait return although nobody signalled.
SpuriousWakeUp(w) == /\ at[w] = "asleep"
                     /\ spurious < MaxSpurious
                     /\ spurious' = spurious + 1
                     /\ Goto(w, "relock")
                     /\ UNCHANGED <<cond_to_verify, mutex, calls>>

Shared(t) == Lock(t) \/ Unlock(t)
WaitWithPack(w) == Shared(w) \/ Relock(w) \/ CondWait(w) \/ LeaveLoop(w) \/ Clear(w)
SignalWithPack(s) == Shared(s) \/ Set(s) \/ CondSignal(s)

Next == \/ \E t \in Threads : Call(t)
        \/ \E w \in Waiters : WaitWithPack(w) \/ SpuriousWakeUp(w)
        \/ \E s \in Signallers : SignalWithPack(s)

Spec == Init /\ [][Next]_vars

\* A thread inside one of the two functions keeps running.  Calls and spurious
\* wake-ups may stop at any time.
Fairness == /\ \A w \in Waiters : WF_vars(WaitWithPack(w))
            /\ \A s \in Signallers : WF_vars(SignalWithPack(s))

FairSpec == Spec /\ Fairness

-----------------------------------------------------------------------------
TypeOK == /\ cond_to_verify \in BOOLEAN
          /\ mutex \in Threads \cup {NoThread}
          /\ at \in [Threads -> WaiterAt \cup SignallerAt]
          /\ \A w \in Waiters : at[w] \in WaiterAt
          /\ \A s \in Signallers : at[s] \in SignallerAt
          /\ calls \in [Threads -> 0 .. MaxCalls]
          /\ spurious \in 0 .. MaxSpurious

InCriticalSection(t) == at[t] \in {"check", "clear", "set", "notify", "unlock"}

\* The threads between lock and unlock are exactly the holder of the mutex, so
\* no two threads access cond_to_verify at once (wait_with_pack, signal_with_pack).
MutualExclusion == \A t \in Threads : InCriticalSection(t) <=> mutex = t

\* No signal is lost between the test in "while" and the sleep: when the flag is
\* up and no signaller is about to notify, a thread that sleeps is not alone:
\* some waiter is on its way to the test and will find the flag up.
NoLostWakeUp ==
  (cond_to_verify /\ \A s \in Signallers : at[s] # "notify")
     => \/ Asleep = {}
        \/ \E w \in Waiters : at[w] \in {"relock", "check", "clear"}

\* A waiter about to clear the flag still finds it up: it held the mutex since the
\* test in "while", so it never consumes a signal that another waiter consumed.
ClearSeesFlag == \A w \in Waiters : at[w] = "clear" => cond_to_verify

\* A raised flag is consumed as long as some thread is waiting for it, even if
\* the waiter went to sleep before the signal and whatever spurious wake-ups do.
SignalIsConsumed ==
  (cond_to_verify /\ \E w \in Waiters : at[w] \notin {"idle", "unlock"})
     ~> ~cond_to_verify

-----------------------------------------------------------------------------
(* Refinement: a call takes effect at Clear (wait) or at Set (signal).     *)

PhaseOf(t) == IF at[t] = "idle" THEN "idle"
              ELSE IF at[t] \in {"notify", "unlock"} THEN "done"
              ELSE "pending"

phaseBar == [t \in Threads |-> PhaseOf(t)]

Abstract == INSTANCE BinarySignal WITH flag <- cond_to_verify, phase <- phaseBar

\* wait_with_pack and signal_with_pack behave as one atomic Take and one atomic
\* Raise: a wait never returns without a raise of its own to consume.
ImplementsBinarySignal == Abstract!Spec
=============================================================================

--------------------- MODULE ThreadConditionPack_proofs ---------------------
(***************************************************************************)
(* Proofs about ThreadConditionPack, for any number of waiters, signallers *)
(* and calls: mutual exclusion, no lost wake-up, and that the two          *)
(* functions implement BinarySignal.                                       *)
(***************************************************************************)
EXTENDS ThreadConditionPack, TLAPS

\* The inductive invariant.  Clear takes effect on a flag that is still up only
\* because of the mutex, so the refinement needs all of it.
IInv == TypeOK /\ MutualExclusion /\ ClearSeesFlag /\ NoLostWakeUp

\* Initially nobody is in a call, so the invariant holds whatever the flag is.
LEMMA InitIInv == Init => IInv
  BY PackAssumption
  DEF Init, IInv, TypeOK, MutualExclusion, ClearSeesFlag, NoLostWakeUp, Asleep,
      InCriticalSection, WaiterAt, SignallerAt, Threads

\* The types are preserved by every step of wait_with_pack and signal_with_pack.
LEMMA TypeStep == TypeOK /\ [Next]_vars => TypeOK'
  <1> SUFFICES ASSUME TypeOK, [Next]_vars PROVE TypeOK'
    OBVIOUS
  <1> USE PackAssumption DEF TypeOK, WaiterAt, SignallerAt, Threads, Goto
  <1>1. ASSUME NEW t \in Threads, Call(t) PROVE TypeOK'
    BY <1>1 DEF Call, Entry
  <1>2. ASSUME NEW t \in Threads, Lock(t) PROVE TypeOK'
    BY <1>2 DEF Lock, AfterLock
  <1>3. ASSUME NEW w \in Waiters, Relock(w) PROVE TypeOK'
    BY <1>3 DEF Relock, AfterWakeUp
  <1>4. ASSUME NEW w \in Waiters, CondWait(w) PROVE TypeOK'
    BY <1>4 DEF CondWait
  <1>5. ASSUME NEW w \in Waiters, LeaveLoop(w) PROVE TypeOK'
    BY <1>5 DEF LeaveLoop
  <1>6. ASSUME NEW w \in Waiters, Clear(w) PROVE TypeOK'
    BY <1>6 DEF Clear
  <1>7. ASSUME NEW s \in Signallers, Set(s) PROVE TypeOK'
    BY <1>7 DEF Set
  <1>8. ASSUME NEW s \in Signallers, CondSignal(s) PROVE TypeOK'
    BY <1>8 DEF CondSignal, Asleep
  <1>9. ASSUME NEW t \in Threads, Unlock(t) PROVE TypeOK'
    BY <1>9 DEF Unlock
  <1>10. ASSUME NEW w \in Waiters, SpuriousWakeUp(w) PROVE TypeOK'
    BY <1>10 DEF SpuriousWakeUp
  <1>11. CASE UNCHANGED vars
    BY <1>11 DEF vars
  <1> QED
    BY <1>1, <1>2, <1>3, <1>4, <1>5, <1>6, <1>7, <1>8, <1>9, <1>10, <1>11
    DEF Next, WaitWithPack, SignalWithPack, Shared

\* Only Lock and Relock enter the critical section, and both need a free mutex.
LEMMA MutexStep == TypeOK /\ MutualExclusion /\ [Next]_vars => MutualExclusion'
  <1> SUFFICES ASSUME TypeOK, MutualExclusion, [Next]_vars
               PROVE  MutualExclusion'
    OBVIOUS
  <1> USE PackAssumption DEF TypeOK, MutualExclusion, InCriticalSection,
                             WaiterAt, SignallerAt, Threads, Goto
  <1>1. ASSUME NEW t \in Threads, Call(t) PROVE MutualExclusion'
    BY <1>1 DEF Call, Entry
  <1>2. ASSUME NEW t \in Threads, Lock(t) PROVE MutualExclusion'
    BY <1>2 DEF Lock, AfterLock
  <1>3. ASSUME NEW w \in Waiters, Relock(w) PROVE MutualExclusion'
    BY <1>3 DEF Relock, AfterWakeUp
  <1>4. ASSUME NEW w \in Waiters, CondWait(w) PROVE MutualExclusion'
    BY <1>4 DEF CondWait
  <1>5. ASSUME NEW w \in Waiters, LeaveLoop(w) PROVE MutualExclusion'
    BY <1>5 DEF LeaveLoop
  <1>6. ASSUME NEW w \in Waiters, Clear(w) PROVE MutualExclusion'
    BY <1>6 DEF Clear
  <1>7. ASSUME NEW s \in Signallers, Set(s) PROVE MutualExclusion'
    BY <1>7 DEF Set
  <1>8. ASSUME NEW s \in Signallers, CondSignal(s) PROVE MutualExclusion'
    BY <1>8 DEF CondSignal, Asleep
  <1>9. ASSUME NEW t \in Threads, Unlock(t) PROVE MutualExclusion'
    BY <1>9 DEF Unlock
  <1>10. ASSUME NEW w \in Waiters, SpuriousWakeUp(w) PROVE MutualExclusion'
    BY <1>10 DEF SpuriousWakeUp
  <1>11. CASE UNCHANGED vars
    BY <1>11 DEF vars
  <1> QED
    BY <1>1, <1>2, <1>3, <1>4, <1>5, <1>6, <1>7, <1>8, <1>9, <1>10, <1>11
    DEF Next, WaitWithPack, SignalWithPack, Shared

\* Clear is the only step that lowers the flag and its thread holds the mutex,
\* so no other waiter is at "clear" then.
LEMMA ClearStep == IInv /\ [Next]_vars => ClearSeesFlag'
  <1> SUFFICES ASSUME IInv, [Next]_vars PROVE ClearSeesFlag'
    OBVIOUS
  <1> USE PackAssumption DEF IInv, TypeOK, ClearSeesFlag, WaiterAt, SignallerAt,
                             Threads, Goto
  <1>1. ASSUME NEW t \in Threads, Call(t) PROVE ClearSeesFlag'
    BY <1>1 DEF Call, Entry
  <1>2. ASSUME NEW t \in Threads, Lock(t) PROVE ClearSeesFlag'
    BY <1>2 DEF Lock, AfterLock
  <1>3. ASSUME NEW w \in Waiters, Relock(w) PROVE ClearSeesFlag'
    BY <1>3 DEF Relock, AfterWakeUp
  <1>4. ASSUME NEW w \in Waiters, CondWait(w) PROVE ClearSeesFlag'
    BY <1>4 DEF CondWait
  <1>5. ASSUME NEW w \in Waiters, LeaveLoop(w) PROVE ClearSeesFlag'
    BY <1>5 DEF LeaveLoop
  <1>6. ASSUME NEW w \in Waiters, Clear(w) PROVE ClearSeesFlag'
    <2>1. mutex = w
      BY <1>6 DEF Clear, MutualExclusion, InCriticalSection
    <2> QED
      BY <1>6, <2>1 DEF Clear, MutualExclusion, InCriticalSection
  <1>7. ASSUME NEW s \in Signallers, Set(s) PROVE ClearSeesFlag'
    BY <1>7 DEF Set
  <1>8. ASSUME NEW s \in Signallers, CondSignal(s) PROVE ClearSeesFlag'
    BY <1>8 DEF CondSignal, Asleep
  <1>9. ASSUME NEW t \in Threads, Unlock(t) PROVE ClearSeesFlag'
    BY <1>9 DEF Unlock
  <1>10. ASSUME NEW w \in Waiters, SpuriousWakeUp(w) PROVE ClearSeesFlag'
    BY <1>10 DEF SpuriousWakeUp
  <1>11. CASE UNCHANGED vars
    BY <1>11 DEF vars
  <1> QED
    BY <1>1, <1>2, <1>3, <1>4, <1>5, <1>6, <1>7, <1>8, <1>9, <1>10, <1>11
    DEF Next, WaitWithPack, SignalWithPack, Shared

\* The flag goes up with its signaller at "notify", and leaves "notify" only by
\* waking a sleeper; a sleeper goes to sleep only while the flag is down.
LEMMA WakeUpStep == IInv /\ [Next]_vars => NoLostWakeUp'
  <1> SUFFICES ASSUME IInv, [Next]_vars PROVE NoLostWakeUp'
    OBVIOUS
  <1> USE PackAssumption DEF IInv, TypeOK, NoLostWakeUp, Asleep, WaiterAt,
                             SignallerAt, Threads, Goto
  <1>1. ASSUME NEW t \in Threads, Call(t) PROVE NoLostWakeUp'
    BY <1>1 DEF Call, Entry
  <1>2. ASSUME NEW t \in Threads, Lock(t) PROVE NoLostWakeUp'
    BY <1>2 DEF Lock, AfterLock
  <1>3. ASSUME NEW w \in Waiters, Relock(w) PROVE NoLostWakeUp'
    BY <1>3 DEF Relock, AfterWakeUp
  <1>4. ASSUME NEW w \in Waiters, CondWait(w) PROVE NoLostWakeUp'
    BY <1>4 DEF CondWait
  <1>5. ASSUME NEW w \in Waiters, LeaveLoop(w) PROVE NoLostWakeUp'
    BY <1>5 DEF LeaveLoop
  <1>6. ASSUME NEW w \in Waiters, Clear(w) PROVE NoLostWakeUp'
    BY <1>6 DEF Clear
  <1>7. ASSUME NEW s \in Signallers, Set(s) PROVE NoLostWakeUp'
    BY <1>7 DEF Set
  <1>8. ASSUME NEW s \in Signallers, CondSignal(s) PROVE NoLostWakeUp'
    <2>1. PICK woken \in SUBSET Asleep :
            /\ woken = {} => Asleep = {}
            /\ at' = [t \in Threads |-> IF t = s THEN "unlock"
                                        ELSE IF t \in woken THEN "relock"
                                        ELSE at[t]]
      BY <1>8 DEF CondSignal, WakesSome
    <2>2. CASE Asleep = {}
      <3>1. Asleep' = {}
        BY <2>1, <2>2
      <3> QED
        BY <3>1
    <2>3. CASE Asleep # {}
      <3>1. PICK w \in woken : w \in Waiters
        BY <2>1, <2>3
      <3>2. at'[w] = "relock"
        BY <2>1, <3>1
      <3> QED
        BY <3>1, <3>2
    <2> QED
      BY <2>2, <2>3
  <1>9. ASSUME NEW t \in Threads, Unlock(t) PROVE NoLostWakeUp'
    BY <1>9 DEF Unlock
  <1>10. ASSUME NEW w \in Waiters, SpuriousWakeUp(w) PROVE NoLostWakeUp'
    BY <1>10 DEF SpuriousWakeUp
  <1>11. CASE UNCHANGED vars
    BY <1>11 DEF vars
  <1> QED
    BY <1>1, <1>2, <1>3, <1>4, <1>5, <1>6, <1>7, <1>8, <1>9, <1>10, <1>11
    DEF Next, WaitWithPack, SignalWithPack, Shared

\* The inductive invariant holds in every behaviour of any set of threads.
THEOREM InvariantHolds == Spec => []IInv
  <1>1. IInv /\ [Next]_vars => IInv'
    BY TypeStep, MutexStep, ClearStep, WakeUpStep DEF IInv
  <1> QED
    BY InitIInv, <1>1, PTL DEF Spec

\* Types hold for any set of threads (wait_with_pack, signal_with_pack).
THEOREM TypeCorrect == Spec => []TypeOK
  BY InvariantHolds, PTL DEF IInv

\* No two threads access one pack's cond_to_verify at once.
THEOREM MutexCorrect == Spec => []MutualExclusion
  BY InvariantHolds, PTL DEF IInv

\* A waiter consumes only a flag that is up when it clears it.
THEOREM ClearCorrect == Spec => []ClearSeesFlag
  BY InvariantHolds, PTL DEF IInv

\* A raised flag never leaves every waiter asleep with no wake-up on its way.
THEOREM WakeUpCorrect == Spec => []NoLostWakeUp
  BY InvariantHolds, PTL DEF IInv

\* A fresh pack is a fresh BinarySignal.
LEMMA RefinedInit == Init => Abstract!Init
  BY DEF Init, Abstract!Init, phaseBar, PhaseOf, Threads, Abstract!Threads

\* Every step of the pack is a BinarySignal step or leaves its variables alone.
LEMMA RefinedStep == IInv /\ [Next]_vars => [Abstract!Next]_(Abstract!vars)
  <1> SUFFICES ASSUME IInv, [Next]_vars
               PROVE  [Abstract!Next]_(Abstract!vars)
    OBVIOUS
  <1> DEFINE Same == UNCHANGED <<cond_to_verify, phaseBar>>
  <1> USE PackAssumption DEF IInv, TypeOK, WaiterAt, SignallerAt, Threads, Goto,
                             phaseBar, PhaseOf, Abstract!Threads
  <1>1. ASSUME NEW t \in Threads, Call(t) PROVE Abstract!Begin(t)
    BY <1>1 DEF Call, Entry, Abstract!Begin
  <1>2. ASSUME NEW t \in Threads, Lock(t) PROVE Same
    BY <1>2 DEF Lock, AfterLock
  <1>3. ASSUME NEW w \in Waiters, Relock(w) PROVE Same
    BY <1>3 DEF Relock, AfterWakeUp
  <1>4. ASSUME NEW w \in Waiters, CondWait(w) PROVE Same
    BY <1>4 DEF CondWait
  <1>5. ASSUME NEW w \in Waiters, LeaveLoop(w) PROVE Same
    BY <1>5 DEF LeaveLoop
  <1>6. ASSUME NEW w \in Waiters, Clear(w) PROVE Abstract!Take(w)
    BY <1>6 DEF Clear, ClearSeesFlag, Abstract!Take
  <1>7. ASSUME NEW s \in Signallers, Set(s) PROVE Abstract!Raise(s)
    BY <1>7 DEF Set, Abstract!Raise
  <1>8. ASSUME NEW s \in Signallers, CondSignal(s) PROVE Same
    BY <1>8 DEF CondSignal, Asleep
  <1>9. ASSUME NEW t \in Threads, Unlock(t) PROVE Abstract!Return(t)
    BY <1>9 DEF Unlock, Abstract!Return
  <1>10. ASSUME NEW w \in Waiters, SpuriousWakeUp(w) PROVE Same
    BY <1>10 DEF SpuriousWakeUp
  <1>11. CASE UNCHANGED vars
    BY <1>11 DEF vars, Abstract!vars
  <1> QED
    BY <1>1, <1>2, <1>3, <1>4, <1>5, <1>6, <1>7, <1>8, <1>9, <1>10, <1>11
    DEF Next, WaitWithPack, SignalWithPack, Shared, Abstract!Next, Abstract!vars

\* wait_with_pack and signal_with_pack implement an atomic Take and Raise, for
\* any number of threads: what the models of the two programs assume of a pack.
THEOREM PackImplementsSignal == Spec => ImplementsBinarySignal
  <1>1. Spec => []IInv
    BY InvariantHolds
  <1> QED
    BY <1>1, RefinedInit, RefinedStep, PTL
    DEF Spec, ImplementsBinarySignal, Abstract!Spec
=============================================================================

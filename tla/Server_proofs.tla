---------------------------- MODULE Server_proofs ----------------------------
(***************************************************************************)
(* Proofs about Server, for any number of requests and lost datagrams: the *)
(* stock is never raced for, no batch is overwritten or read twice, every  *)
(* answer is that of its request or of the next, and the server implements *)
(* ResultService.                                                          *)
(***************************************************************************)
EXTENDS Server, TLAPS

\* The invariant holds once the threads have passed the barrier.
LEMMA InitIInv == Init => IInv
  BY ServerAssumption
  DEF Init, FirstStatement, FirstRound, IInv, TypeOK, Threads, Listeners, LISTENER_FIRST, LISTENER_SECOND,
      Calculator, Sender, ListenerAt, CalculatorAt, SenderAt, Batches, Packs,
      InitiallyRaised, listener_signal, calc_to_listener_signal,
      SlotHasOneOwner, Free, Filling, Full, Emptying, SlotHoldsBatch, Cleaned,
      ResultHasOneOwner, Sent, HandingOver, ToSend, Sending, computedBar,
      BatchesKeepOrder, KeepsOrder, Copied, Unread, Holding, BatchesRead, BatchesStored,
      BatchesReceived, ResultsKeepOrder

\* Every step of a thread or of the network keeps the types.
LEMMA TypeStep == TypeOK /\ [Next]_vars => TypeOK'
  <1> SUFFICES ASSUME TypeOK, [Next]_vars PROVE TypeOK'
    OBVIOUS
  <1> USE ServerAssumption
      DEF TypeOK, Threads, Listeners, LISTENER_FIRST, LISTENER_SECOND,
          Calculator, Sender, ListenerAt, CalculatorAt, SenderAt, Batches, Packs,
          listener_signal, calc_to_listener_signal, Step, EachListener, Wait,
          Signal, network, stocks, locals
  <1>1. ASSUME NEW l \in Listeners, Arrive(l) PROVE TypeOK'
    <2>1. requested[l] + 1 \in Requests
      BY <1>1 DEF Arrive, MayRequest, Requests
    <2>2. Append(inbox[l], requested[l] + 1) \in Seq(Requests)
      BY <2>1
    <2> QED
      BY <1>1, <2>1, <2>2 DEF Arrive, Requests
  <1>2. ASSUME NEW l \in Listeners, Lose(l) PROVE TypeOK'
    <2>1. /\ lost[l] + 1 \in 0 .. MaxLost
          /\ requested[l] + 1 \in 0 .. MaxRequests
      BY <1>2 DEF Lose, MayRequest
    <2> QED
      BY <1>2, <2>1 DEF Lose
  <1>3. ASSUME NEW l \in Listeners, ReceivePacket(l) PROVE TypeOK'
    BY <1>3 DEF ReceivePacket, AfterReceive
  <1>4. ASSUME NEW l \in Listeners, WaitUntilCalcReads(l) PROVE TypeOK'
    BY <1>4 DEF WaitUntilCalcReads, AfterCalcReads
  <1>5. ASSUME NEW l \in Listeners, LockStock(l) PROVE TypeOK'
    BY <1>5 DEF LockStock
  <1>6. ASSUME NEW l \in Listeners, StoreBatch(l) PROVE TypeOK'
    BY <1>6 DEF StoreBatch
  <1>7. ASSUME NEW l \in Listeners, UnlockStock(l) PROVE TypeOK'
    BY <1>7 DEF UnlockStock
  <1>8. ASSUME NEW l \in Listeners, SignalListenerReady(l) PROVE TypeOK'
    BY <1>8 DEF SignalListenerReady
  <1>9. CASE WaitListener
    BY <1>9 DEF WaitListener
  <1>10. CASE ReadBatches
    BY <1>10 DEF ReadBatches
  <1>11. CASE CleanBatchStock
    BY <1>11 DEF CleanBatchStock
  <1>12. CASE SignalListener
    BY <1>12 DEF SignalListener
  <1>13. CASE CalculateRes
    <2>1. [round |-> rounds, from |-> batch] \in Results
      BY DEF Results
    <2> QED
      BY <1>13, <2>1 DEF CalculateRes, AfterCalculate
  <1>14. CASE WaitForSender
    BY <1>14 DEF WaitForSender
  <1>15. CASE SignalCalculated
    BY <1>15 DEF SignalCalculated
  <1>16. CASE WaitForCalculator
    BY <1>16 DEF WaitForCalculator
  <1>17. CASE ReadCalculations
    BY <1>17 DEF ReadCalculations
  <1>18. CASE SendCalcs
    BY <1>18 DEF SendCalcs
  <1>19. CASE SendFails
    BY <1>19 DEF SendFails
  <1>20. CASE SignalSenderReady
    BY <1>20 DEF SignalSenderReady
  <1>21. CASE UNCHANGED vars
    BY <1>21 DEF vars, network, stocks, locals
  <1> QED
    BY <1>1, <1>2, <1>3, <1>4, <1>5, <1>6, <1>7, <1>8, <1>9, <1>10, <1>11,
       <1>12, <1>13, <1>14, <1>15, <1>16, <1>17, <1>18, <1>19, <1>20, <1>21
    DEF Next, RunListener, RunCalculator, RunSender

\* The hand-over of a slot: each pack is raised by the thread that gives the slot
\* away and lowered by the one that takes it.
LEMMA OwnerStep == TypeOK /\ SlotHasOneOwner /\ [Next]_vars => SlotHasOneOwner'
  <1> SUFFICES ASSUME TypeOK, SlotHasOneOwner, [Next]_vars
               PROVE  SlotHasOneOwner'
    OBVIOUS
  <1> USE ServerAssumption
      DEF TypeOK, SlotHasOneOwner, Free, Filling, Full, Emptying, Threads,
          Listeners, LISTENER_FIRST, LISTENER_SECOND, Calculator, Sender,
          listener_signal, calc_to_listener_signal, Step, EachListener, Wait,
          Signal, network, stocks, locals
  <1>1. ASSUME NEW l \in Listeners, Arrive(l) PROVE SlotHasOneOwner'
    BY <1>1 DEF Arrive
  <1>2. ASSUME NEW l \in Listeners, Lose(l) PROVE SlotHasOneOwner'
    BY <1>2 DEF Lose
  <1>3. ASSUME NEW l \in Listeners, ReceivePacket(l) PROVE SlotHasOneOwner'
    BY <1>3 DEF ReceivePacket, AfterReceive
  <1>4. ASSUME NEW l \in Listeners, WaitUntilCalcReads(l) PROVE SlotHasOneOwner'
    BY <1>4 DEF WaitUntilCalcReads, AfterCalcReads
  <1>5. ASSUME NEW l \in Listeners, LockStock(l) PROVE SlotHasOneOwner'
    BY <1>5 DEF LockStock
  <1>6. ASSUME NEW l \in Listeners, StoreBatch(l) PROVE SlotHasOneOwner'
    BY <1>6 DEF StoreBatch
  <1>7. ASSUME NEW l \in Listeners, UnlockStock(l) PROVE SlotHasOneOwner'
    BY <1>7 DEF UnlockStock
  <1>8. ASSUME NEW l \in Listeners, SignalListenerReady(l) PROVE SlotHasOneOwner'
    BY <1>8 DEF SignalListenerReady
  <1>9. CASE WaitListener
    BY <1>9 DEF WaitListener
  <1>10. CASE ReadBatches
    BY <1>10 DEF ReadBatches
  <1>11. CASE CleanBatchStock
    BY <1>11 DEF CleanBatchStock
  <1>12. CASE SignalListener
    BY <1>12 DEF SignalListener
  <1>13. CASE CalculateRes
    BY <1>13 DEF CalculateRes, AfterCalculate
  <1>14. CASE WaitForSender
    BY <1>14 DEF WaitForSender
  <1>15. CASE SignalCalculated
    BY <1>15 DEF SignalCalculated
  <1>16. CASE WaitForCalculator
    BY <1>16 DEF WaitForCalculator
  <1>17. CASE ReadCalculations
    BY <1>17 DEF ReadCalculations
  <1>18. CASE SendCalcs
    BY <1>18 DEF SendCalcs
  <1>19. CASE SendFails
    BY <1>19 DEF SendFails
  <1>20. CASE SignalSenderReady
    BY <1>20 DEF SignalSenderReady
  <1>21. CASE UNCHANGED vars
    BY <1>21 DEF vars, network, stocks, locals
  <1> QED
    BY <1>1, <1>2, <1>3, <1>4, <1>5, <1>6, <1>7, <1>8, <1>9, <1>10, <1>11,
       <1>12, <1>13, <1>14, <1>15, <1>16, <1>17, <1>18, <1>19, <1>20, <1>21
    DEF Next, RunListener, RunCalculator, RunSender

\* Only the owner of a slot fills or cleans it.
LEMMA HoldsStep ==
  TypeOK /\ SlotHasOneOwner /\ SlotHoldsBatch /\ [Next]_vars => SlotHoldsBatch'
  <1> SUFFICES ASSUME TypeOK, SlotHasOneOwner, SlotHoldsBatch, [Next]_vars
               PROVE  SlotHoldsBatch'
    OBVIOUS
  <1> USE ServerAssumption
      DEF TypeOK, SlotHasOneOwner, SlotHoldsBatch, Cleaned, Free, Filling,
          Full, Emptying, Threads, Listeners, LISTENER_FIRST, LISTENER_SECOND,
          Calculator, Sender, listener_signal, calc_to_listener_signal, Step,
          EachListener, Wait, Signal, network, stocks, locals
  <1>1. ASSUME NEW l \in Listeners, Arrive(l) PROVE SlotHoldsBatch'
    BY <1>1 DEF Arrive
  <1>2. ASSUME NEW l \in Listeners, Lose(l) PROVE SlotHoldsBatch'
    BY <1>2 DEF Lose
  <1>3. ASSUME NEW l \in Listeners, ReceivePacket(l) PROVE SlotHoldsBatch'
    <2>1. Head(inbox[l]) # NULL
      BY <1>3 DEF ReceivePacket, Requests
    <2> QED
      BY <1>3, <2>1 DEF ReceivePacket, AfterReceive
  <1>4. ASSUME NEW l \in Listeners, WaitUntilCalcReads(l) PROVE SlotHoldsBatch'
    BY <1>4 DEF WaitUntilCalcReads, AfterCalcReads
  <1>5. ASSUME NEW l \in Listeners, LockStock(l) PROVE SlotHoldsBatch'
    BY <1>5 DEF LockStock
  <1>6. ASSUME NEW l \in Listeners, StoreBatch(l) PROVE SlotHoldsBatch'
    BY <1>6 DEF StoreBatch
  <1>7. ASSUME NEW l \in Listeners, UnlockStock(l) PROVE SlotHoldsBatch'
    BY <1>7 DEF UnlockStock
  <1>8. ASSUME NEW l \in Listeners, SignalListenerReady(l) PROVE SlotHoldsBatch'
    BY <1>8 DEF SignalListenerReady
  <1>9. CASE WaitListener
    BY <1>9 DEF WaitListener
  <1>10. CASE ReadBatches
    BY <1>10 DEF ReadBatches
  <1>11. CASE CleanBatchStock
    BY <1>11 DEF CleanBatchStock
  <1>12. CASE SignalListener
    BY <1>12 DEF SignalListener
  <1>13. CASE CalculateRes
    BY <1>13 DEF CalculateRes, AfterCalculate
  <1>14. CASE WaitForSender
    BY <1>14 DEF WaitForSender
  <1>15. CASE SignalCalculated
    BY <1>15 DEF SignalCalculated
  <1>16. CASE WaitForCalculator
    BY <1>16 DEF WaitForCalculator
  <1>17. CASE ReadCalculations
    BY <1>17 DEF ReadCalculations
  <1>18. CASE SendCalcs
    BY <1>18 DEF SendCalcs
  <1>19. CASE SendFails
    BY <1>19 DEF SendFails
  <1>20. CASE SignalSenderReady
    BY <1>20 DEF SignalSenderReady
  <1>21. CASE UNCHANGED vars
    BY <1>21 DEF vars, network, stocks, locals
  <1> QED
    BY <1>1, <1>2, <1>3, <1>4, <1>5, <1>6, <1>7, <1>8, <1>9, <1>10, <1>11,
       <1>12, <1>13, <1>14, <1>15, <1>16, <1>17, <1>18, <1>19, <1>20, <1>21
    DEF Next, RunListener, RunCalculator, RunSender

\* The calculator and the sender take turns, except that a result is computed
\* before its turn.
LEMMA ResultStep ==
  TypeOK /\ ResultHasOneOwner /\ [Next]_vars => ResultHasOneOwner'
  <1> SUFFICES ASSUME TypeOK, ResultHasOneOwner, [Next]_vars PROVE ResultHasOneOwner'
    OBVIOUS
  <1> USE ServerAssumption
      DEF TypeOK, ResultHasOneOwner, Sent, HandingOver, ToSend, Sending,
          computedBar, Threads, Listeners, LISTENER_FIRST, LISTENER_SECOND,
          Calculator, Sender, listener_signal, calc_to_listener_signal,
          CalculatorAt, SenderAt, Step, EachListener, Wait, Signal, network, stocks, locals
  <1>1. ASSUME NEW l \in Listeners, Arrive(l) PROVE ResultHasOneOwner'
    BY <1>1 DEF Arrive
  <1>2. ASSUME NEW l \in Listeners, Lose(l) PROVE ResultHasOneOwner'
    BY <1>2 DEF Lose
  <1>3. ASSUME NEW l \in Listeners, ReceivePacket(l) PROVE ResultHasOneOwner'
    BY <1>3 DEF ReceivePacket, AfterReceive
  <1>4. ASSUME NEW l \in Listeners, WaitUntilCalcReads(l) PROVE ResultHasOneOwner'
    BY <1>4 DEF WaitUntilCalcReads, AfterCalcReads
  <1>5. ASSUME NEW l \in Listeners, LockStock(l) PROVE ResultHasOneOwner'
    BY <1>5 DEF LockStock
  <1>6. ASSUME NEW l \in Listeners, StoreBatch(l) PROVE ResultHasOneOwner'
    BY <1>6 DEF StoreBatch
  <1>7. ASSUME NEW l \in Listeners, UnlockStock(l) PROVE ResultHasOneOwner'
    BY <1>7 DEF UnlockStock
  <1>8. ASSUME NEW l \in Listeners, SignalListenerReady(l) PROVE ResultHasOneOwner'
    BY <1>8 DEF SignalListenerReady
  <1>9. CASE WaitListener
    BY <1>9 DEF WaitListener
  <1>10. CASE ReadBatches
    BY <1>10 DEF ReadBatches
  <1>11. CASE CleanBatchStock
    BY <1>11 DEF CleanBatchStock
  <1>12. CASE SignalListener
    BY <1>12 DEF SignalListener
  <1>13. CASE CalculateRes
    <2>1. [round |-> rounds, from |-> batch] \in Results
      BY DEF Results
    <2> QED
      BY <1>13, <2>1 DEF CalculateRes, AfterCalculate
  <1>14. CASE WaitForSender
    BY <1>14 DEF WaitForSender
  <1>15. CASE SignalCalculated
    BY <1>15 DEF SignalCalculated
  <1>16. CASE WaitForCalculator
    BY <1>16 DEF WaitForCalculator
  <1>17. CASE ReadCalculations
    BY <1>17 DEF ReadCalculations
  <1>18. CASE SendCalcs
    BY <1>18 DEF SendCalcs
  <1>19. CASE SendFails
    BY <1>19 DEF SendFails
  <1>20. CASE SignalSenderReady
    BY <1>20 DEF SignalSenderReady
  <1>21. CASE UNCHANGED vars
    BY <1>21 DEF vars, network, stocks, locals
  <1> QED
    BY <1>1, <1>2, <1>3, <1>4, <1>5, <1>6, <1>7, <1>8, <1>9, <1>10, <1>11,
       <1>12, <1>13, <1>14, <1>15, <1>16, <1>17, <1>18, <1>19, <1>20, <1>21
    DEF Next, RunListener, RunCalculator, RunSender

\* What Append and Tail do to the elements of a sequence.
LEMMA AppendElements ==
  ASSUME NEW T, NEW s \in Seq(T), NEW e \in T
  PROVE  /\ Len(Append(s, e)) = Len(s) + 1
         /\ \A i \in DOMAIN s : i \in Nat
         /\ \A i \in DOMAIN Append(s, e) : i \in Nat
         /\ \A i \in DOMAIN Append(s, e) :
              \/ i \in DOMAIN s /\ Append(s, e)[i] = s[i]
              \/ i = Len(s) + 1 /\ Append(s, e)[i] = e
  OBVIOUS

LEMMA TailElements ==
  ASSUME NEW T, NEW s \in Seq(T), s # <<>>
  PROVE  /\ Len(Tail(s)) = Len(s) - 1
         /\ 1 \in DOMAIN s /\ Head(s) = s[1]
         /\ \A i \in DOMAIN Tail(s) :
              i \in Nat /\ i + 1 \in DOMAIN s /\ Tail(s)[i] = s[i + 1]
  OBVIOUS

\* Port l has the same batches in the same places, or in others of the same rank.
SameBatches(l) ==
  /\ inbox'[l] = inbox[l] /\ requested'[l] = requested[l] /\ lost'[l] = lost[l]
  /\ received_pack'[l] = received_pack[l] /\ batch'[l] = batch[l]
  /\ Holding(l)' = Holding(l) /\ Unread(l)' = Unread(l)
  /\ Unread(l) => stock'[l] = stock[l]
  /\ BatchesRead(l)' = BatchesRead(l)

LEMMA SameOrder ==
  ASSUME NEW l \in Listeners, KeepsOrder(l), SameBatches(l)
  PROVE  KeepsOrder(l)'
  BY DEF KeepsOrder, SameBatches, BatchesStored, BatchesReceived, InOrder

\* Ranks are numbers.
LEMMA RankType ==
  ASSUME TypeOK, NEW l \in Listeners
  PROVE  /\ BatchesRead(l) \in Nat /\ BatchesStored(l) \in Nat /\ BatchesReceived(l) \in Nat
         /\ lost[l] \in Nat /\ requested[l] \in Nat
         /\ inbox[l] \in Seq(Requests) /\ Len(inbox[l]) \in Nat /\ Requests \subseteq Nat
         /\ Holding(l) \in BOOLEAN /\ Unread(l) \in BOOLEAN
  <1>1. BatchesRead(l) \in Nat /\ BatchesStored(l) \in Nat /\ BatchesReceived(l) \in Nat
    <2>1. BatchesRead(l) \in Nat
      BY DEF TypeOK, BatchesRead
    <2> QED
      BY <2>1 DEF BatchesStored, BatchesReceived
  <1>2. lost[l] \in Nat /\ requested[l] \in Nat
    BY ServerAssumption DEF TypeOK
  <1>3. inbox[l] \in Seq(Requests) /\ Len(inbox[l]) \in Nat /\ Requests \subseteq Nat
    BY ServerAssumption DEF TypeOK, Requests
  <1>4. Holding(l) \in BOOLEAN /\ Unread(l) \in BOOLEAN
    BY DEF Holding, Unread
  <1> QED
    BY <1>1, <1>2, <1>3, <1>4

\* No thread skips, repeats or swaps a batch: what a place holds is the next number
\* of the place before it.
LEMMA BatchesStep ==
  TypeOK /\ SlotHasOneOwner /\ SlotHoldsBatch /\ BatchesKeepOrder /\ [Next]_vars
    => BatchesKeepOrder'
  <1> SUFFICES ASSUME TypeOK, SlotHasOneOwner, SlotHoldsBatch, [Next]_vars,
                      NEW k \in Listeners, KeepsOrder(k)
               PROVE  KeepsOrder(k)'
    BY DEF BatchesKeepOrder
  <1>0. /\ BatchesRead(k) \in Nat /\ BatchesStored(k) \in Nat /\ BatchesReceived(k) \in Nat
        /\ lost[k] \in Nat /\ requested[k] \in Nat
        /\ inbox[k] \in Seq(Requests) /\ Len(inbox[k]) \in Nat /\ Requests \subseteq Nat
        /\ Holding(k) \in BOOLEAN /\ Unread(k) \in BOOLEAN
        /\ requested[k] = BatchesReceived(k) + Len(inbox[k]) + lost[k]
    BY RankType DEF KeepsOrder
  <1> USE ServerAssumption
      DEF TypeOK, Threads, Listeners, LISTENER_FIRST, LISTENER_SECOND, Calculator,
          Sender, CalculatorAt, SenderAt, ListenerAt, Step, EachListener, network,
          stocks, locals, SlotHasOneOwner, Filling, Emptying, SlotHoldsBatch, Cleaned,
          SameBatches, Copied, Unread, Holding, BatchesRead
  <1>1. ASSUME NEW l \in Listeners, Arrive(l) PROVE KeepsOrder(k)'
    <2>1. CASE k # l
      <3>1. SameBatches(k)
        BY <1>1, <2>1 DEF Arrive
      <3> QED
        BY <3>1, SameOrder
    <2>2. CASE k = l
      <3>1. /\ inbox'[k] = Append(inbox[k], requested[k] + 1)
            /\ requested'[k] = requested[k] + 1 /\ requested'[k] \in Requests
        BY <1>1, <2>2 DEF Arrive, MayRequest, Requests
      <3>2. /\ UNCHANGED <<lost, received_pack, stock, batch>>
            /\ Holding(k)' = Holding(k) /\ Unread(k)' = Unread(k)
            /\ BatchesRead(k)' = BatchesRead(k)
        BY <1>1 DEF Arrive
      <3> HIDE DEF TypeOK, SlotHasOneOwner, SlotHoldsBatch, Listeners, LISTENER_FIRST, LISTENER_SECOND, BatchesRead, Holding, Unread
      <3>3. /\ Len(inbox'[k]) = Len(inbox[k]) + 1
            /\ \A i \in DOMAIN inbox'[k] : i \in Nat
            /\ \A i \in DOMAIN inbox'[k] :
                 \/ i \in DOMAIN inbox[k] /\ inbox'[k][i] = inbox[k][i]
                 \/ i = Len(inbox[k]) + 1 /\ inbox'[k][i] = requested[k] + 1
        BY <3>1, <1>0, AppendElements
      <3>4. /\ BatchesStored(k)' = BatchesStored(k)
            /\ BatchesReceived(k)' = BatchesReceived(k)
        BY <3>2 DEF BatchesStored, BatchesReceived
      <3>5. \A i \in DOMAIN inbox'[k] :
              InOrder(k, inbox'[k][i], BatchesReceived(k) + i)
        <4>1. requested[k] + 1 = BatchesReceived(k) + (Len(inbox[k]) + 1) + lost[k]
          BY <1>0
        <4>2. InOrder(k, requested[k] + 1, BatchesReceived(k) + (Len(inbox[k]) + 1))
          BY <1>0, <4>1 DEF InOrder
        <4> QED
          BY <3>3, <4>2 DEF KeepsOrder
      <3> QED
        <4>1. requested'[k] - lost'[k] = BatchesReceived(k)' + Len(inbox'[k])
          BY <3>1, <3>2, <3>3, <3>4, <3>5, <1>0
        <4>2. (\A i \in DOMAIN inbox[k] : InOrder(k, inbox[k][i], BatchesReceived(k) + i))'
          BY <3>1, <3>2, <3>3, <3>4, <3>5, <1>0 DEF InOrder
        <4>3. (Holding(k) => InOrder(k, received_pack[k], BatchesStored(k) + 1))'
          BY <3>1, <3>2, <3>3, <3>4, <3>5, <1>0 DEF KeepsOrder, InOrder
        <4>4. (Unread(k) => InOrder(k, stock[k], BatchesRead(k) + 1))'
          BY <3>1, <3>2, <3>3, <3>4, <3>5, <1>0 DEF KeepsOrder, InOrder
        <4>5. (BatchesRead(k) > 0 => InOrder(k, batch[k], BatchesRead(k)))'
          BY <3>1, <3>2, <3>3, <3>4, <3>5, <1>0 DEF KeepsOrder, InOrder
        <4> QED
          BY <4>1, <4>2, <4>3, <4>4, <4>5 DEF KeepsOrder
    <2> QED
      BY <2>1, <2>2
  <1>2. ASSUME NEW l \in Listeners, Lose(l) PROVE KeepsOrder(k)'
    <2>1. CASE k # l
      <3>1. SameBatches(k)
        BY <1>2, <2>1 DEF Lose
      <3> QED
        BY <3>1, SameOrder
    <2>2. CASE k = l
      <3>1. lost'[k] = lost[k] + 1 /\ requested'[k] = requested[k] + 1
        BY <1>2, <2>2 DEF Lose
      <3>2. /\ UNCHANGED <<inbox, received_pack, stock, batch>>
            /\ Holding(k)' = Holding(k) /\ Unread(k)' = Unread(k)
            /\ BatchesRead(k)' = BatchesRead(k)
        BY <1>2 DEF Lose
      <3> HIDE DEF TypeOK, SlotHasOneOwner, SlotHoldsBatch, Listeners, LISTENER_FIRST, LISTENER_SECOND, BatchesRead, Holding, Unread
      <3> QED
        <4>1. /\ BatchesStored(k)' = BatchesStored(k)
              /\ BatchesReceived(k)' = BatchesReceived(k)
          BY <3>2 DEF BatchesStored, BatchesReceived
        <4>2. \A number : \A n \in Nat : InOrder(k, number, n) => InOrder(k, number, n)'
          BY <3>1, <1>0 DEF InOrder
        <4>3. \A i \in DOMAIN inbox[k] : i \in Nat
          BY <1>0
        <4>4. \A i \in DOMAIN inbox'[k] :
                InOrder(k, inbox[k][i], BatchesReceived(k) + i)'
          BY <3>2, <4>1, <4>2, <4>3, <1>0 DEF KeepsOrder
        <4> QED
          <5>1. requested'[k] - lost'[k] = BatchesReceived(k)' + Len(inbox'[k])
            BY <3>1, <3>2, <4>1, <4>2, <4>4, <1>0
          <5>2. (\A i \in DOMAIN inbox[k] : InOrder(k, inbox[k][i], BatchesReceived(k) + i))'
            BY <3>1, <3>2, <4>1, <4>2, <4>4, <1>0 DEF InOrder
          <5>3. (Holding(k) => InOrder(k, received_pack[k], BatchesStored(k) + 1))'
            BY <3>1, <3>2, <4>1, <4>2, <4>4, <1>0 DEF KeepsOrder, InOrder
          <5>4. (Unread(k) => InOrder(k, stock[k], BatchesRead(k) + 1))'
            BY <3>1, <3>2, <4>1, <4>2, <4>4, <1>0 DEF KeepsOrder, InOrder
          <5>5. (BatchesRead(k) > 0 => InOrder(k, batch[k], BatchesRead(k)))'
            BY <3>1, <3>2, <4>1, <4>2, <4>4, <1>0 DEF KeepsOrder, InOrder
          <5> QED
            BY <5>1, <5>2, <5>3, <5>4, <5>5 DEF KeepsOrder
    <2> QED
      BY <2>1, <2>2
  <1>3. ASSUME NEW l \in Listeners, ReceivePacket(l) PROVE KeepsOrder(k)'
    <2>1. CASE k # l
      <3>1. SameBatches(k)
        BY <1>3, <2>1 DEF ReceivePacket
      <3> QED
        BY <3>1, SameOrder
    <2>2. CASE k = l
      <3>1. /\ inbox'[k] = Tail(inbox[k]) /\ inbox[k] # <<>>
            /\ received_pack'[k] = inbox[k][1]
            /\ ~Holding(k) /\ Holding(k)'
        BY <1>3, <2>2 DEF ReceivePacket, AfterReceive
      <3>2. /\ UNCHANGED <<lost, requested, stock, batch>>
            /\ Unread(k)' = Unread(k) /\ BatchesRead(k)' = BatchesRead(k)
        BY <1>3, <2>2 DEF ReceivePacket, AfterReceive
      <3> HIDE DEF TypeOK, SlotHasOneOwner, SlotHoldsBatch, Listeners, LISTENER_FIRST, LISTENER_SECOND, BatchesRead, Holding, Unread
      <3>3. /\ Len(inbox'[k]) = Len(inbox[k]) - 1
            /\ 1 \in DOMAIN inbox[k]
            /\ \A i \in DOMAIN inbox'[k] :
                 i \in Nat /\ i + 1 \in DOMAIN inbox[k] /\ inbox'[k][i] = inbox[k][i + 1]
        BY <3>1, <1>0, TailElements
      <3>4. BatchesStored(k)' = BatchesStored(k) /\ BatchesReceived(k)' = BatchesReceived(k) + 1
        BY <3>1, <3>2, <1>0 DEF BatchesStored, BatchesReceived
      <3>5. InOrder(k, inbox[k][1], BatchesReceived(k) + 1)
        BY <3>3 DEF KeepsOrder
      <3>6. \A i \in DOMAIN inbox'[k] :
              InOrder(k, inbox'[k][i], BatchesReceived(k) + (i + 1))
        BY <3>3 DEF KeepsOrder
      <3>7. BatchesReceived(k) = BatchesStored(k)
        BY <3>1, <1>0 DEF BatchesReceived
      <3>8. \A i \in DOMAIN inbox'[k] : InOrder(k, inbox'[k][i], BatchesReceived(k)' + i)
        <4>1. \A i \in Nat : BatchesReceived(k)' + i = BatchesReceived(k) + (i + 1)
          BY <3>4, <1>0
        <4> QED
          BY <3>3, <3>6, <4>1
      <3> QED
        <4>1. requested'[k] - lost'[k] = BatchesReceived(k)' + Len(inbox'[k])
          BY <3>1, <3>2, <3>3, <3>4, <3>5, <3>7, <3>8, <1>0
        <4>2. (\A i \in DOMAIN inbox[k] : InOrder(k, inbox[k][i], BatchesReceived(k) + i))'
          BY <3>1, <3>2, <3>3, <3>4, <3>5, <3>7, <3>8, <1>0 DEF InOrder
        <4>3. (Holding(k) => InOrder(k, received_pack[k], BatchesStored(k) + 1))'
          BY <3>1, <3>2, <3>3, <3>4, <3>5, <3>7, <3>8, <1>0 DEF KeepsOrder, InOrder
        <4>4. (Unread(k) => InOrder(k, stock[k], BatchesRead(k) + 1))'
          BY <3>1, <3>2, <3>3, <3>4, <3>5, <3>7, <3>8, <1>0 DEF KeepsOrder, InOrder
        <4>5. (BatchesRead(k) > 0 => InOrder(k, batch[k], BatchesRead(k)))'
          BY <3>1, <3>2, <3>3, <3>4, <3>5, <3>7, <3>8, <1>0 DEF KeepsOrder, InOrder
        <4> QED
          BY <4>1, <4>2, <4>3, <4>4, <4>5 DEF KeepsOrder
    <2> QED
      BY <2>1, <2>2
  <1>4. ASSUME NEW l \in Listeners, WaitUntilCalcReads(l) PROVE KeepsOrder(k)'
    <2>1. SameBatches(k)
      BY <1>4 DEF WaitUntilCalcReads, AfterCalcReads
    <2> QED
      BY <2>1, SameOrder
  <1>5. ASSUME NEW l \in Listeners, LockStock(l) PROVE KeepsOrder(k)'
    <2>1. SameBatches(k)
      BY <1>5 DEF LockStock
    <2> QED
      BY <2>1, SameOrder
  <1>6. ASSUME NEW l \in Listeners, StoreBatch(l) PROVE KeepsOrder(k)'
    <2>1. CASE k # l
      <3>1. SameBatches(k)
        BY <1>6, <2>1 DEF StoreBatch
      <3> QED
        BY <3>1, SameOrder
    <2>2. CASE k = l
      <3>1. /\ stock'[k] = received_pack[k] /\ Holding(k) /\ ~Holding(k)'
            /\ ~Unread(k) /\ Unread(k)'
        BY <1>6, <2>2 DEF StoreBatch, Free, Full
      <3>2. /\ UNCHANGED <<inbox, lost, requested, received_pack, batch>>
            /\ BatchesRead(k)' = BatchesRead(k)
        BY <1>6, <2>2 DEF StoreBatch
      <3> HIDE DEF TypeOK, SlotHasOneOwner, SlotHoldsBatch, Listeners, LISTENER_FIRST, LISTENER_SECOND, BatchesRead, Holding, Unread
      <3>3. /\ BatchesStored(k) = BatchesRead(k)
            /\ BatchesReceived(k)' = BatchesReceived(k)
        BY <3>1, <3>2, <1>0 DEF BatchesStored, BatchesReceived
      <3> QED
        BY <3>1, <3>2, <3>3, <1>0 DEF KeepsOrder, InOrder
    <2> QED
      BY <2>1, <2>2
  <1>7. ASSUME NEW l \in Listeners, UnlockStock(l) PROVE KeepsOrder(k)'
    <2>1. SameBatches(k)
      BY <1>7 DEF UnlockStock
    <2> QED
      BY <2>1, SameOrder
  <1>8. ASSUME NEW l \in Listeners, SignalListenerReady(l) PROVE KeepsOrder(k)'
    <2>1. SameBatches(k)
      BY <1>8 DEF SignalListenerReady
    <2> QED
      BY <2>1, SameOrder
  <1>9. CASE WaitListener
    <2>1. SameBatches(k)
      BY <1>9 DEF WaitListener
    <2> QED
      BY <2>1, SameOrder
  <1>10. CASE ReadBatches
    <2>1. CASE k # turn
      <3>1. SameBatches(k)
        BY <1>10, <2>1 DEF ReadBatches
      <3> QED
        BY <3>1, SameOrder
    <2>2. CASE k = turn
      <3>1. /\ batch'[k] = stock[k] /\ Unread(k) /\ ~Unread(k)'
            /\ BatchesRead(k)' = BatchesRead(k) + 1
        BY <1>10, <2>2 DEF ReadBatches
      <3>2. /\ UNCHANGED <<inbox, lost, requested, received_pack>>
            /\ Holding(k)' = Holding(k)
        BY <1>10, <2>2 DEF ReadBatches
      <3> HIDE DEF TypeOK, SlotHasOneOwner, SlotHoldsBatch, Listeners, LISTENER_FIRST, LISTENER_SECOND, BatchesRead, Holding, Unread
      <3>3. /\ BatchesStored(k)' = BatchesStored(k)
            /\ BatchesReceived(k)' = BatchesReceived(k)
        BY <3>1, <3>2, <1>0 DEF BatchesStored, BatchesReceived
      <3> QED
        BY <3>1, <3>2, <3>3, <1>0 DEF KeepsOrder, InOrder
    <2> QED
      BY <2>1, <2>2
  <1>11. CASE CleanBatchStock
    <2>1. SameBatches(k)
      BY <1>11 DEF CleanBatchStock
    <2> QED
      BY <2>1, SameOrder
  <1>12. CASE SignalListener
    <2>1. SameBatches(k)
      BY <1>12 DEF SignalListener
    <2> QED
      BY <2>1, SameOrder
  <1>13. CASE CalculateRes
    <2>1. SameBatches(k)
      BY <1>13 DEF CalculateRes, AfterCalculate
    <2> QED
      BY <2>1, SameOrder
  <1>14. CASE WaitForSender
    <2>1. SameBatches(k)
      BY <1>14 DEF WaitForSender
    <2> QED
      BY <2>1, SameOrder
  <1>15. CASE SignalCalculated
    <2>1. SameBatches(k)
      BY <1>15 DEF SignalCalculated
    <2> QED
      BY <2>1, SameOrder
  <1>16. CASE WaitForCalculator
    <2>1. SameBatches(k)
      BY <1>16 DEF WaitForCalculator
    <2> QED
      BY <2>1, SameOrder
  <1>17. CASE ReadCalculations
    <2>1. SameBatches(k)
      BY <1>17 DEF ReadCalculations
    <2> QED
      BY <2>1, SameOrder
  <1>18. CASE SendCalcs
    <2>1. SameBatches(k)
      BY <1>18 DEF SendCalcs
    <2> QED
      BY <2>1, SameOrder
  <1>19. CASE SendFails
    <2>1. SameBatches(k)
      BY <1>19 DEF SendFails
    <2> QED
      BY <2>1, SameOrder
  <1>20. CASE SignalSenderReady
    <2>1. SameBatches(k)
      BY <1>20 DEF SignalSenderReady
    <2> QED
      BY <2>1, SameOrder
  <1>21. CASE UNCHANGED vars
    <2>1. SameBatches(k)
      BY <1>21 DEF vars
    <2> QED
      BY <2>1, SameOrder
  <1> QED
    BY <1>1, <1>2, <1>3, <1>4, <1>5, <1>6, <1>7, <1>8, <1>9, <1>10, <1>11,
       <1>12, <1>13, <1>14, <1>15, <1>16, <1>17, <1>18, <1>19, <1>20, <1>21
    DEF Next, RunListener, RunCalculator, RunSender

\* A result stays what calculate_res has made of the batches of its round.
LEMMA ResultsStep ==
  TypeOK /\ SlotHasOneOwner /\ ResultHasOneOwner /\ BatchesKeepOrder /\ ResultsKeepOrder /\ [Next]_vars => ResultsKeepOrder'
  <1> SUFFICES ASSUME TypeOK, SlotHasOneOwner, ResultHasOneOwner, BatchesKeepOrder, ResultsKeepOrder, [Next]_vars PROVE ResultsKeepOrder'
    OBVIOUS
  <1> USE ServerAssumption
      DEF TypeOK, Threads, Listeners, LISTENER_FIRST, LISTENER_SECOND, Calculator,
          Sender, CalculatorAt, SenderAt, ListenerAt, listener_signal,
          calc_to_listener_signal, Step, EachListener, Wait, Signal, network, stocks, locals,
          SlotHasOneOwner, ResultHasOneOwner, Sent, HandingOver, ToSend, Sending,
          computedBar, ResultsKeepOrder, FromItsRound, InOrder
  <1>1. ASSUME NEW l \in Listeners, Arrive(l) PROVE ResultsKeepOrder'
    BY <1>1 DEF Arrive
  <1>2. ASSUME NEW l \in Listeners, Lose(l) PROVE ResultsKeepOrder'
    <2>0. \A k \in Listeners : lost[k] \in Nat /\ lost'[k] \in Nat /\ lost'[k] >= lost[k]
      <3>1. lost \in [Listeners -> Nat] /\ lost' = [lost EXCEPT ![l] = @ + 1]
        BY <1>2 DEF Lose
      <3> HIDE DEF TypeOK, SlotHasOneOwner, ResultHasOneOwner, ResultsKeepOrder
      <3> QED
        BY <3>1
    <2>1. UNCHANGED <<calculations, calcs, outbox, rounds, raised, at>>
      BY <1>2 DEF Lose
    <2>2. computedBar' = computedBar /\ ToSend' = ToSend
      BY <2>1
    <2>3. ASSUME NEW result, FromItsRound(result)
          PROVE  result \in Results /\ \A k \in Listeners : InOrder(k, result.from[k], result.round)'
      <3>1. result \in Results /\ result.round \in Nat
        BY <2>3 DEF Results
      <3> HIDE DEF TypeOK, SlotHasOneOwner, ResultHasOneOwner, ResultsKeepOrder
      <3> QED
        BY <2>0, <2>3, <3>1
    <2> HIDE DEF TypeOK, SlotHasOneOwner, ResultHasOneOwner, ResultsKeepOrder, computedBar, ToSend
    <2>4. FromItsRound(calculations) => FromItsRound(calculations)'
      BY <2>1, <2>3
    <2>5. FromItsRound(calcs) => FromItsRound(calcs)'
      BY <2>1, <2>3
    <2>6. \A m \in DOMAIN outbox : FromItsRound(outbox[m]) => FromItsRound(outbox[m])'
      BY <2>1, <2>3
    <2> HIDE DEF FromItsRound
    <2> QED
      BY <2>1, <2>2, <2>4, <2>5, <2>6 DEF ResultsKeepOrder
  <1>3. ASSUME NEW l \in Listeners, ReceivePacket(l) PROVE ResultsKeepOrder'
    BY <1>3 DEF ReceivePacket, AfterReceive
  <1>4. ASSUME NEW l \in Listeners, WaitUntilCalcReads(l) PROVE ResultsKeepOrder'
    BY <1>4 DEF WaitUntilCalcReads, AfterCalcReads
  <1>5. ASSUME NEW l \in Listeners, LockStock(l) PROVE ResultsKeepOrder'
    BY <1>5 DEF LockStock
  <1>6. ASSUME NEW l \in Listeners, StoreBatch(l) PROVE ResultsKeepOrder'
    BY <1>6 DEF StoreBatch
  <1>7. ASSUME NEW l \in Listeners, UnlockStock(l) PROVE ResultsKeepOrder'
    BY <1>7 DEF UnlockStock
  <1>8. ASSUME NEW l \in Listeners, SignalListenerReady(l) PROVE ResultsKeepOrder'
    BY <1>8 DEF SignalListenerReady
  <1>9. CASE WaitListener
    BY <1>9 DEF WaitListener
  <1>10. CASE ReadBatches
    BY <1>10 DEF ReadBatches
  <1>11. CASE CleanBatchStock
    BY <1>11 DEF CleanBatchStock
  <1>12. CASE SignalListener
    BY <1>12 DEF SignalListener
  <1>13. CASE CalculateRes
    <2>1. /\ calculations' = [round |-> rounds, from |-> batch]
          /\ computedBar' = rounds /\ UNCHANGED <<lost, calcs, outbox, rounds, raised>>
          /\ at'[Sender] = at[Sender]
      BY <1>13 DEF CalculateRes, AfterCalculate
    <2>2. [round |-> rounds, from |-> batch] \in Results
      BY DEF Results
    <2>3. \A l \in Listeners : BatchesRead(l) = rounds /\ rounds > 0
      BY <1>13 DEF CalculateRes, BatchesRead, Copied
    <2>4. \A l \in Listeners : InOrder(l, batch[l], rounds)
      BY <2>3 DEF BatchesKeepOrder, KeepsOrder
    <2>5. FromItsRound(calculations')
      BY <2>1, <2>2, <2>4
    <2>6. \A result : FromItsRound(result)' <=> FromItsRound(result)
      BY <2>1
    <2>7. ToSend' = ToSend
      BY <2>1
    <2> HIDE DEF TypeOK, SlotHasOneOwner, ResultHasOneOwner, FromItsRound, computedBar, ToSend
    <2> QED
      BY <2>1, <2>5, <2>6, <2>7
  <1>14. CASE WaitForSender
    BY <1>14 DEF WaitForSender
  <1>15. CASE SignalCalculated
    BY <1>15 DEF SignalCalculated
  <1>16. CASE WaitForCalculator
    BY <1>16 DEF WaitForCalculator
  <1>17. CASE ReadCalculations
    BY <1>17 DEF ReadCalculations
  <1>18. CASE SendCalcs
    <2>1. /\ outbox' = Append(outbox, calcs) /\ calcs' = calcs /\ lost' = lost
          /\ calculations' = calculations /\ computedBar' = computedBar
      BY <1>18 DEF SendCalcs
    <2>2. /\ FromItsRound(calcs) /\ calcs.round \in {Len(outbox) + 1, Len(outbox) + 2}
          /\ calcs \in Results \cup {NULL} /\ Len(outbox) = rounds - 2
      BY <1>18 DEF SendCalcs
    <2>3. at'[Sender] # "sendto" /\ rounds' = rounds /\ ~ToSend' /\ at'[Sender] = "signal_sender_ready"
      BY <1>18 DEF SendCalcs
    <2>4. \A m \in DOMAIN outbox : FromItsRound(outbox[m]) /\ outbox[m].round \in {m, m + 1}
      OBVIOUS
    <2>5. computedBar > 0 => FromItsRound(calculations)
      OBVIOUS
    <2>6. /\ Len(outbox') = Len(outbox) + 1
          /\ \A m \in DOMAIN outbox' :
               \/ m \in DOMAIN outbox /\ outbox'[m] = outbox[m]
               \/ m = Len(outbox) + 1 /\ outbox'[m] = calcs
      <3>1. outbox \in Seq(Results \cup {NULL}) /\ calcs \in Results \cup {NULL}
        OBVIOUS
      <3> HIDE DEF TypeOK, SlotHasOneOwner, ResultHasOneOwner, ResultsKeepOrder
      <3> QED
        BY <2>1, <3>1, AppendElements
    <2>7. \A m \in DOMAIN outbox' : FromItsRound(outbox'[m]) /\ outbox'[m].round \in {m, m + 1}
      <3> HIDE DEF TypeOK, SlotHasOneOwner, ResultHasOneOwner, ResultsKeepOrder, FromItsRound
      <3>1. Len(outbox) \in Nat
        BY DEF TypeOK
      <3> QED
        BY <2>2, <2>4, <2>6, <3>1
    <2> HIDE DEF TypeOK, SlotHasOneOwner, ResultHasOneOwner, ResultsKeepOrder, computedBar, ToSend
    <2>8. (computedBar > 0 => FromItsRound(calculations))'
      BY <2>1, <2>5
    <2>9. (\A m \in DOMAIN outbox : FromItsRound(outbox[m]) /\ outbox[m].round \in {m, m + 1})'
      BY <2>1, <2>7
    <2> HIDE DEF FromItsRound
    <2>10. Len(outbox') = rounds' - 1
      BY <2>2, <2>3, <2>6 DEF TypeOK
    <2> QED
      BY <2>3, <2>8, <2>9, <2>10 DEF ResultsKeepOrder
  <1>19. CASE SendFails
    BY <1>19 DEF SendFails
  <1>20. CASE SignalSenderReady
    BY <1>20 DEF SignalSenderReady
  <1>21. CASE UNCHANGED vars
    BY <1>21 DEF vars, network, stocks, locals
  <1> QED
    BY <1>1, <1>2, <1>3, <1>4, <1>5, <1>6, <1>7, <1>8, <1>9, <1>10, <1>11,
       <1>12, <1>13, <1>14, <1>15, <1>16, <1>17, <1>18, <1>19, <1>20, <1>21
    DEF Next, RunListener, RunCalculator, RunSender

\* The inductive invariant holds for any number of requests and losses.
THEOREM InvariantHolds == Spec => []IInv
  <1>1. IInv /\ [Next]_vars => IInv'
    BY TypeStep, OwnerStep, HoldsStep, ResultStep, BatchesStep, ResultsStep DEF IInv
  <1> QED
    BY InitIInv, <1>1, PTL DEF Spec

\* Types hold for any number of requests and losses.
THEOREM TypeCorrect == Spec => []TypeOK
  BY InvariantHolds, PTL DEF IInv

\* read_batches and clean_batch_stock, which take no mutex, never run while a
\* listener is inside store_batch's critical section.
THEOREM StockIsNotRacedFor == Spec => []NoStockRace
  <1>1. IInv => NoStockRace
    BY DEF IInv, SlotHasOneOwner, NoStockRace, Filling, Emptying
  <1> QED
    BY InvariantHolds, <1>1, PTL

\* Every batch that is stored is read before the next one replaces it, and none
\* is read twice.
THEOREM BatchesAreNotLost == Spec => []NoBatchLost
  <1>1. IInv => NoBatchLost
    BY DEF IInv, TypeOK, SlotHasOneOwner, SlotHoldsBatch, NoBatchLost, Free,
           Filling, Full, Emptying, Cleaned, Listeners, LISTENER_FIRST,
           LISTENER_SECOND
  <1> QED
    BY InvariantHolds, <1>1, PTL

\* The m-th answer is computed from request m or m + 1 of each port, and from a later
\* one only if that many datagrams were lost on that very port.
THEOREM AnswersKeepOrder == Spec => []AnswersInOrder
  <1>1. IInv => AnswersInOrder
    <2> SUFFICES ASSUME IInv, NEW m \in DOMAIN outbox
                 PROVE  /\ outbox[m] # NULL
                        /\ \A l \in Listeners : /\ outbox[m].from[l] # NULL
                                                /\ outbox[m].from[l] - m \in 0 .. lost[l] + 1
      BY DEF AnswersInOrder
    <2>1. FromItsRound(outbox[m]) /\ outbox[m].round \in {m, m + 1} /\ m \in Nat
      BY DEF IInv, ResultsKeepOrder, TypeOK
    <2>2. /\ outbox[m].round \in Nat
          /\ \A l \in Listeners : lost[l] \in Nat /\ outbox[m].from[l] \in Batches
      BY <2>1, ServerAssumption DEF IInv, TypeOK, FromItsRound, Results
    <2>3. outbox[m] # NULL
      BY <2>1, ServerAssumption DEF FromItsRound
    <2>4. ASSUME NEW l \in Listeners
          PROVE  outbox[m].from[l] # NULL /\ outbox[m].from[l] - m \in 0 .. lost[l] + 1
      <3>1. outbox[m].from[l] \in outbox[m].round .. outbox[m].round + lost[l]
        BY <2>1 DEF FromItsRound, InOrder
      <3> QED
        BY <2>1, <2>2, <3>1, ServerAssumption
    <2> QED
      BY <2>3, <2>4
  <1> QED
    BY InvariantHolds, <1>1, PTL

-----------------------------------------------------------------------------
\* Nothing is computed or answered before the first round.
LEMMA RefinedInit == Init => Service!Init
  BY DEF Init, FirstStatement, FirstRound, Service!Init, computedBar, answersBar, Threads, Listeners,
         LISTENER_FIRST, LISTENER_SECOND, Calculator, Sender

\* The rounds of the results after one more was sent.
LEMMA RoundsOfAppend ==
  ASSUME NEW T, NEW s \in Seq(T), NEW r \in T
  PROVE  [m \in DOMAIN Append(s, r) |-> Append(s, r)[m].round] =
           Append([m \in DOMAIN s |-> s[m].round], r.round)
  <1> DEFINE Rounds == {t.round : t \in T}
             rs == [m \in DOMAIN s |-> s[m].round]
             longer == [m \in DOMAIN Append(s, r) |-> Append(s, r)[m].round]
  <1>1. rs \in Seq(Rounds) /\ Len(rs) = Len(s) /\ r.round \in Rounds
    OBVIOUS
  <1>2. Append(s, r) \in Seq(T) /\ Len(Append(s, r)) = Len(s) + 1
    OBVIOUS
  <1>3. longer \in Seq(Rounds) /\ Len(longer) = Len(s) + 1
    BY <1>2
  <1>4. /\ Append(rs, r.round) \in Seq(Rounds)
        /\ Len(Append(rs, r.round)) = Len(s) + 1
    BY <1>1
  <1>5. ASSUME NEW m \in 1 .. Len(s) + 1 PROVE longer[m] = Append(rs, r.round)[m]
    BY <1>1, <1>2
  <1> QED
    BY <1>3, <1>4, <1>5

\* calculate_res computes, sendto answers, and nothing else is visible.
LEMMA RefinedStep == IInv /\ IInv' /\ [Next]_vars => [Service!Next]_(Service!vars)
  <1> SUFFICES ASSUME IInv, IInv', [Next]_vars
               PROVE  [Service!Next]_(Service!vars)
    OBVIOUS
  <1> DEFINE Same == computedBar' = computedBar /\ answersBar' = answersBar
  <1> USE DEF IInv, TypeOK, computedBar, answersBar, Threads, Listeners,
              LISTENER_FIRST, LISTENER_SECOND, Calculator, Sender,
              CalculatorAt, SenderAt, Step, EachListener, Wait, Signal, network,
              stocks, locals
  <1>0. Len(answersBar) = Len(outbox)
    OBVIOUS
  <1>1. ASSUME NEW l \in Listeners, Arrive(l) PROVE Same
    BY <1>1 DEF Arrive
  <1>2. ASSUME NEW l \in Listeners, Lose(l) PROVE Same
    BY <1>2 DEF Lose
  <1>3. ASSUME NEW l \in Listeners, ReceivePacket(l) PROVE Same
    BY <1>3 DEF ReceivePacket, AfterReceive
  <1>4. ASSUME NEW l \in Listeners, WaitUntilCalcReads(l) PROVE Same
    BY <1>4 DEF WaitUntilCalcReads, AfterCalcReads
  <1>5. ASSUME NEW l \in Listeners, LockStock(l) PROVE Same
    BY <1>5 DEF LockStock
  <1>6. ASSUME NEW l \in Listeners, StoreBatch(l) PROVE Same
    BY <1>6 DEF StoreBatch
  <1>7. ASSUME NEW l \in Listeners, UnlockStock(l) PROVE Same
    BY <1>7 DEF UnlockStock
  <1>8. ASSUME NEW l \in Listeners, SignalListenerReady(l) PROVE Same
    BY <1>8 DEF SignalListenerReady
  <1>9. ASSUME WaitListener PROVE Same
    BY <1>9 DEF WaitListener
  <1>10. ASSUME ReadBatches PROVE Same
    BY <1>10 DEF ReadBatches
  <1>11. ASSUME CleanBatchStock PROVE Same
    BY <1>11 DEF CleanBatchStock
  <1>12. ASSUME SignalListener PROVE Same
    BY <1>12 DEF SignalListener
  <1>13. ASSUME CalculateRes PROVE Service!Next
    <2>1. computedBar' = computedBar + 1 /\ answersBar' = answersBar
      BY <1>13 DEF CalculateRes, AfterCalculate
    <2>2. computedBar <= Len(answersBar) + 1
      BY <1>13, <1>0 DEF CalculateRes, ResultHasOneOwner, ResultsKeepOrder
    <2> QED
      BY <2>1, <2>2 DEF Service!Next, Service!Compute
  <1>14. ASSUME WaitForSender PROVE Same
    BY <1>14 DEF WaitForSender
  <1>15. ASSUME SignalCalculated PROVE Same
    BY <1>15 DEF SignalCalculated
  <1>16. ASSUME WaitForCalculator PROVE Same
    BY <1>16 DEF WaitForCalculator
  <1>17. ASSUME ReadCalculations PROVE Same
    BY <1>17 DEF ReadCalculations
  <1>18. ASSUME SendCalcs PROVE Service!Next
    <2>1. computedBar' = computedBar /\ outbox' = Append(outbox, calcs)
      BY <1>18 DEF SendCalcs
    <2>2. /\ calcs \in Results
          /\ calcs.round <= computedBar
          /\ calcs.round \in {Len(answersBar) + 1, Len(answersBar) + 2}
      BY <1>18, <1>0 DEF SendCalcs, ResultHasOneOwner, ResultsKeepOrder, Results
    <2>3. outbox \in Seq(Results \cup {NULL}) /\ calcs \in Results \cup {NULL}
      BY <2>2
    <2>4. [m \in DOMAIN Append(outbox, calcs) |-> Append(outbox, calcs)[m].round] =
            Append([m \in DOMAIN outbox |-> outbox[m].round], calcs.round)
      <3> HIDE DEF IInv, TypeOK, computedBar, answersBar
      <3> QED
        BY <2>3, RoundsOfAppend
    <2>5. answersBar' = Append(answersBar, calcs.round)
      <3> HIDE DEF IInv, TypeOK
      <3> QED
        BY <2>1, <2>4
    <2> QED
      BY <2>1, <2>2, <2>5 DEF Service!Next, Service!Answer
  <1>19. ASSUME SendFails PROVE Same
    BY <1>19 DEF SendFails
  <1>20. ASSUME SignalSenderReady PROVE Same
    BY <1>20 DEF SignalSenderReady
  <1>21. ASSUME UNCHANGED vars PROVE Same
    BY <1>21 DEF vars, network, stocks, locals
  <1> QED
    BY <1>1, <1>2, <1>3, <1>4, <1>5, <1>6, <1>7, <1>8, <1>9, <1>10, <1>11,
       <1>12, <1>13, <1>14, <1>15, <1>16, <1>17, <1>18, <1>19, <1>20, <1>21
    DEF Next, RunListener, RunCalculator, RunSender, Service!vars

\* For any number of requests and losses: the calculator is never more than two
\* results ahead of the sender, and the m-th datagram carries the result of
\* round m or of round m + 1.
THEOREM ServerImplementsService == Spec => ImplementsResultService
  <1>1. Spec => []IInv
    BY InvariantHolds
  <1> QED
    BY <1>1, RefinedInit, RefinedStep, PTL
    DEF Spec, ImplementsResultService, Service!Spec
=============================================================================

---------------------------- MODULE Client_proofs ----------------------------
(***************************************************************************)
(* Proofs about Client, for any number of steps, calls per step and lost   *)
(* answers, against any server that keeps ResultService's promise.         *)
(***************************************************************************)
EXTENDS Client, TLAPS

\* The invariant holds once the threads have passed the barrier.
LEMMA InitIInv == Init => IInv
  <1> SUFFICES ASSUME Init PROVE IInv
    OBVIOUS
  <1> USE ClientAssumption
      DEF Init, FirstStatement, Ports, FIRST, SECOND, Workers, Threads, Calculator, Sender,
          Listener, Printer, InitiallyRaised
  <1>1. TypeOK /\ CallsCounted /\ OnlyListenerStops
    BY DEF TypeOK, ControlOK, CallsCounted, OnlyListenerStops, Batches, Packs,
           CalculatorAt, GetUAt, SenderAt, ListenerAt, PrinterAt, WorkersList, AddToList
  <1>2. StoppedAtTheEnd
    BY DEF StoppedAtTheEnd
  <1>3. SenderStockHasOneOwner /\ SenderHoldsRequest
    BY DEF SenderStockHasOneOwner, SenderHoldsRequest, StockHoldsRequest, ToFetch,
           Fetching, Fetched, Writing, Copied
  <1>4. ListenerStockHasOneOwner /\ AnswersAreRecent
    BY DEF ListenerStockHasOneOwner, AnswersAreRecent, ToStore, Storing, Stored,
           Reading, Read, Received
  <1> QED
    BY <1>1, <1>2, <1>3, <1>4 DEF IInv

\* A step that only ends the process keeps the types.
LEMMA ControlUnchanged ==
  ASSUME ControlOK, UNCHANGED <<network, raised, stocks, at, locals, closing>>,
         running' \in BOOLEAN
  PROVE  ControlOK'
  BY DEF ControlOK, network, stocks, locals, closing

\* Every step keeps the types.
LEMMA ControlStep == ControlOK /\ [Next]_vars => ControlOK'
  <1> SUFFICES ASSUME ControlOK, [Next]_vars PROVE ControlOK'
    OBVIOUS
  <1> USE ClientAssumption
      DEF ControlOK, Batches, Ports, FIRST, SECOND, Workers, Threads, Calculator,
          Sender, Listener, Printer, Packs, CalculatorAt, GetUAt, SenderAt,
          ListenerAt, PrinterAt, Step, Wait, Signal, network, stocks, locals,
          closing
  <1>1. ASSUME NEW arrives \in BOOLEAN, ServerAnswers(arrives) PROVE ControlOK'
    BY <1>1, SMTT(30) DEF ServerAnswers, Requested
  <1>2. ASSUME NEW w \in Workers, TakeSignal(w) PROVE ControlOK'
    BY <1>2 DEF TakeSignal
  <1>3. CASE NextStep
    BY <1>3 DEF NextStep
  <1>4. CASE WaitSenderFrom
    BY <1>4 DEF WaitSenderFrom
  <1>5. CASE AddFirstBatch
    BY <1>5 DEF AddFirstBatch
  <1>6. CASE AddSecondBatch
    BY <1>6 DEF AddSecondBatch
  <1>7. CASE SignalSenderTo
    BY <1>7 DEF SignalSenderTo, AfterSignal
  <1>8. CASE WaitListenerFrom
    BY <1>8 DEF WaitListenerFrom
  <1>9. CASE GetBatch
    BY <1>9 DEF GetBatch
  <1>10. CASE CleanBatchStock
    BY <1>10 DEF CleanBatchStock
  <1>11. CASE SignalListenerTo
    <2>1. stage' \in 1 .. CallsPerStep /\ step' \in Nat
      BY <1>11 DEF SignalListenerTo, MoreCalls
    <2>2. /\ raised' \in SUBSET Packs
          /\ at' \in [Threads -> CalculatorAt \cup SenderAt \cup ListenerAt \cup PrinterAt]
          /\ at'[Calculator] \in CalculatorAt
          /\ \A w \in Workers : at'[w] = at[w]
      BY <1>11 DEF SignalListenerTo, MoreCalls
    <2> QED
      BY <1>11, <2>1, <2>2 DEF SignalListenerTo
  <1>12. CASE WaitPrinterFrom
    BY <1>12 DEF WaitPrinterFrom
  <1>13. CASE SignalPrinterTo
    BY <1>13 DEF SignalPrinterTo
  <1>14. CASE StopWorker
    <2>1. workers[curr_worker] \in Workers
      BY <1>14 DEF StopWorker
    <2> QED
      BY <1>14, <2>1 DEF StopWorker, Killed
  <1>15. CASE JoinWorker
    BY <1>15 DEF JoinWorker
  <1>16. CASE Return
    BY <1>16 DEF Return
  <1>17. CASE WaitSenderTo
    BY <1>17 DEF WaitSenderTo
  <1>18. CASE FetchBatches
    <2>1. ASSUME NEW p \in Ports, NEW here \in SenderAt, NEW there \in SenderAt,
                 Fetch(p, here, there)
          PROVE  ControlOK'
      <3>1. fetched' \in [Ports -> Batches]
        BY <2>1 DEF Fetch
      <3> QED
        BY <2>1, <3>1 DEF Fetch
    <2> QED
      BY <1>18, <2>1 DEF FetchBatches, AfterFirstFetch
  <1>19. CASE SignalSenderFrom
    BY <1>19 DEF SignalSenderFrom
  <1>20. CASE SendCalcs
    <2>1. CASE Send(FIRST, "send_first", "send_second")
      BY <2>1 DEF Send
    <2>2. CASE Send(SECOND, "send_second", "wait_sender_to")
      BY <2>2 DEF Send
    <2> QED
      BY <1>20, <2>1, <2>2 DEF SendCalcs
  <1>21. CASE SendFails
    BY <1>21, ControlUnchanged DEF SendFails
  <1>22. CASE ReceivePacket
    BY <1>22 DEF ReceivePacket
  <1>23. CASE WaitListenerTo
    BY <1>23 DEF WaitListenerTo
  <1>24. CASE StoreBatch
    BY <1>24 DEF StoreBatch
  <1>25. CASE SignalListenerFrom
    BY <1>25 DEF SignalListenerFrom
  <1>26. CASE RunPrinter
    BY <1>26 DEF RunPrinter
  <1>27. CASE UNCHANGED vars
    BY <1>27 DEF vars
  <1> QED
    BY <1>1, <1>2, <1>3, <1>4, <1>5, <1>6, <1>7, <1>8, <1>9, <1>10, <1>11,
       <1>12, <1>13, <1>14, <1>15, <1>16, <1>17, <1>18, <1>19, <1>20, <1>21,
       <1>22, <1>23, <1>24, <1>25, <1>26, <1>27
    DEF Next, Process, RunCalculator, RunSender, RunListener

\* The sockets and the answers too.
LEMMA TypeStep == TypeOK /\ [Next]_vars => TypeOK'
  <1> SUFFICES ASSUME TypeOK, [Next]_vars PROVE TypeOK'
    OBVIOUS
  <1>1. ControlOK'
    BY ControlStep DEF TypeOK
  <1> USE <1>1
  <1>2. ASSUME NEW arrives \in BOOLEAN, ServerAnswers(arrives) PROVE TypeOK'
    BY <1>2, ClientAssumption DEF TypeOK, ServerAnswers, stocks, locals
  <1>3. CASE SendCalcs
    <2>1. PICK p \in Ports : to_server' = [to_server EXCEPT ![p] = Append(@, fetched[p])]
      BY <1>3 DEF SendCalcs, Send, Ports
    <2>2. to_server' \in [Ports -> Seq(Batches)]
      BY <2>1 DEF TypeOK, ControlOK
    <2> QED
      BY <1>3, <2>2 DEF TypeOK, SendCalcs, Send, stocks, locals
  <1>4. CASE ReceivePacket
    BY <1>4 DEF TypeOK, ReceivePacket, stocks, Batches
  <1>5. CASE GetBatch
    BY <1>5 DEF TypeOK, GetBatch, network, stocks
  <1>6. CASE CleanBatchStock
    BY <1>6 DEF TypeOK, CleanBatchStock, network, locals, Batches
  <1>7. CASE StoreBatch
    BY <1>7 DEF TypeOK, StoreBatch, network, locals
  <1>8. CASE UNCHANGED <<to_server, answers, answered, lost, listener_stock,
                         listener_batch, received_pack>>
    BY <1>8 DEF TypeOK
  <1> QED
    BY <1>2, <1>3, <1>4, <1>5, <1>6, <1>7, <1>8
    DEF Next, Process, RunCalculator, RunSender, RunListener, network, stocks, locals, vars,
        TakeSignal, NextStep, WaitSenderFrom, AddFirstBatch, AddSecondBatch,
        SignalSenderTo, WaitListenerFrom, SignalListenerTo, WaitPrinterFrom,
        SignalPrinterTo, StopWorker, JoinWorker, Return, WaitSenderTo, FetchBatches,
        Fetch, SignalSenderFrom, SendFails, WaitListenerTo, SignalListenerFrom, RunPrinter

\* SIGUSR1 is only sent by wait_workers_to_finish.
LEMMA StoppedStep == ControlOK /\ StoppedAtTheEnd /\ [Next]_vars => StoppedAtTheEnd'
  <1> SUFFICES ASSUME ControlOK, StoppedAtTheEnd, [Next]_vars
               PROVE  StoppedAtTheEnd'
    OBVIOUS
  <1> USE DEF ControlOK, StoppedAtTheEnd, Workers, Threads, Calculator, Sender,
              Listener, Printer, SenderAt, ListenerAt, Step, closing
  <1>1. ASSUME NEW arrives \in BOOLEAN, ServerAnswers(arrives) PROVE StoppedAtTheEnd'
    BY <1>1 DEF ServerAnswers, Requested
  <1>2. ASSUME NEW w \in Workers, TakeSignal(w) PROVE StoppedAtTheEnd'
    BY <1>2 DEF TakeSignal
  <1>3. CASE NextStep
    BY <1>3 DEF NextStep
  <1>4. CASE WaitSenderFrom
    BY <1>4 DEF WaitSenderFrom
  <1>5. CASE AddFirstBatch
    BY <1>5 DEF AddFirstBatch
  <1>6. CASE AddSecondBatch
    BY <1>6 DEF AddSecondBatch
  <1>7. CASE SignalSenderTo
    BY <1>7 DEF SignalSenderTo, AfterSignal
  <1>8. CASE WaitListenerFrom
    BY <1>8 DEF WaitListenerFrom
  <1>9. CASE GetBatch
    BY <1>9 DEF GetBatch
  <1>10. CASE CleanBatchStock
    BY <1>10 DEF CleanBatchStock
  <1>11. CASE SignalListenerTo
    BY <1>11 DEF SignalListenerTo, MoreCalls
  <1>12. CASE WaitPrinterFrom
    BY <1>12 DEF WaitPrinterFrom
  <1>13. CASE SignalPrinterTo
    BY <1>13 DEF SignalPrinterTo
  <1>14. CASE StopWorker
    BY <1>14 DEF StopWorker, Killed
  <1>15. CASE JoinWorker
    BY <1>15 DEF JoinWorker
  <1>16. CASE Return
    BY <1>16 DEF Return
  <1>17. CASE WaitSenderTo
    BY <1>17 DEF WaitSenderTo
  <1>18. CASE FetchBatches
    BY <1>18 DEF FetchBatches, Fetch, AfterFirstFetch
  <1>19. CASE SignalSenderFrom
    BY <1>19 DEF SignalSenderFrom
  <1>20. CASE SendCalcs
    BY <1>20 DEF SendCalcs, Send
  <1>21. CASE SendFails
    BY <1>21 DEF SendFails
  <1>22. CASE ReceivePacket
    BY <1>22 DEF ReceivePacket
  <1>23. CASE WaitListenerTo
    BY <1>23 DEF WaitListenerTo
  <1>24. CASE StoreBatch
    BY <1>24 DEF StoreBatch
  <1>25. CASE SignalListenerFrom
    BY <1>25 DEF SignalListenerFrom
  <1>26. CASE RunPrinter
    BY <1>26 DEF RunPrinter
  <1>27. CASE UNCHANGED vars
    BY <1>27 DEF vars
  <1> QED
    BY <1>1, <1>2, <1>3, <1>4, <1>5, <1>6, <1>7, <1>8, <1>9, <1>10, <1>11,
       <1>12, <1>13, <1>14, <1>15, <1>16, <1>17, <1>18, <1>19, <1>20, <1>21,
       <1>22, <1>23, <1>24, <1>25, <1>26, <1>27
    DEF Next, Process, RunCalculator, RunSender, RunListener

\* wait_workers_to_finish finds nothing but the listener in the list.
LEMMA OnlyListenerStep ==
  ControlOK /\ OnlyListenerStops /\ [Next]_vars => OnlyListenerStops'
  <1> SUFFICES ASSUME ControlOK, OnlyListenerStops, [Next]_vars
               PROVE  OnlyListenerStops'
    OBVIOUS
  <1> USE DEF ControlOK, OnlyListenerStops, Workers, Threads, Calculator, Sender,
              Listener, Printer, SenderAt, ListenerAt, Step, closing
  <1>1. ASSUME NEW arrives \in BOOLEAN, ServerAnswers(arrives) PROVE OnlyListenerStops'
    BY <1>1 DEF ServerAnswers, Requested
  <1>2. ASSUME NEW w \in Workers, TakeSignal(w) PROVE OnlyListenerStops'
    BY <1>2 DEF TakeSignal
  <1>3. CASE NextStep
    BY <1>3 DEF NextStep
  <1>4. CASE WaitSenderFrom
    BY <1>4 DEF WaitSenderFrom
  <1>5. CASE AddFirstBatch
    BY <1>5 DEF AddFirstBatch
  <1>6. CASE AddSecondBatch
    BY <1>6 DEF AddSecondBatch
  <1>7. CASE SignalSenderTo
    BY <1>7 DEF SignalSenderTo, AfterSignal
  <1>8. CASE WaitListenerFrom
    BY <1>8 DEF WaitListenerFrom
  <1>9. CASE GetBatch
    BY <1>9 DEF GetBatch
  <1>10. CASE CleanBatchStock
    BY <1>10 DEF CleanBatchStock
  <1>11. CASE SignalListenerTo
    BY <1>11 DEF SignalListenerTo, MoreCalls
  <1>12. CASE WaitPrinterFrom
    BY <1>12 DEF WaitPrinterFrom
  <1>13. CASE SignalPrinterTo
    BY <1>13 DEF SignalPrinterTo
  <1>14. CASE StopWorker
    <2>1. curr_worker = 1
      BY <1>14 DEF StopWorker
    <2> QED
      BY <1>14, <2>1 DEF StopWorker, Killed
  <1>15. CASE JoinWorker
    BY <1>15 DEF JoinWorker
  <1>16. CASE Return
    BY <1>16 DEF Return
  <1>17. CASE WaitSenderTo
    BY <1>17 DEF WaitSenderTo
  <1>18. CASE FetchBatches
    BY <1>18 DEF FetchBatches, Fetch, AfterFirstFetch
  <1>19. CASE SignalSenderFrom
    BY <1>19 DEF SignalSenderFrom
  <1>20. CASE SendCalcs
    BY <1>20 DEF SendCalcs, Send
  <1>21. CASE SendFails
    BY <1>21 DEF SendFails
  <1>22. CASE ReceivePacket
    BY <1>22 DEF ReceivePacket
  <1>23. CASE WaitListenerTo
    BY <1>23 DEF WaitListenerTo
  <1>24. CASE StoreBatch
    BY <1>24 DEF StoreBatch
  <1>25. CASE SignalListenerFrom
    BY <1>25 DEF SignalListenerFrom
  <1>26. CASE RunPrinter
    BY <1>26 DEF RunPrinter
  <1>27. CASE UNCHANGED vars
    BY <1>27 DEF vars
  <1> QED
    BY <1>1, <1>2, <1>3, <1>4, <1>5, <1>6, <1>7, <1>8, <1>9, <1>10, <1>11,
       <1>12, <1>13, <1>14, <1>15, <1>16, <1>17, <1>18, <1>19, <1>20, <1>21,
       <1>22, <1>23, <1>24, <1>25, <1>26, <1>27
    DEF Next, Process, RunCalculator, RunSender, RunListener

\* Every call of get_u makes one request.
LEMMA CallsCountedStep == ControlOK /\ CallsCounted /\ [Next]_vars => CallsCounted'
  <1> SUFFICES ASSUME ControlOK, CallsCounted, [Next]_vars PROVE CallsCounted'
    OBVIOUS
  <1> USE ClientAssumption
      DEF ControlOK, CallsCounted, GetUAt, Workers, Threads, Calculator, Sender,
          Listener, Printer, Step, locals
  <1>1. ASSUME NEW arrives \in BOOLEAN, ServerAnswers(arrives) PROVE CallsCounted'
    BY <1>1 DEF ServerAnswers, Requested
  <1>2. ASSUME NEW w \in Workers, TakeSignal(w) PROVE CallsCounted'
    BY <1>2 DEF TakeSignal
  <1>3. CASE NextStep
    BY <1>3 DEF NextStep
  <1>4. CASE WaitSenderFrom
    BY <1>4 DEF WaitSenderFrom
  <1>5. CASE AddFirstBatch
    BY <1>5 DEF AddFirstBatch
  <1>6. CASE AddSecondBatch
    BY <1>6 DEF AddSecondBatch
  <1>7. CASE SignalSenderTo
    BY <1>7 DEF SignalSenderTo, AfterSignal
  <1>8. CASE WaitListenerFrom
    BY <1>8 DEF WaitListenerFrom
  <1>9. CASE GetBatch
    BY <1>9 DEF GetBatch
  <1>10. CASE CleanBatchStock
    BY <1>10 DEF CleanBatchStock
  <1>11. CASE SignalListenerTo
    <2>1. \A n, m \in Nat : (n + 1) * m = n * m + m
      OBVIOUS
    <2>2. (step + 1) * CallsPerStep = step * CallsPerStep + CallsPerStep
      BY <2>1
    <2>3. step * CallsPerStep \in Nat
      OBVIOUS
    <2>4. CASE stage < CallsPerStep
      BY <1>11, <2>4 DEF SignalListenerTo, MoreCalls
    <2>5. CASE ~(stage < CallsPerStep)
      <3>1. /\ stage = CallsPerStep /\ stage' = 1 /\ step' = step + 1
            /\ at'[Calculator] = "wait_printer_from"
        BY <1>11, <2>5 DEF SignalListenerTo, MoreCalls
      <3>2. /\ step < Steps /\ request' = request
            /\ request = step * CallsPerStep + stage + 1
        BY <1>11 DEF SignalListenerTo, MoreCalls
      <3>3. /\ step' <= Steps
            /\ request' = step' * CallsPerStep + stage'
        BY <2>2, <2>3, <3>1, <3>2
      <3> QED
        BY <3>1, <3>3
    <2> QED
      BY <2>4, <2>5
  <1>12. CASE WaitPrinterFrom
    BY <1>12 DEF WaitPrinterFrom
  <1>13. CASE SignalPrinterTo
    BY <1>13 DEF SignalPrinterTo
  <1>14. CASE StopWorker
    BY <1>14 DEF StopWorker, Killed
  <1>15. CASE JoinWorker
    BY <1>15 DEF JoinWorker
  <1>16. CASE Return
    BY <1>16 DEF Return
  <1>17. CASE WaitSenderTo
    BY <1>17 DEF WaitSenderTo
  <1>18. CASE FetchBatches
    BY <1>18 DEF FetchBatches, Fetch, AfterFirstFetch
  <1>19. CASE SignalSenderFrom
    BY <1>19 DEF SignalSenderFrom
  <1>20. CASE SendCalcs
    BY <1>20 DEF SendCalcs, Send
  <1>21. CASE SendFails
    BY <1>21 DEF SendFails
  <1>22. CASE ReceivePacket
    BY <1>22 DEF ReceivePacket
  <1>23. CASE WaitListenerTo
    BY <1>23 DEF WaitListenerTo
  <1>24. CASE StoreBatch
    BY <1>24 DEF StoreBatch
  <1>25. CASE SignalListenerFrom
    BY <1>25 DEF SignalListenerFrom
  <1>26. CASE RunPrinter
    BY <1>26 DEF RunPrinter
  <1>27. CASE UNCHANGED vars
    BY <1>27 DEF vars
  <1> QED
    BY <1>1, <1>2, <1>3, <1>4, <1>5, <1>6, <1>7, <1>8, <1>9, <1>10, <1>11,
       <1>12, <1>13, <1>14, <1>15, <1>16, <1>17, <1>18, <1>19, <1>20, <1>21,
       <1>22, <1>23, <1>24, <1>25, <1>26, <1>27
    DEF Next, Process, RunCalculator, RunSender, RunListener

\* get_u and run_sender hand the SenderStock to each other.
LEMMA SenderOwnerStep ==
  ControlOK /\ SenderStockHasOneOwner /\ [Next]_vars => SenderStockHasOneOwner'
  <1> SUFFICES ASSUME ControlOK, SenderStockHasOneOwner, [Next]_vars
               PROVE  SenderStockHasOneOwner'
    OBVIOUS
  <1> USE DEF ControlOK, SenderStockHasOneOwner, ToFetch, Fetching, Fetched,
              Writing, Ports, FIRST, SECOND, Workers, Threads,
              Calculator, Sender, Listener, Printer, Step, Wait, Signal, network,
              stocks, locals, closing
  <1>1. ASSUME NEW arrives \in BOOLEAN, ServerAnswers(arrives) PROVE SenderStockHasOneOwner'
    BY <1>1 DEF ServerAnswers, Requested
  <1>2. ASSUME NEW w \in Workers, TakeSignal(w) PROVE SenderStockHasOneOwner'
    BY <1>2 DEF TakeSignal
  <1>3. CASE NextStep
    BY <1>3 DEF NextStep
  <1>4. CASE WaitSenderFrom
    BY <1>4 DEF WaitSenderFrom
  <1>5. CASE AddFirstBatch
    BY <1>5 DEF AddFirstBatch
  <1>6. CASE AddSecondBatch
    BY <1>6 DEF AddSecondBatch
  <1>7. CASE SignalSenderTo
    BY <1>7 DEF SignalSenderTo, AfterSignal
  <1>8. CASE WaitListenerFrom
    BY <1>8 DEF WaitListenerFrom
  <1>9. CASE GetBatch
    BY <1>9 DEF GetBatch
  <1>10. CASE CleanBatchStock
    BY <1>10 DEF CleanBatchStock
  <1>11. CASE SignalListenerTo
    BY <1>11 DEF SignalListenerTo, MoreCalls
  <1>12. CASE WaitPrinterFrom
    BY <1>12 DEF WaitPrinterFrom
  <1>13. CASE SignalPrinterTo
    BY <1>13 DEF SignalPrinterTo
  <1>14. CASE StopWorker
    BY <1>14 DEF StopWorker, Killed
  <1>15. CASE JoinWorker
    BY <1>15 DEF JoinWorker
  <1>16. CASE Return
    BY <1>16 DEF Return
  <1>17. CASE WaitSenderTo
    BY <1>17 DEF WaitSenderTo
  <1>18. CASE FetchBatches
    BY <1>18 DEF FetchBatches, Fetch, AfterFirstFetch
  <1>19. CASE SignalSenderFrom
    BY <1>19 DEF SignalSenderFrom
  <1>20. CASE SendCalcs
    BY <1>20 DEF SendCalcs, Send
  <1>21. CASE SendFails
    BY <1>21 DEF SendFails
  <1>22. CASE ReceivePacket
    BY <1>22 DEF ReceivePacket
  <1>23. CASE WaitListenerTo
    BY <1>23 DEF WaitListenerTo
  <1>24. CASE StoreBatch
    BY <1>24 DEF StoreBatch
  <1>25. CASE SignalListenerFrom
    BY <1>25 DEF SignalListenerFrom
  <1>26. CASE RunPrinter
    BY <1>26 DEF RunPrinter
  <1>27. CASE UNCHANGED vars
    BY <1>27 DEF vars
  <1> QED
    BY <1>1, <1>2, <1>3, <1>4, <1>5, <1>6, <1>7, <1>8, <1>9, <1>10, <1>11,
       <1>12, <1>13, <1>14, <1>15, <1>16, <1>17, <1>18, <1>19, <1>20, <1>21,
       <1>22, <1>23, <1>24, <1>25, <1>26, <1>27
    DEF Next, Process, RunCalculator, RunSender, RunListener

\* Only the owner of the SenderStock writes or copies it.
LEMMA StockHoldsStep ==
  /\ ControlOK /\ SenderStockHasOneOwner /\ StockHoldsRequest
  /\ [Next]_vars
  => StockHoldsRequest'
  <1> SUFFICES ASSUME ControlOK, SenderStockHasOneOwner, StockHoldsRequest, [Next]_vars
               PROVE  StockHoldsRequest'
    OBVIOUS
  <1> USE DEF ControlOK, SenderStockHasOneOwner, StockHoldsRequest, ToFetch, Fetching,
              Fetched, Writing, Copied, SenderAt, Ports, FIRST, SECOND, Workers, Threads,
              Calculator, Sender, Listener, Printer, Step, Wait, Signal, network,
              stocks, locals, closing
  <1>1. ASSUME NEW arrives \in BOOLEAN, ServerAnswers(arrives) PROVE StockHoldsRequest'
    BY <1>1 DEF ServerAnswers, Requested
  <1>2. ASSUME NEW w \in Workers, TakeSignal(w) PROVE StockHoldsRequest'
    BY <1>2 DEF TakeSignal
  <1>3. CASE NextStep
    BY <1>3 DEF NextStep
  <1>4. CASE WaitSenderFrom
    BY <1>4 DEF WaitSenderFrom
  <1>5. CASE AddFirstBatch
    BY <1>5 DEF AddFirstBatch
  <1>6. CASE AddSecondBatch
    BY <1>6 DEF AddSecondBatch
  <1>7. CASE SignalSenderTo
    BY <1>7 DEF SignalSenderTo, AfterSignal
  <1>8. CASE WaitListenerFrom
    BY <1>8 DEF WaitListenerFrom
  <1>9. CASE GetBatch
    BY <1>9 DEF GetBatch
  <1>10. CASE CleanBatchStock
    BY <1>10 DEF CleanBatchStock
  <1>11. CASE SignalListenerTo
    BY <1>11 DEF SignalListenerTo, MoreCalls
  <1>12. CASE WaitPrinterFrom
    BY <1>12 DEF WaitPrinterFrom
  <1>13. CASE SignalPrinterTo
    BY <1>13 DEF SignalPrinterTo
  <1>14. CASE StopWorker
    BY <1>14 DEF StopWorker, Killed
  <1>15. CASE JoinWorker
    BY <1>15 DEF JoinWorker
  <1>16. CASE Return
    BY <1>16 DEF Return
  <1>17. CASE WaitSenderTo
    BY <1>17 DEF WaitSenderTo
  <1>18. CASE FetchBatches
    BY <1>18 DEF FetchBatches, Fetch, AfterFirstFetch
  <1>19. CASE SignalSenderFrom
    BY <1>19 DEF SignalSenderFrom
  <1>20. CASE SendCalcs
    BY <1>20 DEF SendCalcs, Send
  <1>21. CASE SendFails
    BY <1>21 DEF SendFails
  <1>22. CASE ReceivePacket
    BY <1>22 DEF ReceivePacket
  <1>23. CASE WaitListenerTo
    BY <1>23 DEF WaitListenerTo
  <1>24. CASE StoreBatch
    BY <1>24 DEF StoreBatch
  <1>25. CASE SignalListenerFrom
    BY <1>25 DEF SignalListenerFrom
  <1>26. CASE RunPrinter
    BY <1>26 DEF RunPrinter
  <1>27. CASE UNCHANGED vars
    BY <1>27 DEF vars
  <1> QED
    BY <1>1, <1>2, <1>3, <1>4, <1>5, <1>6, <1>7, <1>8, <1>9, <1>10, <1>11,
       <1>12, <1>13, <1>14, <1>15, <1>16, <1>17, <1>18, <1>19, <1>20, <1>21,
       <1>22, <1>23, <1>24, <1>25, <1>26, <1>27
    DEF Next, Process, RunCalculator, RunSender, RunListener

\* The sockets get what the sender has copied.
LEMMA SenderHoldsStep == IInv /\ [Next]_vars => SenderHoldsRequest'
  <1> SUFFICES ASSUME IInv, [Next]_vars PROVE SenderHoldsRequest'
    OBVIOUS
  <1>0. StockHoldsRequest'
    BY StockHoldsStep DEF IInv, TypeOK, SenderHoldsRequest
  <1> USE <1>0
      DEF IInv, TypeOK, ControlOK, SenderStockHasOneOwner, SenderHoldsRequest, ToFetch,
              Fetching, Fetched, Writing, Copied, SenderAt, Ports, FIRST, SECOND, Workers, Threads,
              Calculator, Sender, Listener, Printer, Step, Wait, Signal, network,
              stocks, locals, closing
  <1>1. ASSUME NEW arrives \in BOOLEAN, ServerAnswers(arrives) PROVE SenderHoldsRequest'
    BY <1>1 DEF ServerAnswers, Requested
  <1>2. ASSUME NEW w \in Workers, TakeSignal(w) PROVE SenderHoldsRequest'
    BY <1>2 DEF TakeSignal
  <1>3. CASE NextStep
    BY <1>3 DEF NextStep
  <1>4. CASE WaitSenderFrom
    BY <1>4 DEF WaitSenderFrom
  <1>5. CASE AddFirstBatch
    BY <1>5 DEF AddFirstBatch
  <1>6. CASE AddSecondBatch
    BY <1>6 DEF AddSecondBatch
  <1>7. CASE SignalSenderTo
    BY <1>7 DEF SignalSenderTo, AfterSignal
  <1>8. CASE WaitListenerFrom
    BY <1>8 DEF WaitListenerFrom
  <1>9. CASE GetBatch
    BY <1>9 DEF GetBatch
  <1>10. CASE CleanBatchStock
    BY <1>10 DEF CleanBatchStock
  <1>11. CASE SignalListenerTo
    BY <1>11 DEF SignalListenerTo, MoreCalls
  <1>12. CASE WaitPrinterFrom
    BY <1>12 DEF WaitPrinterFrom
  <1>13. CASE SignalPrinterTo
    BY <1>13 DEF SignalPrinterTo
  <1>14. CASE StopWorker
    BY <1>14 DEF StopWorker, Killed
  <1>15. CASE JoinWorker
    BY <1>15 DEF JoinWorker
  <1>16. CASE Return
    BY <1>16 DEF Return
  <1>17. CASE WaitSenderTo
    BY <1>17 DEF WaitSenderTo
  <1>18. CASE FetchBatches
    BY <1>18 DEF FetchBatches, Fetch, AfterFirstFetch
  <1>19. CASE SignalSenderFrom
    BY <1>19 DEF SignalSenderFrom
  <1>20. CASE SendCalcs
    <2>1. ASSUME Send(FIRST, "send_first", "send_second")
          PROVE  SenderHoldsRequest'
      <3>1. /\ to_server'[FIRST] = Append(to_server[FIRST], fetched[FIRST])
            /\ to_server'[SECOND] = to_server[SECOND]
        BY <2>1 DEF Send
      <3>2. Len(to_server'[FIRST]) = Len(to_server[FIRST]) + 1
        BY <3>1
      <3> QED
        BY <2>1, <3>1, <3>2 DEF Send
    <2>2. ASSUME Send(SECOND, "send_second", "wait_sender_to")
          PROVE  SenderHoldsRequest'
      <3>1. /\ to_server'[SECOND] = Append(to_server[SECOND], fetched[SECOND])
            /\ to_server'[FIRST] = to_server[FIRST]
        BY <2>2 DEF Send
      <3>2. Len(to_server'[SECOND]) = Len(to_server[SECOND]) + 1
        BY <3>1
      <3> QED
        BY <2>2, <3>1, <3>2 DEF Send
    <2> QED
      BY <1>20, <2>1, <2>2 DEF SendCalcs
  <1>21. CASE SendFails
    BY <1>21 DEF SendFails
  <1>22. CASE ReceivePacket
    BY <1>22 DEF ReceivePacket
  <1>23. CASE WaitListenerTo
    BY <1>23 DEF WaitListenerTo
  <1>24. CASE StoreBatch
    BY <1>24 DEF StoreBatch
  <1>25. CASE SignalListenerFrom
    BY <1>25 DEF SignalListenerFrom
  <1>26. CASE RunPrinter
    BY <1>26 DEF RunPrinter
  <1>27. CASE UNCHANGED vars
    BY <1>27 DEF vars
  <1> QED
    BY <1>1, <1>2, <1>3, <1>4, <1>5, <1>6, <1>7, <1>8, <1>9, <1>10, <1>11,
       <1>12, <1>13, <1>14, <1>15, <1>16, <1>17, <1>18, <1>19, <1>20, <1>21,
       <1>22, <1>23, <1>24, <1>25, <1>26, <1>27
    DEF Next, Process, RunCalculator, RunSender, RunListener

\* get_u and run_listener hand the listener_stock to each other.
LEMMA ListenerOwnerStep ==
  /\ ControlOK /\ ListenerStockHasOneOwner
  /\ at[Listener] = "store_batch" => received_pack # NULL
  /\ [Next]_vars
  => ListenerStockHasOneOwner'
  <1> SUFFICES ASSUME ControlOK, ListenerStockHasOneOwner, [Next]_vars,
                      at[Listener] = "store_batch" => received_pack # NULL
               PROVE  ListenerStockHasOneOwner'
    OBVIOUS
  <1> USE DEF ControlOK, ListenerStockHasOneOwner, ToStore,
              Storing, Stored, Reading, Ports, FIRST, SECOND, Workers, Threads,
              Calculator, Sender, Listener, Printer, Step, Wait, Signal, network,
              stocks, locals, closing
  <1>1. ASSUME NEW arrives \in BOOLEAN, ServerAnswers(arrives) PROVE ListenerStockHasOneOwner'
    BY <1>1 DEF ServerAnswers, Requested
  <1>2. ASSUME NEW w \in Workers, TakeSignal(w) PROVE ListenerStockHasOneOwner'
    BY <1>2 DEF TakeSignal
  <1>3. CASE NextStep
    BY <1>3 DEF NextStep
  <1>4. CASE WaitSenderFrom
    BY <1>4 DEF WaitSenderFrom
  <1>5. CASE AddFirstBatch
    BY <1>5 DEF AddFirstBatch
  <1>6. CASE AddSecondBatch
    BY <1>6 DEF AddSecondBatch
  <1>7. CASE SignalSenderTo
    BY <1>7 DEF SignalSenderTo, AfterSignal
  <1>8. CASE WaitListenerFrom
    BY <1>8 DEF WaitListenerFrom
  <1>9. CASE GetBatch
    BY <1>9 DEF GetBatch
  <1>10. CASE CleanBatchStock
    BY <1>10 DEF CleanBatchStock
  <1>11. CASE SignalListenerTo
    BY <1>11 DEF SignalListenerTo, MoreCalls
  <1>12. CASE WaitPrinterFrom
    BY <1>12 DEF WaitPrinterFrom
  <1>13. CASE SignalPrinterTo
    BY <1>13 DEF SignalPrinterTo
  <1>14. CASE StopWorker
    BY <1>14 DEF StopWorker, Killed
  <1>15. CASE JoinWorker
    BY <1>15 DEF JoinWorker
  <1>16. CASE Return
    BY <1>16 DEF Return
  <1>17. CASE WaitSenderTo
    BY <1>17 DEF WaitSenderTo
  <1>18. CASE FetchBatches
    BY <1>18 DEF FetchBatches, Fetch, AfterFirstFetch
  <1>19. CASE SignalSenderFrom
    BY <1>19 DEF SignalSenderFrom
  <1>20. CASE SendCalcs
    BY <1>20 DEF SendCalcs, Send
  <1>21. CASE SendFails
    BY <1>21 DEF SendFails
  <1>22. CASE ReceivePacket
    BY <1>22 DEF ReceivePacket
  <1>23. CASE WaitListenerTo
    BY <1>23 DEF WaitListenerTo
  <1>24. CASE StoreBatch
    BY <1>24 DEF StoreBatch
  <1>25. CASE SignalListenerFrom
    BY <1>25 DEF SignalListenerFrom
  <1>26. CASE RunPrinter
    BY <1>26 DEF RunPrinter
  <1>27. CASE UNCHANGED vars
    BY <1>27 DEF vars
  <1> QED
    BY <1>1, <1>2, <1>3, <1>4, <1>5, <1>6, <1>7, <1>8, <1>9, <1>10, <1>11,
       <1>12, <1>13, <1>14, <1>15, <1>16, <1>17, <1>18, <1>19, <1>20, <1>21,
       <1>22, <1>23, <1>24, <1>25, <1>26, <1>27
    DEF Next, Process, RunCalculator, RunSender, RunListener

\* Answers stay in order from the socket to get_u.
LEMMA RecentStep == IInv /\ [Next]_vars => AnswersAreRecent'
  <1> SUFFICES ASSUME IInv, [Next]_vars PROVE AnswersAreRecent'
    OBVIOUS
  <1> USE ClientAssumption
      DEF IInv, TypeOK, ControlOK, ListenerStockHasOneOwner, AnswersAreRecent, ToStore,
              Storing, Stored, Reading, Read, Received, ListenerAt, Ports, FIRST, SECOND, Workers, Threads,
              Calculator, Sender, Listener, Printer, Step, Wait, Signal, network,
              stocks, locals, closing
  <1>1. ASSUME NEW arrives \in BOOLEAN, ServerAnswers(arrives) PROVE AnswersAreRecent'
    <2>1. PICK n \in {answered + 1, answered + 2} :
            /\ Requested(n)
            /\ answers' = IF arrives THEN Append(answers, n) ELSE answers
      BY <1>1 DEF ServerAnswers
    <2>2. /\ Received \in Int /\ Read \in Int
          /\ Received' = Received /\ Read' = Read
          /\ at' = at /\ to_server' = to_server /\ request' = request
          /\ received_pack' = received_pack /\ listener_stock' = listener_stock
          /\ listener_batch' = listener_batch /\ answered' = answered + 1
      BY <1>1 DEF ServerAnswers
    <2>3. n \in Int /\ n > answered /\ n <= request
      BY <2>1 DEF Requested, SenderHoldsRequest
    <2> HIDE DEF Received, Read, IInv, ListenerStockHasOneOwner
    <2>4. AnswersAreRecent /\ answers \in Seq(Nat) /\ answered \in Nat /\ request \in Nat
      BY DEF IInv
    <2>5. \A p \in Ports : answered' <= Len(to_server'[p])
      BY <2>1, <2>2, <2>3, <2>4 DEF Requested
    <2>6. ASSUME at[Listener] # "exited"
          PROVE  /\ Received + Len(answers') <= answered'
                 /\ \A i \in DOMAIN answers' : answers'[i] \in (Received + i) .. request
      <3>1. CASE arrives
        <4>1. answers' = Append(answers, n) /\ Len(answers') = Len(answers) + 1
          BY <2>1, <2>3, <2>4, <3>1
        <4>2. \A i \in DOMAIN answers' : \/ i \in DOMAIN answers /\ answers'[i] = answers[i]
                                         \/ i = Len(answers) + 1 /\ answers'[i] = n
          BY <2>3, <2>4, <4>1
        <4> QED
          BY <2>2, <2>3, <2>4, <2>6, <4>1, <4>2
      <3>2. CASE ~arrives
        BY <2>1, <2>2, <2>4, <2>6, <3>2
      <3> QED
        BY <3>1, <3>2
    <2> QED
      BY <2>2, <2>4, <2>5, <2>6
  <1>2. ASSUME NEW w \in Workers, TakeSignal(w) PROVE AnswersAreRecent'
    <2>1. UNCHANGED <<to_server, answered>>
      BY <1>2 DEF TakeSignal
    <2>2. CASE w = Listener
      <3>1. at'[Listener] = "exited"
        BY <1>2, <2>2 DEF TakeSignal
      <3> QED
        BY <2>1, <3>1
    <2>3. CASE w # Listener
      <3>1. at'[Listener] = at[Listener] /\ at'[Calculator] = at[Calculator]
        BY <1>2, <2>3 DEF TakeSignal
      <3>2. UNCHANGED <<network, raised, stocks, locals>>
        BY <1>2 DEF TakeSignal
      <3>3. Received' = Received /\ Read' = Read
        BY <3>1, <3>2
      <3> HIDE DEF Received, Read
      <3> QED
        BY <2>1, <3>1, <3>2, <3>3
    <2> QED
      BY <2>2, <2>3
  <1>3. CASE NextStep
    BY <1>3 DEF NextStep
  <1>4. CASE WaitSenderFrom
    BY <1>4 DEF WaitSenderFrom
  <1>5. CASE AddFirstBatch
    <2>1. /\ at[Calculator] = "add_first_batch" /\ at'[Calculator] = "add_second_batch"
          /\ at'[Listener] = at[Listener] /\ request' = request + 1
          /\ UNCHANGED <<network, raised, listener_stock, listener_batch, received_pack>>
      BY <1>5 DEF AddFirstBatch
    <2>2. Read \in Int /\ Received \in Int /\ Read' = Read /\ Received' = Received
      BY <2>1
    <2> HIDE DEF Received, Read, IInv, ListenerStockHasOneOwner
    <2>3. AnswersAreRecent /\ answers \in Seq(Nat) /\ answered \in Nat /\ request \in Nat
      BY DEF IInv
    <2> QED
      BY <2>1, <2>2, <2>3
  <1>6. CASE AddSecondBatch
    BY <1>6 DEF AddSecondBatch
  <1>7. CASE SignalSenderTo
    BY <1>7 DEF SignalSenderTo, AfterSignal
  <1>8. CASE WaitListenerFrom
    BY <1>8 DEF WaitListenerFrom
  <1>9. CASE GetBatch
    BY <1>9 DEF GetBatch
  <1>10. CASE CleanBatchStock
    BY <1>10 DEF CleanBatchStock
  <1>11. CASE SignalListenerTo
    <2>1. /\ at[Calculator] = "signal_listener_to"
          /\ at'[Calculator] \in {"wait_sender_from", "wait_printer_from"}
          /\ at'[Listener] = at[Listener]
          /\ UNCHANGED <<network, stocks, request, listener_batch, received_pack>>
      BY <1>11 DEF SignalListenerTo, MoreCalls
    <2>2. CASE at[Listener] = "exited"
      BY <2>1, <2>2
    <2>3. CASE at[Listener] # "exited"
      <3>1. listener_stock = NULL /\ ~Storing /\ ~Stored
        BY <2>1, <2>3
      <3>2. /\ Storing' = Storing /\ Stored' = Stored /\ Reading /\ ~Reading'
            /\ Read \in Int /\ Read' = Read + 1
        BY <1>11, <2>1 DEF SignalListenerTo
      <3>3. Received \in Int /\ Received' = Received
        <4> HIDE DEF Storing, Stored, Reading, Read, IInv, ListenerStockHasOneOwner
        <4> QED
          BY <2>1, <3>1, <3>2
      <3> HIDE DEF Received, Read, IInv, ListenerStockHasOneOwner
      <3>4. AnswersAreRecent /\ answers \in Seq(Nat) /\ answered \in Nat /\ request \in Nat
        BY DEF IInv
      <3> QED
        BY <2>1, <2>3, <3>1, <3>3, <3>4
    <2> QED
      BY <2>2, <2>3
  <1>12. CASE WaitPrinterFrom
    BY <1>12 DEF WaitPrinterFrom
  <1>13. CASE SignalPrinterTo
    BY <1>13 DEF SignalPrinterTo
  <1>14. CASE StopWorker
    BY <1>14 DEF StopWorker, Killed
  <1>15. CASE JoinWorker
    BY <1>15 DEF JoinWorker
  <1>16. CASE Return
    BY <1>16 DEF Return
  <1>17. CASE WaitSenderTo
    BY <1>17 DEF WaitSenderTo
  <1>18. CASE FetchBatches
    <2>1. ASSUME NEW p \in Ports, NEW here \in SenderAt, NEW there \in SenderAt,
                 Fetch(p, here, there)
          PROVE  AnswersAreRecent'
      BY <2>1 DEF Fetch
    <2> QED
      BY <1>18, <2>1 DEF FetchBatches, AfterFirstFetch, SenderAt
  <1>19. CASE SignalSenderFrom
    BY <1>19 DEF SignalSenderFrom
  <1>20. CASE SendCalcs
    <2>1. CASE Send(FIRST, "send_first", "send_second")
      <3>1. \A p \in Ports : Len(to_server'[p]) >= Len(to_server[p])
        BY <2>1 DEF Send
      <3> QED
        BY <2>1, <3>1 DEF Send
    <2>2. CASE Send(SECOND, "send_second", "wait_sender_to")
      <3>1. \A p \in Ports : Len(to_server'[p]) >= Len(to_server[p])
        BY <2>2 DEF Send
      <3> QED
        BY <2>2, <3>1 DEF Send
    <2> QED
      BY <1>20, <2>1, <2>2 DEF SendCalcs
  <1>21. CASE SendFails
    BY <1>21 DEF SendFails
  <1>22. CASE ReceivePacket
    <2>1. /\ at[Listener] = "receive_packet" /\ at'[Listener] = "wait_listener_to"
          /\ answers # <<>> /\ received_pack' = answers[1]
          /\ at'[Calculator] = at[Calculator]
          /\ UNCHANGED <<to_server, answered, request, listener_stock, listener_batch>>
      BY <1>22 DEF ReceivePacket
    <2>2. /\ Len(answers') = Len(answers) - 1
          /\ \A i \in DOMAIN answers' : answers'[i] = answers[i + 1] /\ i + 1 \in DOMAIN answers
      <3>1. answers \in Seq(Nat) /\ answers # <<>> /\ answers' = Tail(answers)
        BY <1>22 DEF ReceivePacket
      <3> HIDE DEF IInv, TypeOK, ControlOK, AnswersAreRecent, ListenerStockHasOneOwner
      <3> QED
        BY <3>1
    <2>3. /\ Received \in Int /\ Read \in Int
          /\ Received' = Received + 1 /\ Read' = Read
      BY <1>22 DEF ReceivePacket
    <2> HIDE DEF Received, Read, IInv, ListenerStockHasOneOwner
    <2>4. AnswersAreRecent /\ answers \in Seq(Nat) /\ answered \in Nat /\ request \in Nat
      BY DEF IInv
    <2>5. Received' + Len(answers') <= answered'
      BY <2>1, <2>2, <2>3, <2>4
    <2>6. ASSUME NEW i \in DOMAIN answers'
          PROVE  answers'[i] \in (Received' + i) .. request'
      <3>1. i \in Nat
        BY <1>22 DEF ReceivePacket
      <3>2. answers[i + 1] \in (Received + (i + 1)) .. request
        BY <2>1, <2>2, <2>4
      <3> QED
        BY <2>1, <2>2, <2>3, <2>4, <3>1, <3>2
    <2>7. received_pack' \in Received' .. request'
      BY <2>1, <2>3, <2>4
    <2> QED
      BY <2>1, <2>3, <2>4, <2>5, <2>6, <2>7
  <1>23. CASE WaitListenerTo
    BY <1>23 DEF WaitListenerTo
  <1>24. CASE StoreBatch
    BY <1>24 DEF StoreBatch
  <1>25. CASE SignalListenerFrom
    BY <1>25 DEF SignalListenerFrom
  <1>26. CASE RunPrinter
    BY <1>26 DEF RunPrinter
  <1>27. CASE UNCHANGED vars
    BY <1>27 DEF vars
  <1> QED
    BY <1>1, <1>2, <1>3, <1>4, <1>5, <1>6, <1>7, <1>8, <1>9, <1>10, <1>11,
       <1>12, <1>13, <1>14, <1>15, <1>16, <1>17, <1>18, <1>19, <1>20, <1>21,
       <1>22, <1>23, <1>24, <1>25, <1>26, <1>27
    DEF Next, Process, RunCalculator, RunSender, RunListener

\* The sender hands each port the requests in order.
LEMMA WholeStep ==
  TypeOK /\ SenderHoldsRequest /\ RequestsAreWhole /\ [Next]_vars => RequestsAreWhole'
  <1> SUFFICES ASSUME TypeOK, SenderHoldsRequest, RequestsAreWhole, [Next]_vars
               PROVE  RequestsAreWhole'
    OBVIOUS
  <1>1. CASE SendCalcs
    <2>1. PICK p \in Ports : to_server' = [to_server EXCEPT ![p] = Append(@, fetched[p])]
      BY <1>1 DEF SendCalcs, Send, Ports
    <2>2. fetched[p] = Len(to_server[p]) + 1
      <3>1. Copied \in Int
        BY DEF Copied, TypeOK, ControlOK
      <3>2. CASE Send(FIRST, "send_first", "send_second")
        <4>1. p = FIRST
          BY <2>1, <3>2
          DEF Send, Ports, FIRST, SECOND, TypeOK, ControlOK
        <4> QED
          BY <3>1, <3>2, <4>1
          DEF Send, Step, SenderHoldsRequest, StockHoldsRequest, TypeOK, ControlOK, Sender, Workers, Threads
      <3>3. CASE Send(SECOND, "send_second", "wait_sender_to")
        <4>1. p = SECOND
          BY <2>1, <3>3
          DEF Send, Ports, FIRST, SECOND, TypeOK, ControlOK
        <4> QED
          BY <3>1, <3>3, <4>1
          DEF Send, Step, SenderHoldsRequest, StockHoldsRequest, TypeOK, ControlOK, Sender, Workers, Threads
      <3> QED
        BY <1>1, <3>2, <3>3 DEF SendCalcs
    <2>3. /\ to_server[p] \in Seq(Batches) /\ fetched[p] \in Batches
          /\ to_server'[p] = Append(to_server[p], fetched[p])
          /\ \A q \in Ports \ {p} : to_server'[q] = to_server[q]
      BY <2>1 DEF TypeOK, ControlOK
    <2>4. \A m \in DOMAIN to_server'[p] : to_server'[p][m] = m
      BY <2>2, <2>3 DEF RequestsAreWhole
    <2> QED
      BY <2>3, <2>4 DEF RequestsAreWhole
  <1>2. CASE to_server' = to_server
    BY <1>2 DEF RequestsAreWhole
  <1> QED
    BY <1>1, <1>2
    DEF Next, Process, RunCalculator, RunSender, RunListener, network, locals, vars,
        ServerAnswers, TakeSignal, NextStep, WaitSenderFrom, AddFirstBatch,
        AddSecondBatch, SignalSenderTo, WaitListenerFrom, GetBatch, CleanBatchStock,
        SignalListenerTo, WaitPrinterFrom, SignalPrinterTo, StopWorker, JoinWorker,
        Return, WaitSenderTo, FetchBatches, Fetch, SignalSenderFrom, SendFails,
        ReceivePacket, WaitListenerTo, StoreBatch, SignalListenerFrom, RunPrinter

\* A new answer waits only for a request that was sent.
AnswersBehindRequests == Read + Len(answers) <= answered

LEMMA WaitingStep ==
  IInv /\ AnswersBehindRequests /\ [Next]_vars => AnswersBehindRequests'
  <1> SUFFICES ASSUME IInv, AnswersBehindRequests, [Next]_vars
               PROVE  AnswersBehindRequests'
    OBVIOUS
  <1> USE DEF IInv, TypeOK, ControlOK, StoppedAtTheEnd, ListenerStockHasOneOwner,
              AnswersAreRecent, AnswersBehindRequests, Storing, Stored, Reading, Read,
              Received, Workers, Threads, Calculator, Sender, Listener, Printer, Step,
              Wait, Signal, network, stocks, locals, closing
  <1>1. ASSUME NEW arrives \in BOOLEAN, ServerAnswers(arrives) PROVE AnswersBehindRequests'
    <2>1. PICK n \in {answered + 1, answered + 2} :
            answers' = IF arrives THEN Append(answers, n) ELSE answers
      BY <1>1 DEF ServerAnswers
    <2>2. /\ Len(answers') \in Nat /\ Len(answers) \in Nat
          /\ Len(answers') <= Len(answers) + 1
      BY <2>1
    <2>3. Read \in Int /\ Read' = Read /\ answered' = answered + 1
      BY <1>1 DEF ServerAnswers
    <2> HIDE DEF Read, IInv
    <2>4. answered \in Nat
      BY DEF IInv
    <2> QED
      BY <2>2, <2>3, <2>4
  <1>2. ASSUME NEW w \in Workers, TakeSignal(w) PROVE AnswersBehindRequests'
    BY <1>2 DEF TakeSignal
  <1>3. CASE NextStep
    BY <1>3 DEF NextStep
  <1>4. CASE WaitSenderFrom
    BY <1>4 DEF WaitSenderFrom
  <1>5. CASE AddFirstBatch
    BY <1>5 DEF AddFirstBatch
  <1>6. CASE AddSecondBatch
    BY <1>6 DEF AddSecondBatch
  <1>7. CASE SignalSenderTo
    BY <1>7 DEF SignalSenderTo, AfterSignal
  <1>8. CASE WaitListenerFrom
    BY <1>8 DEF WaitListenerFrom
  <1>9. CASE GetBatch
    BY <1>9 DEF GetBatch
  <1>10. CASE CleanBatchStock
    BY <1>10 DEF CleanBatchStock
  <1>11. CASE SignalListenerTo
    BY <1>11 DEF SignalListenerTo, MoreCalls
  <1>12. CASE WaitPrinterFrom
    BY <1>12 DEF WaitPrinterFrom
  <1>13. CASE SignalPrinterTo
    BY <1>13 DEF SignalPrinterTo
  <1>14. CASE StopWorker
    BY <1>14 DEF StopWorker, Killed
  <1>15. CASE JoinWorker
    BY <1>15 DEF JoinWorker
  <1>16. CASE Return
    BY <1>16 DEF Return
  <1>17. CASE WaitSenderTo
    BY <1>17 DEF WaitSenderTo
  <1>18. CASE FetchBatches
    BY <1>18 DEF FetchBatches, Fetch, AfterFirstFetch
  <1>19. CASE SignalSenderFrom
    BY <1>19 DEF SignalSenderFrom
  <1>20. CASE SendCalcs
    BY <1>20 DEF SendCalcs, Send
  <1>21. CASE SendFails
    BY <1>21 DEF SendFails
  <1>22. CASE ReceivePacket
    <2>1. Len(answers') = Len(answers) - 1
      BY <1>22 DEF ReceivePacket
    <2> QED
      BY <1>22, <2>1 DEF ReceivePacket
  <1>23. CASE WaitListenerTo
    BY <1>23 DEF WaitListenerTo
  <1>24. CASE StoreBatch
    BY <1>24 DEF StoreBatch
  <1>25. CASE SignalListenerFrom
    BY <1>25 DEF SignalListenerFrom
  <1>26. CASE RunPrinter
    BY <1>26 DEF RunPrinter
  <1>27. CASE UNCHANGED vars
    BY <1>27 DEF vars
  <1> QED
    BY <1>1, <1>2, <1>3, <1>4, <1>5, <1>6, <1>7, <1>8, <1>9, <1>10, <1>11,
       <1>12, <1>13, <1>14, <1>15, <1>16, <1>17, <1>18, <1>19, <1>20, <1>21,
       <1>22, <1>23, <1>24, <1>25, <1>26, <1>27
    DEF Next, Process, RunCalculator, RunSender, RunListener

-----------------------------------------------------------------------------
\* The stocks have one owner at a time and requests and answers keep their order,
\* in get_u, run_sender and run_listener, for any number of steps and calls.
THEOREM InvariantHolds == Spec => []IInv
  <1>1. ASSUME IInv, [Next]_vars PROVE IInv'
    <2>1. at[Listener] = "store_batch" => received_pack # NULL
      BY <1>1, ClientAssumption DEF IInv, TypeOK, ControlOK, AnswersAreRecent
    <2>2. ListenerStockHasOneOwner'
      BY <1>1, <2>1, ListenerOwnerStep DEF IInv, TypeOK
    <2> QED
      BY <1>1, <2>2, TypeStep, StoppedStep, OnlyListenerStep, CallsCountedStep,
         SenderOwnerStep, SenderHoldsStep, RecentStep DEF IInv, TypeOK
  <1> QED
    BY InitIInv, <1>1, PTL DEF Spec

\* Every variable of the client keeps its type.
THEOREM TypeCorrect == Spec => []TypeOK
  <1>1. IInv => TypeOK
    BY DEF IInv
  <1> QED
    BY InvariantHolds, <1>1, PTL

\* Each port is sent request 1, 2, 3, ..., never half of one with half of another:
\* the hand-shake between get_u and run_sender, from AddFirstBatch to SendCalcs.
THEOREM RequestsStayWhole == Spec => []RequestsAreWhole
  <1>1. Init => RequestsAreWhole
    BY DEF Init, RequestsAreWhole
  <1>2. IInv /\ RequestsAreWhole /\ [Next]_vars => RequestsAreWhole'
    BY WholeStep DEF IInv
  <1> QED
    BY InvariantHolds, <1>1, <1>2, PTL DEF Spec

\* No answer is stored over an unread one, and no empty stock is read.
THEOREM AnswersReachTheCalculator == Spec => []AnswersAreNotLost
  <1>1. IInv => AnswersAreNotLost
    BY DEF IInv, TypeOK, ControlOK, StoppedAtTheEnd, ListenerStockHasOneOwner, AnswersAreNotLost,
           ToStore, Storing, Stored, Reading, Workers, Threads, Calculator, Listener
  <1> QED
    BY InvariantHolds, <1>1, PTL

\* get_u returns the answer to the request before its own, or to its own.
THEOREM CallsGetRecentAnswers == Spec => []CallGetsRecentAnswer
  <1>1. IInv => CallGetsRecentAnswer
    <2> SUFFICES ASSUME IInv, at[Calculator] \in {"clean_batch_stock", "signal_listener_to"}
                 PROVE  listener_batch \in {request - 1, request}
      BY DEF CallGetsRecentAnswer
    <2>1. at[Listener] # "exited"
      BY DEF IInv, StoppedAtTheEnd
    <2>2. Read = request - 2
      BY DEF Read
    <2>3. listener_batch \in (request - 1) .. request /\ request \in Nat
      BY <2>1, <2>2 DEF IInv, TypeOK, ControlOK, AnswersAreRecent
    <2> QED
      BY <2>3
  <1> QED
    BY InvariantHolds, <1>1, PTL

\* At most two answers wait in the client's receive buffer, however the server, the
\* network and run_listener interleave.
THEOREM FewAnswersWait == Spec => []FewAnswersWaiting
  <1>1. Init => AnswersBehindRequests
    BY DEF Init, FirstStatement, AnswersBehindRequests, Read, Threads, Calculator
  <1>2. IInv /\ AnswersBehindRequests => FewAnswersWaiting
    <2> SUFFICES ASSUME IInv, AnswersBehindRequests PROVE FewAnswersWaiting
      OBVIOUS
    <2>1. answered <= request
      BY DEF IInv, TypeOK, ControlOK, AnswersAreRecent, SenderHoldsRequest, Ports
    <2>2. Read \in Int /\ Read >= request - 2
      BY DEF Read, IInv, TypeOK, ControlOK
    <2> QED
      BY <2>1, <2>2 DEF IInv, TypeOK, ControlOK, AnswersBehindRequests, FewAnswersWaiting
  <1> QED
    BY InvariantHolds, <1>1, <1>2, WaitingStep, PTL DEF Spec

=============================================================================

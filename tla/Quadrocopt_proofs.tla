--------------------------- MODULE Quadrocopt_proofs ---------------------------
(***************************************************************************)
(* Proofs about Quadrocopt, for any number of steps, calls and lost        *)
(* datagrams: the eight threads do to the sockets what the two sequential  *)
(* processes of Exchange do, so every datagram and every answer has its    *)
(* place.                                                                  *)
(***************************************************************************)
EXTENDS Quadrocopt, SequenceTheorems, TLAPS

\* The proofs about the threads of each process, and about the steps of Exchange.
SP == INSTANCE Server_proofs WITH
        MaxRequests <- Steps * CallsPerStep + 1, MaxLost <- 0, SendMayFail <- FALSE,
        requested <- [first |-> 0, second |-> 0], lost <- [first |-> 0, second |-> 0],
        outbox <- answers, raised <- server_raised, at <- server_at,
        received_pack <- server_pack, running <- server_running

CP == INSTANCE Client_proofs WITH
        MaxLost <- 0, SendMayFail <- FALSE,
        to_server <- inbox, answered <- 0, lost <- 0, raised <- client_raised,
        at <- client_at, received_pack <- client_pack, running <- client_running

XP == INSTANCE Session_proofs WITH
        Calls <- Steps * CallsPerStep, answers <- answersBar, halves <- halvesBar,
        results <- resultsBar, calls <- request - 1, calling <- callingBar,
        sent <- sentBar, received <- receivedBar, got <- gotBar,
        MaxClients <- 1, MaxServers <- 1, phase <- "up", servers <- 1, clients <- 1,
        alive <- TRUE, served <- TRUE, whole <- TRUE

-----------------------------------------------------------------------------
(* What Server_proofs, Client_proofs and Session_proofs say of S, C and X. *)

LEMMA Bounds ==
  /\ Steps * CallsPerStep \in Nat /\ Steps * CallsPerStep + 1 \in Nat
  /\ NULL \notin Int
  /\ NULL \notin S!Results /\ NULL \notin SP!Results
  /\ NULL \notin X!Pairs /\ NULL \notin XP!Pairs
  /\ NoThread \notin S!Listeners /\ NoThread \notin SP!Listeners
<1> USE QuadrocoptAssumption
<1>1. S!Results = SP!Results /\ S!Listeners = SP!Listeners
  BY DEF S!Results, SP!Results, S!Batches, SP!Batches, S!Requests, SP!Requests,
         S!Listeners, SP!Listeners, S!LISTENER_FIRST, SP!LISTENER_FIRST,
         S!LISTENER_SECOND, SP!LISTENER_SECOND
<1>2. X!Pairs = [S!Listeners -> Int] /\ XP!Pairs = [S!Listeners -> Int]
  BY DEF S!Listeners, S!LISTENER_FIRST, S!LISTENER_SECOND, X!Pairs, X!Listeners,
         X!LISTENER_FIRST, X!LISTENER_SECOND, XP!Pairs, XP!Listeners, XP!LISTENER_FIRST,
         XP!LISTENER_SECOND
<1> QED
  BY <1>1, <1>2

\* No step of the server's threads breaks their hand-shakes.
LEMMA ServerHandShakesStep ==
  ASSUME ServerHandShakes, S!Next
  PROVE  ServerHandShakes'
<1>1. /\ SP!Next <=> S!Next
      /\ SP!TypeOK <=> S!TypeOK
      /\ SP!SlotHasOneOwner <=> S!SlotHasOneOwner
      /\ SP!SlotHoldsBatch <=> S!SlotHoldsBatch
      /\ SP!ResultHasOneOwner <=> S!ResultHasOneOwner
  BY DEF S!TypeOK, SP!TypeOK, S!SlotHasOneOwner, SP!SlotHasOneOwner, S!SlotHoldsBatch,
         SP!SlotHoldsBatch, S!ResultHasOneOwner, SP!ResultHasOneOwner, S!Results,
         SP!Results, S!Batches, SP!Batches, S!Requests, SP!Requests, S!Listeners,
         SP!Listeners, S!LISTENER_FIRST, SP!LISTENER_FIRST, S!LISTENER_SECOND,
         SP!LISTENER_SECOND, S!Threads, SP!Threads, S!Calculator, SP!Calculator, S!Sender,
         SP!Sender, S!ListenerAt, SP!ListenerAt, S!CalculatorAt, SP!CalculatorAt,
         S!SenderAt, SP!SenderAt, S!Packs, SP!Packs, S!listener_signal,
         SP!listener_signal, S!calc_to_listener_signal, SP!calc_to_listener_signal,
         S!Free, SP!Free, S!Filling, SP!Filling, S!Full, SP!Full, S!Emptying, SP!Emptying,
         S!Cleaned, SP!Cleaned, S!Sending, SP!Sending, S!ToSend, SP!ToSend, S!Sent,
         SP!Sent, S!HandingOver, SP!HandingOver, S!computedBar, SP!computedBar, S!Next,
         SP!Next, S!Arrive, SP!Arrive, S!Lose, SP!Lose, S!MayRequest, SP!MayRequest,
         S!RunListener, SP!RunListener, S!RunCalculator, SP!RunCalculator, S!RunSender,
         SP!RunSender, S!SendFails, SP!SendFails, S!ReceivePacket, SP!ReceivePacket,
         S!WaitUntilCalcReads, SP!WaitUntilCalcReads, S!LockStock, SP!LockStock,
         S!StoreBatch, SP!StoreBatch, S!UnlockStock, SP!UnlockStock,
         S!SignalListenerReady, SP!SignalListenerReady, S!WaitListener, SP!WaitListener,
         S!ReadBatches, SP!ReadBatches, S!CleanBatchStock, SP!CleanBatchStock,
         S!SignalListener, SP!SignalListener, S!CalculateRes, SP!CalculateRes,
         S!WaitForSender, SP!WaitForSender, S!SignalCalculated, SP!SignalCalculated,
         S!WaitForCalculator, SP!WaitForCalculator, S!ReadCalculations,
         SP!ReadCalculations, S!SendCalcs, SP!SendCalcs, S!SignalSenderReady,
         SP!SignalSenderReady, S!Step, SP!Step, S!EachListener, SP!EachListener, S!Wait,
         SP!Wait, S!Signal, SP!Signal, S!AfterReceive, SP!AfterReceive, S!AfterCalcReads,
         SP!AfterCalcReads, S!AfterCalculate, SP!AfterCalculate, S!network, SP!network,
         S!stocks, SP!stocks, S!locals, SP!locals, S!vars, SP!vars
<1>2. /\ SP!TypeOK' <=> S!TypeOK'
      /\ SP!SlotHasOneOwner' <=> S!SlotHasOneOwner'
      /\ SP!SlotHoldsBatch' <=> S!SlotHoldsBatch'
      /\ SP!ResultHasOneOwner' <=> S!ResultHasOneOwner'
  BY DEF S!TypeOK, SP!TypeOK, S!SlotHasOneOwner, SP!SlotHasOneOwner, S!SlotHoldsBatch,
         SP!SlotHoldsBatch, S!ResultHasOneOwner, SP!ResultHasOneOwner, S!Results,
         SP!Results, S!Batches, SP!Batches, S!Requests, SP!Requests, S!Listeners,
         SP!Listeners, S!LISTENER_FIRST, SP!LISTENER_FIRST, S!LISTENER_SECOND,
         SP!LISTENER_SECOND, S!Threads, SP!Threads, S!Calculator, SP!Calculator, S!Sender,
         SP!Sender, S!ListenerAt, SP!ListenerAt, S!CalculatorAt, SP!CalculatorAt,
         S!SenderAt, SP!SenderAt, S!Packs, SP!Packs, S!listener_signal,
         SP!listener_signal, S!calc_to_listener_signal, SP!calc_to_listener_signal,
         S!Free, SP!Free, S!Filling, SP!Filling, S!Full, SP!Full, S!Emptying, SP!Emptying,
         S!Cleaned, SP!Cleaned, S!Sending, SP!Sending, S!ToSend, SP!ToSend, S!Sent,
         SP!Sent, S!HandingOver, SP!HandingOver, S!computedBar, SP!computedBar
<1>3. SP!TypeOK' /\ SP!SlotHasOneOwner' /\ SP!SlotHoldsBatch' /\ SP!ResultHasOneOwner'
  BY <1>1, Bounds, SP!TypeStep, SP!OwnerStep, SP!HoldsStep, SP!ResultStep
     DEF ServerHandShakes
<1> QED
  BY <1>2, <1>3 DEF ServerHandShakes

\* Nor does a step of the client's threads.
LEMMA ClientHandShakesStep ==
  ASSUME ClientHandShakes, AnswersAreThere, C!Next
  PROVE  ClientHandShakes'
<1>1. /\ CP!Next <=> C!Next
      /\ CP!ControlOK <=> C!ControlOK
      /\ CP!CallsCounted <=> C!CallsCounted
      /\ CP!StoppedAtTheEnd <=> C!StoppedAtTheEnd
      /\ CP!OnlyListenerStops <=> C!OnlyListenerStops
      /\ CP!SenderStockHasOneOwner <=> C!SenderStockHasOneOwner
      /\ CP!StockHoldsRequest <=> C!StockHoldsRequest
      /\ CP!ListenerStockHasOneOwner <=> C!ListenerStockHasOneOwner
  BY DEF C!ControlOK, CP!ControlOK, C!CallsCounted, CP!CallsCounted, C!StoppedAtTheEnd,
         CP!StoppedAtTheEnd, C!OnlyListenerStops, CP!OnlyListenerStops,
         C!SenderStockHasOneOwner, CP!SenderStockHasOneOwner, C!StockHoldsRequest,
         CP!StockHoldsRequest, C!ListenerStockHasOneOwner, CP!ListenerStockHasOneOwner,
         C!Packs, CP!Packs, C!Ports, CP!Ports, C!FIRST, CP!FIRST, C!SECOND, CP!SECOND,
         C!Calculator, CP!Calculator, C!Sender, CP!Sender, C!Listener, CP!Listener,
         C!Printer, CP!Printer, C!Workers, CP!Workers, C!Threads, CP!Threads, C!Batches,
         CP!Batches, C!GetUAt, CP!GetUAt, C!CalculatorAt, CP!CalculatorAt, C!SenderAt,
         CP!SenderAt, C!ListenerAt, CP!ListenerAt, C!PrinterAt, CP!PrinterAt, C!ToFetch,
         CP!ToFetch, C!Fetching, CP!Fetching, C!Fetched, CP!Fetched, C!Writing,
         CP!Writing, C!Copied, CP!Copied, C!ToStore, CP!ToStore, C!Storing, CP!Storing,
         C!Stored, CP!Stored, C!Reading, CP!Reading, C!Next, CP!Next, C!Process,
         CP!Process, C!ServerAnswers, CP!ServerAnswers, C!Requested, CP!Requested,
         C!RunCalculator, CP!RunCalculator, C!RunSender, CP!RunSender, C!RunListener,
         CP!RunListener, C!RunPrinter, CP!RunPrinter, C!SendFails, CP!SendFails,
         C!TakeSignal, CP!TakeSignal, C!NextStep, CP!NextStep, C!WaitSenderFrom,
         CP!WaitSenderFrom, C!AddFirstBatch, CP!AddFirstBatch, C!AddSecondBatch,
         CP!AddSecondBatch, C!SignalSenderTo, CP!SignalSenderTo, C!AfterSignal,
         CP!AfterSignal, C!WaitListenerFrom, CP!WaitListenerFrom, C!GetBatch, CP!GetBatch,
         C!CleanBatchStock, CP!CleanBatchStock, C!MoreCalls, CP!MoreCalls,
         C!SignalListenerTo, CP!SignalListenerTo, C!WaitPrinterFrom, CP!WaitPrinterFrom,
         C!SignalPrinterTo, CP!SignalPrinterTo, C!StopWorker, CP!StopWorker, C!Killed,
         CP!Killed, C!JoinWorker, CP!JoinWorker, C!Return, CP!Return, C!WaitSenderTo,
         CP!WaitSenderTo, C!FetchBatches, CP!FetchBatches, C!Fetch, CP!Fetch,
         C!AfterFirstFetch, CP!AfterFirstFetch, C!SignalSenderFrom, CP!SignalSenderFrom,
         C!SendCalcs, CP!SendCalcs, C!Send, CP!Send, C!ReceivePacket, CP!ReceivePacket,
         C!WaitListenerTo, CP!WaitListenerTo, C!StoreBatch, CP!StoreBatch,
         C!SignalListenerFrom, CP!SignalListenerFrom, C!Step, CP!Step, C!Wait, CP!Wait,
         C!Signal, CP!Signal, C!network, CP!network, C!stocks, CP!stocks, C!locals,
         CP!locals, C!closing, CP!closing, C!vars, CP!vars
<1>2. /\ CP!ControlOK' <=> C!ControlOK'
      /\ CP!CallsCounted' <=> C!CallsCounted'
      /\ CP!StoppedAtTheEnd' <=> C!StoppedAtTheEnd'
      /\ CP!OnlyListenerStops' <=> C!OnlyListenerStops'
      /\ CP!SenderStockHasOneOwner' <=> C!SenderStockHasOneOwner'
      /\ CP!StockHoldsRequest' <=> C!StockHoldsRequest'
      /\ CP!ListenerStockHasOneOwner' <=> C!ListenerStockHasOneOwner'
  BY DEF C!ControlOK, CP!ControlOK, C!CallsCounted, CP!CallsCounted, C!StoppedAtTheEnd,
         CP!StoppedAtTheEnd, C!OnlyListenerStops, CP!OnlyListenerStops,
         C!SenderStockHasOneOwner, CP!SenderStockHasOneOwner, C!StockHoldsRequest,
         CP!StockHoldsRequest, C!ListenerStockHasOneOwner, CP!ListenerStockHasOneOwner,
         C!Packs, CP!Packs, C!Ports, CP!Ports, C!FIRST, CP!FIRST, C!SECOND, CP!SECOND,
         C!Calculator, CP!Calculator, C!Sender, CP!Sender, C!Listener, CP!Listener,
         C!Printer, CP!Printer, C!Workers, CP!Workers, C!Threads, CP!Threads, C!Batches,
         CP!Batches, C!GetUAt, CP!GetUAt, C!CalculatorAt, CP!CalculatorAt, C!SenderAt,
         CP!SenderAt, C!ListenerAt, CP!ListenerAt, C!PrinterAt, CP!PrinterAt, C!ToFetch,
         CP!ToFetch, C!Fetching, CP!Fetching, C!Fetched, CP!Fetched, C!Writing,
         CP!Writing, C!Copied, CP!Copied, C!ToStore, CP!ToStore, C!Storing, CP!Storing,
         C!Stored, CP!Stored, C!Reading, CP!Reading
<1>3. client_at[CP!Listener] = "store_batch" => client_pack # NULL
  BY DEF AnswersAreThere, C!Listener, CP!Listener
<1>4. CP!ControlOK' /\ CP!CallsCounted' /\ CP!StoppedAtTheEnd'
      /\ CP!OnlyListenerStops' /\ CP!SenderStockHasOneOwner'
      /\ CP!StockHoldsRequest' /\ CP!ListenerStockHasOneOwner'
  BY <1>1, <1>3, Bounds, QuadrocoptAssumption, CP!ControlStep, CP!CallsCountedStep, CP!StoppedStep,
     CP!OnlyListenerStep, CP!SenderOwnerStep, CP!StockHoldsStep, CP!ListenerOwnerStep
     DEF ClientHandShakes
<1> QED
  BY <1>2, <1>4 DEF ClientHandShakes

-----------------------------------------------------------------------------
(* The refinement of Exchange.  A queue of Exchange is what two or three   *)
(* places of the code hold, each at most one thing.                        *)

LEMMA OneIs ==
  ASSUME NEW T, NEW p, NEW x
  PROVE  /\ p => One(p, x) = <<x>>
         /\ ~p => One(p, x) = <<>>
         /\ (p => x \in T) => One(p, x) \in Seq(T)
         /\ Len(One(p, x)) <= 1
BY DEF One

LEMMA Joined ==
  ASSUME NEW T
  PROVE  /\ \A s \in Seq(T) : <<>> \o s = s /\ s \o <<>> = s
         /\ \A s, t \in Seq(T) : s \o t \in Seq(T) /\ Len(s \o t) = Len(s) + Len(t)
         /\ \A s \in Seq(T) : \A x \in T : s \o <<x>> = Append(s, x)
         /\ \A s \in Seq(T) : \A x \in T :
              <<x>> \o s # <<>> /\ Head(<<x>> \o s) = x /\ Tail(<<x>> \o s) = s
         /\ \A s, t \in Seq(T) : \A x \in T : (<<x>> \o s) \o t = <<x>> \o (s \o t)
OBVIOUS

\* The last place is taken; what stands there goes on to the place before it, and from
\* there to the first; the first is left.
LEMMA LastTaken ==
  ASSUME NEW T
  PROVE  \A s, t \in Seq(T) : \A x \in T :
           Len(s) <= 1 /\ Len(t) <= 1
             => /\ s \o t \o <<x>> = Append(s \o t \o <<>>, x)
                /\ Len(s \o t \o <<>>) < 3
<1> SUFFICES ASSUME NEW s \in Seq(T), NEW t \in Seq(T), NEW x \in T, Len(s) <= 1, Len(t) <= 1
             PROVE  /\ s \o t \o <<x>> = Append(s \o t \o <<>>, x)
                    /\ Len(s \o t \o <<>>) < 3
  OBVIOUS
<1>1. s \o t \in Seq(T) /\ Len(s \o t) = Len(s) + Len(t) /\ Len(s) \in Nat /\ Len(t) \in Nat
  OBVIOUS
<1>2. s \o t \o <<>> = s \o t /\ s \o t \o <<x>> = Append(s \o t, x)
  BY <1>1, Joined
<1>3. Len(s \o t) < 3
  BY <1>1
<1> QED
  BY <1>2, <1>3

LEMMA LastMoves ==
  ASSUME NEW T
  PROVE  \A s \in Seq(T) : \A x \in T : s \o <<x>> \o <<>> = s \o <<>> \o <<x>>
<1> TAKE s \in Seq(T)
<1> TAKE x \in T
<1>1. s \o <<x>> \in Seq(T)
  OBVIOUS
<1> QED
  BY <1>1, Joined

LEMMA MiddleMoves ==
  ASSUME NEW T
  PROVE  \A t \in Seq(T) : \A x \in T : <<x>> \o <<>> \o t = <<>> \o <<x>> \o t
<1> TAKE t \in Seq(T)
<1> TAKE x \in T
<1>1. <<x>> \o <<>> = <<x>> /\ <<>> \o <<x>> = <<x>>
  OBVIOUS
<1> QED
  BY <1>1

LEMMA FirstLeaves ==
  ASSUME NEW T
  PROVE  \A s, t \in Seq(T) : \A x \in T : /\ <<x>> \o s \o t # <<>>
                                           /\ Head(<<x>> \o s \o t) = x
                                           /\ Tail(<<x>> \o s \o t) = <<>> \o s \o t
<1> TAKE s, t \in Seq(T)
<1> TAKE x \in T
<1>1. (<<x>> \o s) \o t = <<x>> \o (s \o t) /\ s \o t \in Seq(T) /\ <<>> \o s = s
  OBVIOUS
<1>2. /\ <<x>> \o (s \o t) # <<>> /\ Head(<<x>> \o (s \o t)) = x
      /\ Tail(<<x>> \o (s \o t)) = s \o t
  BY <1>1, Joined
<1> QED
  BY <1>1, <1>2

\* The places of halvesBar.
InCalculator(l) == One(Copied(l), batch[l])
InStock(l) == One(stock[l] # NULL /\ (Copied(l) => Emptied(l)), stock[l])
InListener(l) == One(server_at[l] \in {"wait_until_calc_reads", "lock", "store_batch"},
                     server_pack[l])

LEMMA HalvesAre ==
  ASSUME ServerHandShakes, NEW l \in S!Listeners
  PROVE  /\ halvesBar[l] = InCalculator(l) \o InStock(l) \o InListener(l)
         /\ InCalculator(l) \in Seq(S!Batches) /\ Len(InCalculator(l)) <= 1
         /\ InStock(l) \in Seq(S!Batches) /\ Len(InStock(l)) <= 1
         /\ InListener(l) \in Seq(S!Batches)
<1>1. halvesBar[l] = InCalculator(l) \o InStock(l) \o InListener(l)
  BY DEF halvesBar, InCalculator, InStock, InListener
<1>2. batch[l] \in S!Batches /\ stock[l] \in S!Batches /\ server_pack[l] \in S!Batches
  BY DEF ServerHandShakes, S!TypeOK
<1> QED
  BY <1>1, <1>2, OneIs DEF InCalculator, InStock, InListener

LEMMA ClientSame ==
  ASSUME UNCHANGED client
  PROVE  UNCHANGED <<request, request - 1, callingBar, sentBar, receivedBar, gotBar>>
BY DEF client, callingBar, sentBar, receivedBar, gotBar, C!Copied, C!ToFetch, C!Fetching

LEMMA ServerSame ==
  ASSUME UNCHANGED server
  PROVE  UNCHANGED <<halvesBar, resultsBar>>
BY DEF server, halvesBar, resultsBar, Copied, Emptied, S!ToSend

\* recvfrom takes a half out of the socket; the hand-over of the slot changes nothing.
LEMMA ListenerRefines ==
  ASSUME ServerHandShakes, ServerHandShakes', NEW l \in S!Listeners, ServerListens(l)
  PROVE  X!Take(l) \/ UNCHANGED X!vars
<1> USE DEF S!Listeners, S!LISTENER_FIRST, S!LISTENER_SECOND, S!Calculator, S!Sender,
            S!Threads, LISTENER_FIRST, LISTENER_SECOND
<1>1. UNCHANGED <<request, request - 1, callingBar, sentBar, receivedBar, gotBar>>
  BY ClientSame DEF ServerListens
<1>2. /\ server_at \in [S!Threads -> S!ListenerAt \cup S!CalculatorAt \cup S!SenderAt]
      /\ stock \in [S!Listeners -> S!Batches] /\ batch \in [S!Listeners -> S!Batches]
      /\ server_pack \in [S!Listeners -> S!Batches]
  BY DEF ServerHandShakes, S!TypeOK
<1>3. /\ UNCHANGED <<answers, calculations, batch, calcs, turn>>
      /\ \A t \in S!Threads \ {l} : server_at'[t] = server_at[t]
      /\ "calc_to_sender_signal" \in server_raised' <=> "calc_to_sender_signal" \in server_raised
  BY <1>2
     DEF ServerListens, S!RunListener, S!ReceivePacket, S!WaitUntilCalcReads, S!LockStock,
         S!StoreBatch, S!UnlockStock, S!SignalListenerReady, S!Step, S!Wait, S!Signal,
         S!listener_signal, S!calc_to_listener_signal, S!network, S!stocks, S!locals
<1>4. UNCHANGED <<answersBar, resultsBar>>
  BY <1>3 DEF answersBar, resultsBar, S!ToSend
<1>5. \A k \in S!Listeners : Copied(k)' = Copied(k) /\ Emptied(k)' = Emptied(k)
  BY <1>3 DEF Copied, Emptied
<1>6. CASE S!ReceivePacket(l)
  <2>1. /\ server_at[l] = "receive_packet" /\ server_at'[l] = "wait_until_calc_reads"
        /\ inbox[l] # <<>> /\ UNCHANGED stock
        /\ server_pack' = [server_pack EXCEPT ![l] = Head(inbox[l])]
        /\ inbox' = [inbox EXCEPT ![l] = Tail(@)]
    BY <1>2, <1>6 DEF S!ReceivePacket, S!Step, S!AfterReceive, S!stocks
  <2>2. ASSUME NEW k \in S!Listeners
        PROVE  InCalculator(k)' = InCalculator(k) /\ InStock(k)' = InStock(k)
    BY <1>3, <1>5, <2>1 DEF InCalculator, InStock
  <2>3. InListener(l) = <<>> /\ InListener(l)' = <<Head(inbox[l])>>
    BY <1>2, <2>1 DEF InListener, One
  <2>4. ASSUME NEW k \in S!Listeners, k # l
        PROVE  halvesBar'[k] = halvesBar[k]
    <3>1. InListener(k)' = InListener(k)
      BY <1>2, <1>3, <2>1, <2>4 DEF InListener
    <3> QED
      BY <2>2, <3>1 DEF halvesBar, InCalculator, InStock, InListener
  <2>5. halvesBar'[l] = Append(halvesBar[l], Head(inbox[l])) /\ Len(halvesBar[l]) < 3
    <3>1. halvesBar[l] = InCalculator(l) \o InStock(l) \o <<>>
      BY <2>3, HalvesAre
    <3>2. halvesBar'[l] = InCalculator(l) \o InStock(l) \o <<Head(inbox[l])>>
      <4>1. halvesBar'[l] = InCalculator(l)' \o InStock(l)' \o InListener(l)'
        BY DEF halvesBar, InCalculator, InStock, InListener
      <4> QED
        BY <2>2, <2>3, <4>1
    <3>3. Head(inbox[l]) \in S!Batches
      BY <1>2, <2>1 DEF ServerHandShakes, S!TypeOK, S!Batches
    <3>4. /\ InCalculator(l) \in Seq(S!Batches) /\ Len(InCalculator(l)) <= 1
          /\ InStock(l) \in Seq(S!Batches) /\ Len(InStock(l)) <= 1
      BY HalvesAre
    <3> HIDE DEF InCalculator, InStock
    <3> QED
      BY <3>1, <3>2, <3>3, <3>4, LastTaken
  <2>6. halvesBar' = [halvesBar EXCEPT ![l] = Append(@, Head(inbox[l]))]
    BY <2>4, <2>5 DEF halvesBar
  <2> QED
    BY <1>1, <1>4, <2>1, <2>5, <2>6 DEF X!Take, X!Socket, X!client
<1>7. CASE ~S!ReceivePacket(l)
  <2>1. UNCHANGED inbox /\ UNCHANGED server_pack
    BY <1>7 DEF ServerListens, S!RunListener, S!WaitUntilCalcReads, S!LockStock,
         S!StoreBatch, S!UnlockStock, S!SignalListenerReady, S!network, S!locals
  <2>2. ASSUME NEW k \in S!Listeners, k # l
        PROVE  halvesBar'[k] = halvesBar[k]
    <3>1. stock'[k] = stock[k] /\ server_at'[k] = server_at[k]
      BY <1>2, <1>3, <1>7, <2>2
         DEF ServerListens, S!RunListener, S!WaitUntilCalcReads, S!LockStock,
             S!StoreBatch, S!UnlockStock, S!SignalListenerReady, S!stocks
    <3> QED
      BY <1>3, <1>5, <2>1, <3>1 DEF halvesBar
  <2>3. halvesBar'[l] = halvesBar[l]
    <3>1. CASE S!StoreBatch(l)
      <4>1. /\ stock'[l] = server_pack[l] /\ server_at[l] = "store_batch"
            /\ server_at'[l] = "unlock"
        BY <1>2, <3>1 DEF S!StoreBatch, S!Step
      <4>2. stock[l] = NULL /\ server_pack[l] # NULL /\ (Copied(l) => Emptied(l))
        BY <4>1 DEF ServerHandShakes, S!SlotHoldsBatch, S!SlotHasOneOwner, S!Filling, S!Full,
                    S!Emptying, S!Free, Copied, Emptied
      <4>3. /\ InStock(l) = <<>> /\ InListener(l) = <<server_pack[l]>>
            /\ InStock(l)' = <<server_pack[l]>> /\ InListener(l)' = <<>>
        BY <1>5, <4>1, <4>2 DEF InStock, InListener, One
      <4>4. InCalculator(l)' = InCalculator(l) /\ InCalculator(l) \in Seq(S!Batches)
        BY <1>3, <1>5, HalvesAre DEF InCalculator
      <4>5. halvesBar[l] = InCalculator(l) \o <<>> \o <<server_pack[l]>>
        BY <4>3, HalvesAre
      <4>6. halvesBar'[l] = InCalculator(l) \o <<server_pack[l]>> \o <<>>
        <5>1. halvesBar'[l] = InCalculator(l)' \o InStock(l)' \o InListener(l)'
          BY DEF halvesBar, InCalculator, InStock, InListener
        <5> QED
          BY <4>3, <4>4, <5>1
      <4> HIDE DEF InCalculator
      <4> QED
        BY <1>2, <4>4, <4>5, <4>6, LastMoves
    <3>2. CASE ~S!StoreBatch(l)
      <4>1. stock' = stock /\ InListener(l)' = InListener(l)
        BY <1>2, <1>7, <2>1, <3>2
           DEF ServerListens, S!RunListener, S!WaitUntilCalcReads, S!LockStock,
               S!UnlockStock, S!SignalListenerReady, S!stocks, InListener, S!Step,
               S!AfterCalcReads
      <4> QED
        BY <1>3, <1>5, <2>1, <4>1 DEF halvesBar, InListener
    <3> QED
      BY <3>1, <3>2
  <2>4. halvesBar' = halvesBar
    BY <2>2, <2>3 DEF halvesBar
  <2> QED
    BY <1>1, <1>4, <2>1, <2>4 DEF X!vars, X!sockets, X!server, X!client
<1> QED
  BY <1>6, <1>7

\* The places of resultsBar: the sender's and the calculator's.
InSender == One(S!ToSend \/ server_at[S!Sender] \in {"send_calcs", "sendto"},
                IF server_at[S!Sender] = "sendto" THEN calcs.from ELSE calculations.from)
InHand == One(server_at[S!Calculator] \in {"wait_for_sender", "signal_calculated"},
              calculations.from)

LEMMA ResultsAre == resultsBar = InSender \o InHand
BY DEF resultsBar, InSender, InHand

\* Up to calculate_res the halves of a round move from the stock to the calculator.
LEMMA CalculatorReads ==
  ASSUME ServerHandShakes, ServerCalculates, ~S!CalculateRes, ~S!SignalCalculated
  PROVE  UNCHANGED X!vars
<1> USE DEF S!Listeners, S!LISTENER_FIRST, S!LISTENER_SECOND, S!Calculator, S!Sender,
            S!Threads, LISTENER_FIRST, LISTENER_SECOND
<1>1. UNCHANGED <<request, request - 1, callingBar, sentBar, receivedBar, gotBar>>
  BY ClientSame DEF ServerCalculates
<1>2. /\ server_at \in [S!Threads -> S!ListenerAt \cup S!CalculatorAt \cup S!SenderAt]
      /\ stock \in [S!Listeners -> S!Batches] /\ batch \in [S!Listeners -> S!Batches]
      /\ turn \in S!Listeners
  BY DEF ServerHandShakes, S!TypeOK
<1>3. /\ UNCHANGED <<inbox, answers, server_pack, calculations, calcs>>
      /\ \A t \in S!Threads \ {S!Calculator} : server_at'[t] = server_at[t]
      /\ "calc_to_sender_signal" \in server_raised' <=> "calc_to_sender_signal" \in server_raised
  BY <1>2
     DEF ServerCalculates, S!RunCalculator, S!WaitListener, S!ReadBatches, S!CleanBatchStock,
         S!SignalListener, S!WaitForSender, S!EachListener, S!Step, S!Wait, S!Signal,
         S!listener_signal, S!calc_to_listener_signal, S!network, S!stocks, S!locals
<1>4. UNCHANGED answersBar /\ UNCHANGED InSender
  BY <1>3 DEF answersBar, InSender, S!ToSend
<1>5. ASSUME NEW l \in S!Listeners
      PROVE  InListener(l)' = InListener(l)
  BY <1>3, <1>5 DEF InListener
<1>6. SUFFICES /\ InHand' = InHand
               /\ \A l \in S!Listeners : \/ /\ InCalculator(l)' = InCalculator(l)
                                            /\ InStock(l)' = InStock(l)
                                         \/ /\ InCalculator(l) = <<>> /\ InStock(l)' = <<>>
                                            /\ InCalculator(l)' = <<stock[l]>>
                                            /\ InStock(l) = <<stock[l]>>
  <2>1. UNCHANGED resultsBar
    BY <1>4, <1>6 DEF resultsBar, InSender, InHand
  <2>2. ASSUME NEW l \in S!Listeners
        PROVE  halvesBar'[l] = halvesBar[l]
    <3>1. halvesBar'[l] = InCalculator(l)' \o InStock(l)' \o InListener(l)'
      BY DEF halvesBar, InCalculator, InStock, InListener
    <3>2. halvesBar[l] = InCalculator(l) \o InStock(l) \o InListener(l)
          /\ InListener(l) \in Seq(S!Batches)
      BY HalvesAre
    <3>3. stock[l] \in S!Batches
      BY <1>2
    <3> HIDE DEF InCalculator, InStock, InListener
    <3> QED
      BY <1>5, <1>6, <3>1, <3>2, <3>3, MiddleMoves
  <2>3. halvesBar' = halvesBar
    BY <2>2 DEF halvesBar
  <2> QED
    BY <1>1, <1>3, <1>4, <2>1, <2>3 DEF X!vars, X!sockets, X!server, X!client
<1> DEFINE Fixed(l) == InCalculator(l)' = InCalculator(l) /\ InStock(l)' = InStock(l)
<1>7. CASE S!WaitListener
  <2>1. /\ server_at[S!Calculator] = "wait_listener" /\ UNCHANGED <<stock, batch>>
        /\ \/ server_at'[S!Calculator] = "wait_listener"
           \/ server_at'[S!Calculator] = "read_batches" /\ turn' = S!LISTENER_FIRST
    BY <1>2, <1>7 DEF S!WaitListener, S!EachListener, S!Step, S!stocks
  <2>2. InHand' = InHand
    BY <2>1 DEF InHand, One
  <2>3. ASSUME NEW l \in S!Listeners
        PROVE  Fixed(l)
    <3>1. ~Copied(l) /\ ~Copied(l)'
      BY <2>1 DEF Copied
    <3> QED
      BY <2>1, <3>1 DEF InCalculator, InStock, One
  <2> QED
    BY <2>2, <2>3
<1>8. CASE S!ReadBatches
  <2>1. /\ server_at[S!Calculator] = "read_batches" /\ UNCHANGED stock
        /\ batch' = [batch EXCEPT ![turn] = stock[turn]]
        /\ \/ /\ turn = S!LISTENER_FIRST /\ turn' = S!LISTENER_SECOND
              /\ server_at'[S!Calculator] = "read_batches"
           \/ /\ turn = S!LISTENER_SECOND /\ turn' = S!LISTENER_FIRST
              /\ server_at'[S!Calculator] = "clean_batch_stock"
    BY <1>2, <1>8 DEF S!ReadBatches, S!EachListener, S!Step, S!stocks
  <2>2. InHand' = InHand
    BY <2>1 DEF InHand, One
  <2>3. stock[turn] # NULL
    BY <2>1 DEF ServerHandShakes, S!SlotHoldsBatch, S!Emptying, S!Cleaned
  <2>4. ASSUME NEW l \in S!Listeners, l = turn
        PROVE  /\ InCalculator(l) = <<>> /\ InStock(l)' = <<>>
               /\ InCalculator(l)' = <<stock[l]>> /\ InStock(l) = <<stock[l]>>
    <3>1. batch'[l] = stock[l]
      BY <1>2, <2>1, <2>4
    <3>2. ~Copied(l) /\ Copied(l)' /\ ~Emptied(l)'
      BY <2>1, <2>4 DEF Copied, Emptied
    <3> QED
      BY <2>1, <2>3, <2>4, <3>1, <3>2 DEF InCalculator, InStock, One
  <2>6. ASSUME NEW l \in S!Listeners, l # turn
        PROVE  Fixed(l)
    <3>1. batch'[l] = batch[l]
      BY <1>2, <2>1, <2>6
    <3>2. Copied(l)' = Copied(l) /\ Emptied(l)' = Emptied(l)
      BY <2>1, <2>6 DEF Copied, Emptied
    <3> QED
      BY <2>1, <3>1, <3>2 DEF InCalculator, InStock
  <2> QED
    BY <2>2, <2>4, <2>6
<1>9. CASE S!CleanBatchStock
  <2>1. /\ server_at[S!Calculator] = "clean_batch_stock" /\ UNCHANGED batch
        /\ stock' = [stock EXCEPT ![turn] = NULL]
        /\ \/ /\ turn = S!LISTENER_FIRST /\ turn' = S!LISTENER_SECOND
              /\ server_at'[S!Calculator] = "clean_batch_stock"
           \/ /\ turn = S!LISTENER_SECOND /\ turn' = S!LISTENER_FIRST
              /\ server_at'[S!Calculator] = "signal_listener"
    BY <1>2, <1>9 DEF S!CleanBatchStock, S!EachListener, S!Step
  <2>2. InHand' = InHand
    BY <2>1 DEF InHand, One
  <2>3. ASSUME NEW l \in S!Listeners
        PROVE  Fixed(l)
    <3>1. Copied(l) /\ Copied(l)'
      BY <2>1 DEF Copied
    <3>2. InCalculator(l)' = InCalculator(l)
      BY <2>1, <3>1 DEF InCalculator, One
    <3>3. CASE l = turn
      <4>1. ~Emptied(l) /\ stock'[l] = NULL
        BY <1>2, <2>1, <3>3 DEF Emptied
      <4> QED
        BY <3>1, <3>2, <4>1 DEF InStock, One
    <3>4. CASE l # turn
      <4>1. Emptied(l)' = Emptied(l) /\ stock'[l] = stock[l]
        BY <1>2, <2>1, <3>4 DEF Emptied
      <4> QED
        BY <3>1, <3>2, <4>1 DEF InStock, One
    <3> QED
      BY <3>3, <3>4
  <2> QED
    BY <2>2, <2>3
<1>10. CASE S!SignalListener
  <2>1. /\ server_at[S!Calculator] = "signal_listener" /\ UNCHANGED <<stock, batch>>
        /\ server_at'[S!Calculator] \in {"signal_listener", "calculate_res"}
    BY <1>2, <1>10 DEF S!SignalListener, S!EachListener, S!Step, S!stocks
  <2>2. InHand' = InHand
    BY <2>1 DEF InHand, One
  <2>3. ASSUME NEW l \in S!Listeners
        PROVE  Fixed(l)
    <3>1. Copied(l) /\ Copied(l)' /\ Emptied(l) /\ Emptied(l)'
      BY <2>1 DEF Copied, Emptied
    <3> QED
      BY <2>1, <3>1 DEF InCalculator, InStock, One
  <2> QED
    BY <2>2, <2>3
<1>11. CASE S!WaitForSender
  <2>1. /\ server_at[S!Calculator] = "wait_for_sender" /\ UNCHANGED <<stock, batch>>
        /\ server_at'[S!Calculator] = "signal_calculated"
    BY <1>2, <1>11 DEF S!WaitForSender, S!Step, S!stocks, S!locals
  <2>2. InHand' = InHand
    BY <1>3, <2>1 DEF InHand, One
  <2>3. ASSUME NEW l \in S!Listeners
        PROVE  Fixed(l)
    <3>1. ~Copied(l) /\ ~Copied(l)'
      BY <2>1 DEF Copied
    <3> QED
      BY <2>1, <3>1 DEF InCalculator, InStock, One
  <2> QED
    BY <2>2, <2>3
<1> QED
  BY <1>7, <1>8, <1>9, <1>10, <1>11 DEF ServerCalculates, S!RunCalculator

LEMMA TwoPlaces ==
  ASSUME NEW T
  PROVE  \A x, y \in T : <<x>> \o <<y>> = <<x, y>> /\ Append(<<x>>, y) = <<x, y>>
<1> TAKE x, y \in T
<1>1. <<x>> \o <<y>> \in Seq(T) /\ <<x, y>> \in Seq(T) /\ Append(<<x>>, y) \in Seq(T)
  OBVIOUS
<1>2. Len(<<x>> \o <<y>>) = 2 /\ Len(<<x, y>>) = 2 /\ Len(Append(<<x>>, y)) = 2
  OBVIOUS
<1>3. \A i \in 1 .. 2 : /\ (<<x>> \o <<y>>)[i] = <<x, y>>[i]
                        /\ Append(<<x>>, y)[i] = <<x, y>>[i]
  OBVIOUS
<1>4. ASSUME NEW s \in Seq(T), NEW t \in Seq(T), Len(s) = 2, Len(t) = 2,
             \A i \in 1 .. 2 : s[i] = t[i]
      PROVE  s = t
  <2>1. s = [i \in 1 .. 2 |-> s[i]] /\ t = [i \in 1 .. 2 |-> t[i]]
    BY <1>4
  <2> QED
    BY <1>4, <2>1
<1>5. <<x>> \o <<y>> = <<x, y>>
  BY <1>1, <1>2, <1>3, <1>4
<1> QED
  BY <1>1, <1>2, <1>3, <1>4, <1>5

\* calculate_res takes the first half of each port; its result waits behind the one
\* the sender is about to send, or takes its place in the stock.
LEMMA CalculatorComputes ==
  ASSUME ServerHandShakes, ServerCalculates, S!CalculateRes
  PROVE  X!Compute /\ calculations'.from = [l \in X!Listeners |-> Head(halvesBar[l])]
<1> USE DEF S!Listeners, S!LISTENER_FIRST, S!LISTENER_SECOND, S!Calculator, S!Sender,
            S!Threads, LISTENER_FIRST, LISTENER_SECOND
<1>1. UNCHANGED <<request, request - 1, callingBar, sentBar, receivedBar, gotBar>>
  BY ClientSame DEF ServerCalculates
<1>2. /\ server_at \in [S!Threads -> S!ListenerAt \cup S!CalculatorAt \cup S!SenderAt]
      /\ stock \in [S!Listeners -> S!Batches] /\ batch \in [S!Listeners -> S!Batches]
  BY DEF ServerHandShakes, S!TypeOK
<1>3. /\ server_at[S!Calculator] = "calculate_res"
      /\ server_at'[S!Calculator] = "wait_for_sender"
      /\ \A t \in S!Threads \ {S!Calculator} : server_at'[t] = server_at[t]
      /\ calculations'.from = batch
      /\ UNCHANGED <<inbox, answers, server_raised, stock, turn, server_pack, batch, calcs>>
  BY <1>2 DEF S!CalculateRes, S!Step, S!AfterCalculate, S!network, S!locals
<1>4. UNCHANGED answersBar
  BY <1>3 DEF answersBar
<1>5. ASSUME NEW l \in S!Listeners
      PROVE  /\ halvesBar[l] # <<>> /\ Head(halvesBar[l]) = batch[l]
             /\ halvesBar'[l] = Tail(halvesBar[l])
  <2>1. Copied(l) /\ Emptied(l) /\ ~Copied(l)'
    BY <1>3 DEF Copied, Emptied
  <2>2. /\ InCalculator(l) = <<batch[l]>> /\ InCalculator(l)' = <<>>
        /\ InStock(l)' = InStock(l) /\ InListener(l)' = InListener(l)
    BY <1>3, <2>1 DEF InCalculator, InStock, InListener, One
  <2>3. halvesBar'[l] = InCalculator(l)' \o InStock(l)' \o InListener(l)'
    BY DEF halvesBar, InCalculator, InStock, InListener
  <2>4. /\ halvesBar[l] = InCalculator(l) \o InStock(l) \o InListener(l)
        /\ InStock(l) \in Seq(S!Batches) /\ InListener(l) \in Seq(S!Batches)
    BY HalvesAre
  <2>5. batch[l] \in S!Batches
    BY <1>2
  <2> HIDE DEF InCalculator, InStock, InListener
  <2>6. /\ halvesBar[l] = <<batch[l]>> \o InStock(l) \o InListener(l)
        /\ halvesBar'[l] = <<>> \o InStock(l) \o InListener(l)
    BY <2>2, <2>3, <2>4
  <2> QED
    BY <2>4, <2>5, <2>6, FirstLeaves
<1>6. batch = [l \in X!Listeners |-> Head(halvesBar[l])]
  BY <1>2, <1>5 DEF X!Listeners, X!LISTENER_FIRST, X!LISTENER_SECOND
<1>7. halvesBar' = [l \in X!Listeners |-> Tail(halvesBar[l])]
  BY <1>5 DEF X!Listeners, X!LISTENER_FIRST, X!LISTENER_SECOND, halvesBar
<1>8. /\ Len(resultsBar) < 2
      /\ \/ resultsBar' = Append(resultsBar, batch)
         \/ resultsBar # <<>> /\ resultsBar' = <<batch, batch>>
  <2>1. InHand = <<>> /\ InHand' = <<batch>>
    BY <1>3 DEF InHand, One
  <2>2. resultsBar = InSender \o InHand /\ resultsBar' = InSender' \o InHand'
    BY DEF resultsBar, InSender, InHand
  <2>3. CASE ~S!ToSend /\ server_at[S!Sender] \notin {"send_calcs", "sendto"}
    <3>1. InSender = <<>> /\ InSender' = <<>>
      BY <1>3, <2>3 DEF InSender, One, S!ToSend
    <3> HIDE DEF InSender, InHand
    <3>2. resultsBar = <<>> /\ resultsBar' = <<batch>>
      BY <2>1, <2>2, <3>1
    <3> QED
      BY <3>2
  <2>4. CASE server_at[S!Sender] = "sendto"
    <3>1. InSender = <<calcs.from>> /\ InSender' = <<calcs.from>>
      BY <1>3, <2>4 DEF InSender, One, S!ToSend
    <3> HIDE DEF InSender, InHand
    <3>2. resultsBar = <<calcs.from>> /\ resultsBar' = <<calcs.from>> \o <<batch>>
      BY <2>1, <2>2, <3>1
    <3> DEFINE T == {calcs.from, batch}
    <3>3. calcs.from \in T /\ batch \in T
      OBVIOUS
    <3> HIDE DEF T
    <3> QED
      BY <3>2, <3>3, TwoPlaces
  <2>5. CASE (S!ToSend \/ server_at[S!Sender] = "send_calcs") /\ server_at[S!Sender] # "sendto"
    <3>1. InSender = <<calculations.from>> /\ InSender' = <<batch>>
      BY <1>3, <2>5 DEF InSender, One, S!ToSend
    <3> HIDE DEF InSender, InHand
    <3>2. resultsBar = <<calculations.from>> /\ resultsBar' = <<batch>> \o <<batch>>
      BY <2>1, <2>2, <3>1
    <3> DEFINE T == {batch}
    <3>3. batch \in T
      OBVIOUS
    <3> HIDE DEF T
    <3> QED
      BY <3>2, <3>3, TwoPlaces
  <2> QED
    BY <2>3, <2>4, <2>5
<1> QED
  BY <1>1, <1>3, <1>4, <1>5, <1>6, <1>7, <1>8
     DEF X!Compute, X!Listeners, X!LISTENER_FIRST, X!LISTENER_SECOND, X!sockets, X!client

\* signal_calculated gives the result to the sender, which has none.
LEMMA CalculatorHandsOver ==
  ASSUME ServerHandShakes, ServerCalculates, S!SignalCalculated
  PROVE  UNCHANGED X!vars
<1> USE DEF S!Listeners, S!LISTENER_FIRST, S!LISTENER_SECOND, S!Calculator, S!Sender,
            S!Threads, LISTENER_FIRST, LISTENER_SECOND
<1>1. UNCHANGED <<request, request - 1, callingBar, sentBar, receivedBar, gotBar>>
  BY ClientSame DEF ServerCalculates
<1>2. server_at \in [S!Threads -> S!ListenerAt \cup S!CalculatorAt \cup S!SenderAt]
  BY DEF ServerHandShakes, S!TypeOK
<1>3. /\ server_at[S!Calculator] = "signal_calculated"
      /\ server_at'[S!Calculator] = "wait_listener"
      /\ \A t \in S!Threads \ {S!Calculator} : server_at'[t] = server_at[t]
      /\ "calc_to_sender_signal" \in server_raised'
      /\ UNCHANGED <<inbox, answers, calculations, stock, turn, server_pack, batch, calcs>>
  BY <1>2 DEF S!SignalCalculated, S!Step, S!Signal, S!network, S!stocks
<1>4. UNCHANGED answersBar
  BY <1>3 DEF answersBar
<1>5. ~S!ToSend /\ server_at[S!Sender] \notin {"send_calcs", "sendto"}
  BY <1>3 DEF ServerHandShakes, S!ResultHasOneOwner, S!HandingOver, S!Sending
<1>6. halvesBar' = halvesBar
  <2>1. ASSUME NEW l \in S!Listeners
        PROVE  ~Copied(l) /\ ~Copied(l)'
    BY <1>3 DEF Copied
  <2> QED
    BY <1>3, <2>1 DEF halvesBar, One
<1>7. resultsBar' = resultsBar
  <2>1. InSender = <<>> /\ InHand = <<calculations.from>>
    BY <1>3, <1>5 DEF InSender, InHand, One
  <2>2. InSender' = <<calculations.from>> /\ InHand' = <<>>
    BY <1>3, <1>5 DEF InSender, InHand, One, S!ToSend
  <2>3. resultsBar = InSender \o InHand /\ resultsBar' = InSender' \o InHand'
    BY DEF resultsBar, InSender, InHand
  <2> HIDE DEF InSender, InHand
  <2> QED
    BY <2>1, <2>2, <2>3
<1> QED
  BY <1>1, <1>3, <1>4, <1>6, <1>7 DEF X!vars, X!sockets, X!server, X!client

LEMMA CalculatorRefines ==
  ASSUME ServerHandShakes, ServerCalculates
  PROVE  X!Compute \/ UNCHANGED X!vars
BY CalculatorReads, CalculatorComputes, CalculatorHandsOver

\* What answersBar makes of a queue of answers.
From(queue) == [i \in DOMAIN queue |-> queue[i].from]

LEMMA FromIs ==
  ASSUME NEW T, NEW s \in Seq(T)
  PROVE  /\ From(s) \in Seq({t.from : t \in T}) /\ Len(From(s)) = Len(s)
         /\ \A i \in 1 .. Len(s) : From(s)[i] = s[i].from
BY DEF From

LEMMA FromOfAppend ==
  ASSUME NEW T, NEW s \in Seq(T), NEW r \in T
  PROVE  From(Append(s, r)) = Append(From(s), r.from)
<1> DEFINE F == {t.from : t \in T}
<1>1. /\ From(s) \in Seq(F) /\ Len(From(s)) = Len(s) /\ r.from \in F
      /\ \A i \in 1 .. Len(s) : From(s)[i] = s[i].from
  BY FromIs
<1>2. Append(s, r) \in Seq(T) /\ Len(Append(s, r)) = Len(s) + 1
  OBVIOUS
<1>3. /\ From(Append(s, r)) \in Seq(F) /\ Len(From(Append(s, r))) = Len(s) + 1
      /\ \A i \in 1 .. Len(s) + 1 : From(Append(s, r))[i] = Append(s, r)[i].from
  BY <1>2, FromIs
<1> HIDE DEF F
<1>4. Append(From(s), r.from) \in Seq(F) /\ Len(Append(From(s), r.from)) = Len(s) + 1
  BY <1>1
<1>5. ASSUME NEW i \in 1 .. Len(s) + 1
      PROVE  From(Append(s, r))[i] = Append(From(s), r.from)[i]
  <2>1. CASE i = Len(s) + 1
    <3>1. Append(s, r)[i] = r /\ Append(From(s), r.from)[i] = r.from
      BY <1>1, <2>1
    <3> QED
      BY <1>3, <3>1
  <2>2. CASE i # Len(s) + 1
    <3>1. i \in 1 .. Len(s)
      BY <2>2
    <3>2. Append(s, r)[i] = s[i] /\ Append(From(s), r.from)[i] = From(s)[i]
      BY <1>1, <3>1
    <3> QED
      BY <1>1, <1>3, <3>1, <3>2
  <2> QED
    BY <2>1, <2>2
<1> QED
  BY <1>3, <1>4, <1>5

LEMMA FromOfTail ==
  ASSUME NEW T, NEW s \in Seq(T), s # <<>>
  PROVE  From(Tail(s)) = Tail(From(s)) /\ Head(From(s)) = Head(s).from /\ From(s) # <<>>
<1> DEFINE F == {t.from : t \in T}
<1>1. /\ From(s) \in Seq(F) /\ Len(From(s)) = Len(s)
      /\ \A i \in 1 .. Len(s) : From(s)[i] = s[i].from
  BY FromIs
<1>2. Tail(s) \in Seq(T) /\ Len(Tail(s)) = Len(s) - 1 /\ Len(s) \in Nat \ {0}
      /\ Head(s) = s[1] /\ \A i \in 1 .. Len(s) - 1 : Tail(s)[i] = s[i + 1]
  OBVIOUS
<1>3. /\ From(Tail(s)) \in Seq(F) /\ Len(From(Tail(s))) = Len(s) - 1
      /\ \A i \in 1 .. Len(s) - 1 : From(Tail(s))[i] = Tail(s)[i].from
  BY <1>2, FromIs
<1> HIDE DEF F
<1>4. From(s) # <<>> /\ Head(From(s)) = From(s)[1]
  BY <1>1, <1>2
<1>5. Tail(From(s)) \in Seq(F) /\ Len(Tail(From(s))) = Len(s) - 1
      /\ \A i \in 1 .. Len(s) - 1 : Tail(From(s))[i] = From(s)[i + 1]
  BY <1>1, <1>2, <1>4
<1>6. ASSUME NEW i \in 1 .. Len(s) - 1
      PROVE  From(Tail(s))[i] = Tail(From(s))[i]
  <2>1. i + 1 \in 1 .. Len(s)
    BY <1>2
  <2> QED
    BY <1>1, <1>2, <1>3, <1>5, <2>1
<1>7. From(Tail(s)) = Tail(From(s))
  BY <1>3, <1>5, <1>6
<1> QED
  BY <1>1, <1>2, <1>4, <1>7

LEMMA FromOfRemove ==
  ASSUME NEW T, NEW s \in Seq(T), NEW i \in DOMAIN s
  PROVE  From(RemoveAt(s, i)) = RemoveAt(From(s), i) /\ i \in DOMAIN From(s)
<1> DEFINE F == {t.from : t \in T}
           n == Len(s) - 1
<1>1. /\ From(s) \in Seq(F) /\ Len(From(s)) = Len(s)
      /\ \A j \in 1 .. Len(s) : From(s)[j] = s[j].from
  BY FromIs
<1>2. i \in DOMAIN From(s) /\ Len(s) \in Nat /\ i \in Nat
  BY <1>1
<1> SUFFICES From(XP!RemoveAt(s, i)) = XP!RemoveAt(From(s), i)
  BY <1>2 DEF RemoveAt, XP!RemoveAt
<1>3. /\ XP!RemoveAt(s, i) \in Seq(T) /\ Len(XP!RemoveAt(s, i)) = n
      /\ \A j \in 1 .. n : XP!RemoveAt(s, i)[j] = IF j < i THEN s[j] ELSE s[j + 1]
  BY Bounds, QuadrocoptAssumption, XP!RemoveElements
<1> HIDE DEF F
<1>4. /\ XP!RemoveAt(From(s), i) \in Seq(F) /\ Len(XP!RemoveAt(From(s), i)) = n
      /\ \A j \in 1 .. n :
           XP!RemoveAt(From(s), i)[j] = IF j < i THEN From(s)[j] ELSE From(s)[j + 1]
  BY <1>1, <1>2, Bounds, QuadrocoptAssumption, XP!RemoveElements
<1>5. /\ From(XP!RemoveAt(s, i)) \in Seq(F) /\ Len(From(XP!RemoveAt(s, i))) = n
      /\ \A j \in 1 .. n : From(XP!RemoveAt(s, i))[j] = XP!RemoveAt(s, i)[j].from
  BY <1>3, FromIs DEF F
<1>6. ASSUME NEW j \in 1 .. n
      PROVE  From(XP!RemoveAt(s, i))[j] = XP!RemoveAt(From(s), i)[j]
  <2>1. j \in 1 .. Len(s) /\ j + 1 \in 1 .. Len(s)
    BY <1>2
  <2>2. CASE j < i
    BY <1>1, <1>3, <1>4, <1>5, <2>1, <2>2
  <2>3. CASE ~(j < i)
    BY <1>1, <1>3, <1>4, <1>5, <2>1, <2>3
  <2> QED
    BY <2>2, <2>3
<1>7. From(XP!RemoveAt(s, i)) = XP!RemoveAt(From(s), i)
  BY <1>4, <1>5, <1>6
<1> QED
  BY <1>7

LEMMA AnswersAre ==
  answersBar = From(answers) /\ answersBar' = From(answers')
BY DEF answersBar, From

\* sendto takes the first result out of the server.
LEMMA SenderRefines ==
  ASSUME ServerHandShakes, ServerSends
  PROVE  \/ /\ X!Answer
            /\ answers' = Append(answers, calcs)
            /\ calcs \in S!Results /\ calcs.from = Head(resultsBar)
         \/ UNCHANGED answers /\ UNCHANGED X!vars
<1> USE DEF S!Listeners, S!LISTENER_FIRST, S!LISTENER_SECOND, S!Calculator, S!Sender,
            S!Threads, LISTENER_FIRST, LISTENER_SECOND
<1>1. UNCHANGED <<request, request - 1, callingBar, sentBar, receivedBar, gotBar>>
  BY ClientSame DEF ServerSends
<1>2. server_at \in [S!Threads -> S!ListenerAt \cup S!CalculatorAt \cup S!SenderAt]
      /\ answers \in Seq(S!Results \cup {NULL})
  BY DEF ServerHandShakes, S!TypeOK
<1>3. /\ \A t \in S!Threads \ {S!Sender} : server_at'[t] = server_at[t]
      /\ UNCHANGED <<inbox, calculations, stock, turn, server_pack, batch>>
  BY <1>2 DEF ServerSends, S!RunSender, S!WaitForCalculator, S!ReadCalculations,
       S!SendCalcs, S!SignalSenderReady, S!Step, S!network, S!stocks, S!locals
<1>4. halvesBar' = halvesBar
  <2>1. ASSUME NEW l \in S!Listeners
        PROVE  Copied(l)' = Copied(l) /\ Emptied(l)' = Emptied(l)
    BY <1>3 DEF Copied, Emptied
  <2> QED
    BY <1>3, <2>1 DEF halvesBar
<1>5. InHand' = InHand
  BY <1>3 DEF InHand
<1>6. ASSUME InSender' = InSender, answers' = answers
      PROVE  UNCHANGED answers /\ UNCHANGED X!vars
  <2>1. resultsBar' = resultsBar /\ answersBar' = answersBar
    BY <1>5, <1>6 DEF resultsBar, InSender, InHand, answersBar
  <2> QED
    BY <1>1, <1>3, <1>4, <1>6, <2>1 DEF X!vars, X!sockets, X!server, X!client
<1>7. CASE S!WaitForCalculator
  BY <1>2, <1>3, <1>6, <1>7
     DEF S!WaitForCalculator, S!Step, S!Wait, S!network, S!locals, InSender, One, S!ToSend
<1>8. CASE S!ReadCalculations
  BY <1>2, <1>3, <1>6, <1>8
     DEF S!ReadCalculations, S!Step, S!network, InSender, One, S!ToSend
<1>9. CASE S!SignalSenderReady
  BY <1>2, <1>3, <1>6, <1>9
     DEF S!SignalSenderReady, S!Step, S!Signal, S!network, S!locals, InSender, One, S!ToSend
<1>10. CASE S!SendCalcs
  <2>1. /\ server_at[S!Sender] = "sendto" /\ server_at'[S!Sender] = "signal_sender_ready"
        /\ answers' = Append(answers, calcs) /\ server_raised' = server_raised
    BY <1>2, <1>10 DEF S!SendCalcs, S!Step
  <2>2. ~S!ToSend /\ calcs \in S!Results
    BY <2>1 DEF ServerHandShakes, S!ResultHasOneOwner, S!Sending
  <2>3. InSender = <<calcs.from>> /\ InSender' = <<>>
    BY <2>1, <2>2 DEF InSender, One, S!ToSend
  <2>4. answersBar' = Append(answersBar, calcs.from)
    <3>1. calcs \in S!Results \cup {NULL}
      BY <2>2
    <3> QED
      BY <1>2, <2>1, <3>1, AnswersAre, FromOfAppend
  <2>5. resultsBar # <<>> /\ Head(resultsBar) = calcs.from /\ resultsBar' = Tail(resultsBar)
    <3> DEFINE T == {calcs.from, calculations.from}
    <3>1. InHand \in Seq(T) /\ calcs.from \in T
      BY OneIs DEF InHand
    <3>2. resultsBar = InSender \o InHand /\ resultsBar' = InSender' \o InHand'
      BY DEF resultsBar, InSender, InHand
    <3> HIDE DEF T, InSender, InHand
    <3>3. resultsBar = <<calcs.from>> \o InHand /\ resultsBar' = <<>> \o InHand
      BY <1>5, <2>3, <3>2
    <3> QED
      BY <3>1, <3>3, Joined
  <2> QED
    BY <1>1, <1>3, <1>4, <2>1, <2>2, <2>4, <2>5 DEF X!Answer, X!client
<1> QED
  BY <1>7, <1>8, <1>9, <1>10 DEF ServerSends, S!RunSender

-----------------------------------------------------------------------------
(* The client.                                                             *)

\* The places of receivedBar.
InStockOfClient == One(listener_stock # NULL /\ client_at[C!Calculator] # "clean_batch_stock",
                       listener_stock.from)
InListenerOfClient == One(client_at[C!Listener] \in {"wait_listener_to", "store_batch"},
                          client_pack.from)

LEMMA ReceivedIs ==
  /\ receivedBar = InStockOfClient \o InListenerOfClient
  /\ receivedBar' = InStockOfClient' \o InListenerOfClient'
BY DEF receivedBar, InStockOfClient, InListenerOfClient

\* What no answer and no datagram moves in.
LEMMA ClientStutters ==
  ASSUME UNCHANGED <<inbox, answers, server, request, callingBar, sentBar, receivedBar,
                     gotBar>>
  PROVE  UNCHANGED X!vars
<1>1. UNCHANGED <<halvesBar, resultsBar>>
  BY ServerSame
<1>2. UNCHANGED answersBar /\ UNCHANGED (request - 1)
  BY DEF answersBar
<1> QED
  BY <1>1, <1>2 DEF X!vars, X!sockets, X!server, X!client

LEMMA CallsLeft ==
  ASSUME ClientHandShakes, client_at[C!Calculator] = "add_first_batch"
  PROVE  request - 1 < Steps * CallsPerStep
<1>1. step \in Nat /\ stage \in 1 .. CallsPerStep /\ request \in Nat
      /\ step < Steps /\ request = step * CallsPerStep + stage
  <2>1. step \in Nat /\ stage \in 1 .. CallsPerStep /\ request \in Nat
    BY DEF ClientHandShakes, C!ControlOK
  <2>2. step < Steps /\ request = step * CallsPerStep + stage + 0
    BY DEF ClientHandShakes, C!CallsCounted, C!GetUAt
  <2>3. step * CallsPerStep \in Nat
    BY <2>1, QuadrocoptAssumption
  <2> QED
    BY <2>1, <2>2, <2>3, QuadrocoptAssumption
<1>2. Steps \in Nat /\ CallsPerStep \in Nat
  BY QuadrocoptAssumption
<1>3. \A n, m, k \in Nat : n < m => n * k + k <= m * k
  <2>1. \A n, d, k \in Nat : n * k + k <= (n + d + 1) * k
    <3>1. \A n, d, k \in Nat : (n + d + 1) * k = n * k + d * k + k /\ d * k \in Nat /\ n * k \in Nat
      OBVIOUS
    <3> QED
      BY <3>1
  <2> TAKE n, m, k \in Nat
  <2> HAVE n < m
  <2>2. m - n - 1 \in Nat /\ n + (m - n - 1) + 1 = m
    OBVIOUS
  <2> QED
    BY <2>1, <2>2
<1>4. step * CallsPerStep \in Nat /\ Steps * CallsPerStep \in Nat
  BY <1>1, <1>2
<1>5. step * CallsPerStep + CallsPerStep <= Steps * CallsPerStep
  BY <1>1, <1>2, <1>3
<1> QED
  BY <1>1, <1>2, <1>4, <1>5

\* The call of get_u begins where it writes its request, and ends where it has read an
\* answer.
LEMMA CallBegins ==
  ASSUME ClientHandShakes, ClientCalculates, C!AddFirstBatch
  PROVE  X!Call
<1> USE DEF C!Calculator, C!Sender, C!Listener, C!Printer, C!Threads, C!Workers, C!Ports,
            C!FIRST, C!SECOND
<1>1. /\ client_at \in [C!Threads -> C!CalculatorAt \cup C!SenderAt \cup C!ListenerAt
                                       \cup C!PrinterAt]
      /\ request \in Nat \ {0}
  BY DEF ClientHandShakes, C!ControlOK
<1>2. /\ client_at[C!Calculator] = "add_first_batch"
      /\ client_at'[C!Calculator] = "add_second_batch"
      /\ \A t \in C!Threads \ {C!Calculator} : client_at'[t] = client_at[t]
      /\ request' = request + 1
      /\ UNCHANGED <<inbox, answers, server, client_raised, listener_stock, listener_batch,
                     client_pack>>
  BY <1>1 DEF ClientCalculates, C!AddFirstBatch, C!Step, C!network
<1>3. UNCHANGED <<halvesBar, resultsBar, answersBar>>
  BY <1>2, ServerSame DEF answersBar
<1>4. C!Copied = request /\ C!Copied' = request
  <2>1. ~C!ToFetch /\ ~C!Fetching
    BY <1>2 DEF ClientHandShakes, C!OnlyListenerStops, C!SenderStockHasOneOwner, C!Writing
  <2>2. C!Copied = request
    BY <1>2, <2>1 DEF C!Copied
  <2>3. C!Copied' = request' - 1
    BY <1>2 DEF C!Copied
  <2> QED
    BY <1>1, <1>2, <2>2, <2>3
<1>5. sentBar' = sentBar
  BY <1>2, <1>4 DEF sentBar, S!Listeners
<1>6. sentBar["second"] >= request - 1
  BY <1>1, <1>4 DEF sentBar, S!Listeners, S!LISTENER_SECOND, LISTENER_SECOND
<1>7. UNCHANGED <<receivedBar, gotBar>>
  BY <1>2 DEF receivedBar, gotBar
<1>8. ~callingBar /\ callingBar' = TRUE
  BY <1>2 DEF callingBar
<1>9. request - 1 < Steps * CallsPerStep
  BY <1>2, CallsLeft
<1>10. request' - 1 = (request - 1) + 1
  BY <1>1, <1>2
<1> QED
  BY <1>2, <1>3, <1>5, <1>6, <1>7, <1>8, <1>9, <1>10
     DEF X!Call, X!Answered, X!MoreCalls, X!sockets, X!server, X!LISTENER_SECOND

LEMMA CallReturns ==
  ASSUME ClientHandShakes, AnswersAreThere, ClientCalculates, C!GetBatch
  PROVE  X!Return
<1> USE DEF C!Calculator, C!Sender, C!Listener, C!Printer, C!Threads, C!Workers
<1>1. client_at \in [C!Threads -> C!CalculatorAt \cup C!SenderAt \cup C!ListenerAt
                                    \cup C!PrinterAt]
  BY DEF ClientHandShakes, C!ControlOK
<1>2. /\ client_at[C!Calculator] = "get_batch"
      /\ client_at'[C!Calculator] = "clean_batch_stock"
      /\ \A t \in C!Threads \ {C!Calculator} : client_at'[t] = client_at[t]
      /\ listener_batch' = listener_stock
      /\ UNCHANGED <<inbox, answers, server, client_raised, listener_stock, client_pack,
                     request>>
  BY <1>1 DEF ClientCalculates, C!GetBatch, C!Step, C!network, C!stocks
<1>3. UNCHANGED <<halvesBar, resultsBar, answersBar>>
  BY <1>2, ServerSame DEF answersBar
<1>4. listener_stock # NULL
  <2>1. client_at[C!Listener] # "exited"
    BY <1>2 DEF ClientHandShakes, C!StoppedAtTheEnd
  <2> QED
    BY <1>2, <2>1 DEF ClientHandShakes, C!ListenerStockHasOneOwner
<1>5. sentBar' = sentBar
  BY <1>2 DEF sentBar, C!Copied, C!ToFetch, C!Fetching
<1>6. callingBar = TRUE /\ callingBar' = FALSE
  BY <1>2 DEF callingBar
<1>7. gotBar' = listener_stock.from
  BY <1>2, <1>4 DEF gotBar
<1>8. InStockOfClient = <<listener_stock.from>> /\ InStockOfClient' = <<>>
      /\ InListenerOfClient' = InListenerOfClient
  BY <1>2, <1>4 DEF InStockOfClient, InListenerOfClient, One
<1>9. /\ receivedBar # <<>> /\ Head(receivedBar) = listener_stock.from
      /\ receivedBar' = Tail(receivedBar)
  <2> DEFINE T == {listener_stock.from, client_pack.from}
  <2>1. InListenerOfClient \in Seq(T) /\ listener_stock.from \in T
    BY OneIs DEF InListenerOfClient
  <2> HIDE DEF T, InStockOfClient, InListenerOfClient
  <2>2. /\ receivedBar = <<listener_stock.from>> \o InListenerOfClient
        /\ receivedBar' = <<>> \o InListenerOfClient
    BY <1>8, ReceivedIs
  <2> QED
    BY <2>1, <2>2, Joined
<1> QED
  BY <1>2, <1>3, <1>5, <1>6, <1>7, <1>9 DEF X!Return, X!sockets, X!server

LEMMA ClientCalculatorRefines ==
  ASSUME ClientHandShakes, AnswersAreThere, ClientCalculates
  PROVE  X!Call \/ X!Return \/ UNCHANGED X!vars
<1> USE DEF C!Calculator, C!Sender, C!Listener, C!Printer, C!Threads, C!Workers
<1> SUFFICES ASSUME ~C!AddFirstBatch, ~C!GetBatch
             PROVE  UNCHANGED X!vars
  BY CallBegins, CallReturns
<1>1. client_at \in [C!Threads -> C!CalculatorAt \cup C!SenderAt \cup C!ListenerAt
                                    \cup C!PrinterAt]
  BY DEF ClientHandShakes, C!ControlOK
<1>2. /\ \A t \in C!Threads \ {C!Calculator} : client_at'[t] = client_at[t]
      /\ UNCHANGED <<inbox, answers, server, request, listener_batch, client_pack>>
  BY <1>1 DEF ClientCalculates, C!RunCalculator, C!NextStep, C!WaitSenderFrom, C!AddSecondBatch,
       C!SignalSenderTo, C!WaitListenerFrom, C!CleanBatchStock, C!SignalListenerTo,
       C!WaitPrinterFrom, C!SignalPrinterTo, C!StopWorker, C!JoinWorker, C!Return, C!Step,
       C!network, C!locals
<1>3. gotBar' = gotBar
  BY <1>2 DEF gotBar
<1>4. C!Copied' = C!Copied /\ callingBar' = callingBar
  <2>1. CASE C!SignalSenderTo
    <3>1. /\ client_at[C!Calculator] = "signal_sender_to"
          /\ client_at'[C!Calculator] = "wait_listener_from" /\ C!ToFetch'
      BY <1>1, <2>1 DEF C!SignalSenderTo, C!Step, C!AfterSignal, C!Signal, C!ToFetch
    <3> QED
      BY <1>2, <3>1 DEF callingBar, C!Copied
  <2>2. CASE ~C!SignalSenderTo
    <3>1. C!ToFetch' <=> C!ToFetch
      BY <2>2 DEF ClientCalculates, C!RunCalculator, C!NextStep, C!WaitSenderFrom,
           C!AddSecondBatch, C!WaitListenerFrom, C!CleanBatchStock, C!SignalListenerTo,
           C!WaitPrinterFrom, C!SignalPrinterTo, C!StopWorker, C!JoinWorker, C!Return,
           C!Wait, C!Signal, C!ToFetch
    <3>2. /\ client_at[C!Calculator] # "signal_sender_to"
          /\ client_at[C!Calculator] \in {"add_second_batch", "signal_sender_to"}
               <=> client_at'[C!Calculator] \in {"add_second_batch", "signal_sender_to"}
          /\ client_at[C!Calculator] \in {"add_second_batch", "signal_sender_to",
                                          "wait_listener_from", "get_batch"}
               <=> client_at'[C!Calculator] \in {"add_second_batch", "signal_sender_to",
                                                 "wait_listener_from", "get_batch"}
      BY <1>1, <2>2 DEF ClientCalculates, C!RunCalculator, C!NextStep, C!WaitSenderFrom,
           C!AddSecondBatch, C!WaitListenerFrom, C!CleanBatchStock, C!SignalListenerTo,
           C!WaitPrinterFrom, C!SignalPrinterTo, C!StopWorker, C!JoinWorker, C!Return,
           C!Step
    <3> QED
      BY <1>2, <3>1, <3>2 DEF callingBar, C!Copied, C!Fetching
  <2> QED
    BY <2>1, <2>2
<1>5. sentBar' = sentBar
  BY <1>2, <1>4 DEF sentBar
<1>6. InListenerOfClient' = InListenerOfClient
  BY <1>2 DEF InListenerOfClient
<1>7. InStockOfClient' = InStockOfClient
  <2>1. CASE C!CleanBatchStock
    <3>1. client_at[C!Calculator] = "clean_batch_stock" /\ listener_stock' = NULL
      BY <1>1, <2>1 DEF C!CleanBatchStock, C!Step
    <3> QED
      BY <3>1 DEF InStockOfClient, One
  <2>2. CASE ~C!CleanBatchStock
    <3>1. /\ listener_stock' = listener_stock
          /\ client_at[C!Calculator] # "clean_batch_stock"
          /\ client_at'[C!Calculator] # "clean_batch_stock"
      BY <1>1, <2>2 DEF ClientCalculates, C!RunCalculator, C!NextStep, C!WaitSenderFrom,
           C!AddSecondBatch, C!SignalSenderTo, C!AfterSignal, C!WaitListenerFrom,
           C!SignalListenerTo, C!WaitPrinterFrom, C!SignalPrinterTo, C!StopWorker,
           C!JoinWorker, C!Return, C!Step, C!stocks
    <3> QED
      BY <3>1 DEF InStockOfClient
  <2> QED
    BY <2>1, <2>2
<1>8. receivedBar' = receivedBar
  BY <1>6, <1>7, ReceivedIs
<1> QED
  BY <1>2, <1>3, <1>4, <1>5, <1>8, ClientStutters

\* fetch_batches lets go of the stock; sendto sends what it has copied.
LEMMA ClientSenderRefines ==
  ASSUME ClientHandShakes, ServerHandShakes, ClientSends
  PROVE  (\E l \in X!Listeners : X!Send(l)) \/ UNCHANGED X!vars
<1> USE DEF C!Calculator, C!Sender, C!Listener, C!Printer, C!Threads, C!Workers, C!Ports,
            C!FIRST, C!SECOND
<1>1. /\ client_at \in [C!Threads -> C!CalculatorAt \cup C!SenderAt \cup C!ListenerAt
                                       \cup C!PrinterAt]
      /\ request \in Nat \ {0}
  BY DEF ClientHandShakes, C!ControlOK
<1>2. /\ \A t \in C!Threads \ {C!Sender} : client_at'[t] = client_at[t]
      /\ UNCHANGED <<answers, server, request, listener_stock, listener_batch, client_pack>>
  BY <1>1 DEF ClientSends, C!RunSender, C!WaitSenderTo, C!FetchBatches, C!Fetch,
       C!SignalSenderFrom, C!SendCalcs, C!Send, C!Step, C!network, C!stocks, C!locals
<1>3. UNCHANGED <<callingBar, receivedBar, gotBar>>
  BY <1>2 DEF callingBar, receivedBar, gotBar
<1>4. /\ C!ToFetch => ~(C!Fetching \/ C!Fetched \/ C!Writing)
      /\ C!Fetching => ~(C!Fetched \/ C!Writing)
  BY DEF ClientHandShakes, C!OnlyListenerStops, C!SenderStockHasOneOwner
<1>5. CASE ~C!SendCalcs
  <2>1. inbox' = inbox
    BY <1>5 DEF ClientSends, C!RunSender, C!WaitSenderTo, C!FetchBatches, C!Fetch,
         C!SignalSenderFrom, C!network
  <2>2. CASE C!WaitSenderTo
    <3>1. /\ client_at[C!Sender] = "wait_sender_to" /\ client_at'[C!Sender] = "fetch_first"
          /\ C!ToFetch
      BY <1>1, <2>2 DEF C!WaitSenderTo, C!Step, C!Wait, C!ToFetch
    <3>2. C!Copied = request - 1 /\ C!Copied' = request - 1
      BY <1>2, <3>1 DEF C!Copied, C!Fetching
    <3>3. sentBar' = sentBar
      BY <3>1, <3>2 DEF sentBar
    <3> QED
      BY <1>2, <1>3, <2>1, <3>3, ClientStutters
  <2>3. CASE C!FetchBatches
    <3>1. /\ client_at[C!Sender] \in {"fetch_first", "fetch_second"}
          /\ client_at'[C!Sender] \in {"fetch_second", "signal_sender_from"}
      BY <1>1, <2>3 DEF C!FetchBatches, C!Fetch, C!AfterFirstFetch, C!Step
    <3>2. C!Copied = request - 1 /\ C!Copied' = request - 1
      BY <1>2, <3>1 DEF C!Copied, C!Fetching
    <3>3. sentBar' = sentBar
      BY <3>1, <3>2 DEF sentBar
    <3> QED
      BY <1>2, <1>3, <2>1, <3>3, ClientStutters
  <2>4. CASE C!SignalSenderFrom
    <3>1. /\ client_at[C!Sender] = "signal_sender_from"
          /\ client_at'[C!Sender] = "send_first"
          /\ C!ToFetch' <=> C!ToFetch
      BY <1>1, <2>4 DEF C!SignalSenderFrom, C!Step, C!Signal, C!ToFetch
    <3>2. ~C!ToFetch /\ ~C!Writing
      BY <1>4, <3>1 DEF C!Fetching
    <3>3. C!Copied = request - 1
      BY <3>1 DEF C!Copied, C!Fetching
    <3>4. C!Copied' = request
      BY <1>2, <3>1, <3>2 DEF C!Copied, C!Fetching, C!Writing
    <3>5. sentBar = [l \in S!Listeners |-> request - 1]
      BY <3>1, <3>3 DEF sentBar
    <3>6. sentBar' = [l \in S!Listeners |-> request - 1]
      BY <3>1, <3>4 DEF sentBar
    <3>7. sentBar' = sentBar
      BY <3>5, <3>6
    <3> QED
      BY <1>2, <1>3, <2>1, <3>7, ClientStutters
  <2> QED
    BY <1>5, <2>2, <2>3, <2>4 DEF ClientSends, C!RunSender
<1>6. CASE C!SendCalcs
  <2>1. UNCHANGED <<halvesBar, resultsBar, answersBar>>
    BY <1>2, ServerSame DEF answersBar
  <2>2. C!ToFetch' <=> C!ToFetch
    BY <1>6 DEF C!SendCalcs, C!Send, C!ToFetch
  <2>3. /\ client_at[C!Sender] \in {"send_first", "send_second"}
        /\ client_at'[C!Sender] \in {"send_second", "wait_sender_to"}
    BY <1>1, <1>6 DEF C!SendCalcs, C!Send, C!Step
  <2>4. C!Copied' = C!Copied
    BY <1>2, <2>2, <2>3 DEF C!Copied, C!Fetching
  <2>5. C!Copied \in Int /\ C!Copied <= request
    BY <1>1 DEF C!Copied
  <2> HIDE DEF C!Copied
  <2>6. inbox \in [S!Listeners -> Seq(S!Requests)]
    BY DEF ServerHandShakes, S!TypeOK
  <2> USE DEF S!Listeners, S!LISTENER_FIRST, S!LISTENER_SECOND, LISTENER_FIRST, LISTENER_SECOND
  <2>7. CASE C!Send(C!FIRST, "send_first", "send_second")
    <3>1. /\ client_at[C!Sender] = "send_first" /\ client_at'[C!Sender] = "send_second"
          /\ inbox' = [inbox EXCEPT !["first"] = Append(@, fetched["first"])]
      BY <1>1, <2>7 DEF C!Send, C!Step
    <3>2. fetched["first"] = C!Copied
      BY <3>1 DEF ClientHandShakes, C!OnlyListenerStops, C!StockHoldsRequest
    <3>3. /\ sentBar["first"] = C!Copied - 1 /\ sentBar["second"] = C!Copied - 1
          /\ sentBar' = [sentBar EXCEPT !["first"] = C!Copied] /\ sentBar'["first"] = C!Copied
      BY <2>4, <3>1 DEF sentBar
    <3>4. sentBar' = [sentBar EXCEPT !["first"] = @ + 1]
      <4>1. sentBar["first"] + 1 = C!Copied
        BY <2>5, <3>3
      <4> QED
        BY <3>3, <4>1
    <3>5. inbox' = [inbox EXCEPT !["first"] = Append(@, sentBar'["first"])]
      BY <3>1, <3>2, <3>3
    <3>6. sentBar["first"] < request /\ sentBar["first"] = sentBar["second"]
      BY <1>1, <2>5, <3>3
    <3>7. X!Send("first")
      BY <1>2, <1>3, <2>1, <3>4, <3>5, <3>6
         DEF X!Send, X!LISTENER_FIRST, X!LISTENER_SECOND, X!server
    <3> QED
      BY <3>7 DEF X!Listeners, X!LISTENER_FIRST
  <2>8. CASE C!Send(C!SECOND, "send_second", "wait_sender_to")
    <3>1. /\ client_at[C!Sender] = "send_second" /\ client_at'[C!Sender] = "wait_sender_to"
          /\ inbox' = [inbox EXCEPT !["second"] = Append(@, fetched["second"])]
      BY <1>1, <2>8 DEF C!Send, C!Step
    <3>2. fetched["second"] = C!Copied
      BY <3>1 DEF ClientHandShakes, C!OnlyListenerStops, C!StockHoldsRequest
    <3>3. /\ sentBar["first"] = C!Copied /\ sentBar["second"] = C!Copied - 1
          /\ sentBar' = [sentBar EXCEPT !["second"] = C!Copied] /\ sentBar'["second"] = C!Copied
      BY <2>4, <3>1 DEF sentBar
    <3>4. sentBar' = [sentBar EXCEPT !["second"] = @ + 1]
      <4>1. sentBar["second"] + 1 = C!Copied
        BY <2>5, <3>3
      <4> QED
        BY <3>3, <4>1
    <3>5. inbox' = [inbox EXCEPT !["second"] = Append(@, sentBar'["second"])]
      BY <3>1, <3>2, <3>3
    <3>6. sentBar["second"] < request /\ sentBar["first"] = sentBar["second"] + 1
      BY <1>1, <2>5, <3>3
    <3>7. X!Send("second")
      BY <1>2, <1>3, <2>1, <3>4, <3>5, <3>6
         DEF X!Send, X!LISTENER_FIRST, X!LISTENER_SECOND, X!server
    <3> QED
      BY <3>7 DEF X!Listeners, X!LISTENER_SECOND
  <2> QED
    BY <1>6, <2>7, <2>8 DEF C!SendCalcs
<1> QED
  BY <1>5, <1>6

\* recvfrom takes the first answer; the hand-over of the stock changes nothing.
LEMMA ClientListenerRefines ==
  ASSUME ClientHandShakes, AnswersAreThere, ClientListens
  PROVE  X!Receive \/ UNCHANGED X!vars
<1> USE DEF C!Calculator, C!Sender, C!Listener, C!Printer, C!Threads, C!Workers
<1>1. client_at \in [C!Threads -> C!CalculatorAt \cup C!SenderAt \cup C!ListenerAt
                                    \cup C!PrinterAt]
  BY DEF ClientHandShakes, C!ControlOK
<1>2. /\ \A t \in C!Threads \ {C!Listener} : client_at'[t] = client_at[t]
      /\ C!ToFetch' <=> C!ToFetch
      /\ UNCHANGED <<inbox, server, request, listener_batch>>
  BY <1>1 DEF ClientListens, C!RunListener, C!ReceivePacket, C!WaitListenerTo, C!StoreBatch,
       C!SignalListenerFrom, C!Step, C!Wait, C!Signal, C!network, C!locals, C!ToFetch
<1>3. callingBar' = callingBar /\ gotBar' = gotBar
  BY <1>2 DEF callingBar, gotBar
<1>4. sentBar' = sentBar
  BY <1>2 DEF sentBar, C!Copied, C!Fetching
<1>5. CASE C!ReceivePacket
  <2>1. /\ client_at[C!Listener] = "receive_packet"
        /\ client_at'[C!Listener] = "wait_listener_to"
        /\ answers # <<>> /\ client_pack' = Head(answers) /\ answers' = Tail(answers)
        /\ listener_stock' = listener_stock
    BY <1>1, <1>5 DEF C!ReceivePacket, C!Step, C!stocks
  <2>2. UNCHANGED <<halvesBar, resultsBar>>
    BY <1>2, ServerSame
  <2>3. /\ answersBar # <<>> /\ answersBar' = Tail(answersBar)
        /\ client_pack'.from = Head(answersBar)
    <3>1. answers \in Seq(Answers)
      BY DEF AnswersAreThere
    <3> QED
      BY <2>1, <3>1, AnswersAre, FromOfTail
  <2>4. InStockOfClient' = InStockOfClient
    BY <1>2, <2>1 DEF InStockOfClient
  <2>5. InListenerOfClient = <<>> /\ InListenerOfClient' = <<client_pack'.from>>
    BY <2>1 DEF InListenerOfClient, One
  <2>6. Len(receivedBar) < 2 /\ receivedBar' = Append(receivedBar, client_pack'.from)
    <3> DEFINE T == {listener_stock.from, client_pack'.from}
    <3>1. InStockOfClient \in Seq(T) /\ Len(InStockOfClient) <= 1 /\ client_pack'.from \in T
      BY OneIs DEF InStockOfClient
    <3> HIDE DEF T, InStockOfClient, InListenerOfClient
    <3>2. /\ receivedBar = InStockOfClient \o <<>>
          /\ receivedBar' = InStockOfClient \o <<client_pack'.from>>
      BY <2>4, <2>5, ReceivedIs
    <3>3. receivedBar = InStockOfClient
      BY <3>1, <3>2, Joined
    <3> QED
      BY <3>1, <3>2, <3>3, Joined
  <2> QED
    BY <1>2, <1>3, <1>4, <2>2, <2>3, <2>6 DEF X!Receive, X!server
<1>6. CASE ~C!ReceivePacket
  <2>1. UNCHANGED <<answers, client_pack>>
    BY <1>6 DEF ClientListens, C!RunListener, C!WaitListenerTo, C!StoreBatch,
         C!SignalListenerFrom, C!network, C!locals
  <2>2. receivedBar' = receivedBar
    <3>1. CASE C!StoreBatch
      <4>1. /\ client_at[C!Listener] = "store_batch"
            /\ client_at'[C!Listener] = "signal_listener_from"
            /\ listener_stock' = client_pack
        BY <1>1, <3>1 DEF C!StoreBatch, C!Step
      <4>2. /\ listener_stock = NULL /\ client_pack # NULL
            /\ client_at[C!Calculator] # "clean_batch_stock"
        BY <4>1 DEF ClientHandShakes, C!ListenerStockHasOneOwner, C!Storing, C!Reading,
             AnswersAreThere
      <4>3. /\ InStockOfClient = <<>> /\ InListenerOfClient = <<client_pack.from>>
            /\ InStockOfClient' = <<client_pack.from>> /\ InListenerOfClient' = <<>>
        BY <1>2, <2>1, <4>1, <4>2 DEF InStockOfClient, InListenerOfClient, One
      <4> HIDE DEF InStockOfClient, InListenerOfClient
      <4> QED
        BY <4>3, ReceivedIs
    <3>2. CASE ~C!StoreBatch
      <4>1. /\ listener_stock' = listener_stock
            /\ client_at[C!Listener] \in {"wait_listener_to", "store_batch"}
                 <=> client_at'[C!Listener] \in {"wait_listener_to", "store_batch"}
        BY <1>1, <1>6, <3>2 DEF ClientListens, C!RunListener, C!WaitListenerTo,
             C!SignalListenerFrom, C!Step, C!stocks
      <4> QED
        BY <1>2, <2>1, <4>1 DEF receivedBar
    <3> QED
      BY <3>1, <3>2
  <2> QED
    BY <1>2, <1>3, <1>4, <2>1, <2>2, ClientStutters
<1> QED
  BY <1>5, <1>6

LEMMA PrinterRefines ==
  ASSUME ClientHandShakes, ClientPrints
  PROVE  UNCHANGED X!vars
<1> USE DEF C!Calculator, C!Sender, C!Listener, C!Printer, C!Threads, C!Workers
<1>1. client_at \in [C!Threads -> C!CalculatorAt \cup C!SenderAt \cup C!ListenerAt
                                    \cup C!PrinterAt]
  BY DEF ClientHandShakes, C!ControlOK
<1>2. /\ \A t \in C!Threads \ {C!Printer} : client_at'[t] = client_at[t]
      /\ UNCHANGED <<inbox, answers, server, client_raised, request, listener_stock,
                     listener_batch, client_pack>>
  BY <1>1 DEF ClientPrints, C!RunPrinter, C!Step, C!network, C!stocks, C!locals
<1>3. UNCHANGED <<callingBar, receivedBar, gotBar>>
  BY <1>2 DEF callingBar, receivedBar, gotBar
<1>4. sentBar' = sentBar
  BY <1>2 DEF sentBar, C!Copied, C!ToFetch, C!Fetching
<1> QED
  BY <1>2, <1>3, <1>4, ClientStutters

\* The signal reaches the listener after the last call, and an answer it has received
\* but not stored is gone.
LEMMA SignalRefines ==
  ASSUME ClientHandShakes, AnswersAreThere, ClientSignalled
  PROVE  X!Stop \/ UNCHANGED X!vars
<1> USE DEF C!Calculator, C!Sender, C!Listener, C!Printer, C!Threads, C!Workers
<1>1. client_at \in [C!Threads -> C!CalculatorAt \cup C!SenderAt \cup C!ListenerAt
                                    \cup C!PrinterAt]
  BY DEF ClientHandShakes, C!ControlOK
<1>2. C!TakeSignal(C!Listener) /\ UNCHANGED server
  BY DEF ClientSignalled, ClientHandShakes, C!OnlyListenerStops, C!TakeSignal
<1>3. /\ \A t \in C!Threads \ {C!Listener} : client_at'[t] = client_at[t]
      /\ C!Listener \in signalled /\ client_at'[C!Listener] = "exited"
      /\ UNCHANGED <<inbox, answers, server, client_raised, request, listener_stock,
                     listener_batch, client_pack>>
  BY <1>1, <1>2 DEF C!TakeSignal, C!Step, C!network, C!stocks, C!locals
<1>4. callingBar' = callingBar /\ gotBar' = gotBar
  BY <1>3 DEF callingBar, gotBar
<1>5. sentBar' = sentBar
  BY <1>3 DEF sentBar, C!Copied, C!ToFetch, C!Fetching
<1>6. CASE client_at[C!Listener] \in {"wait_listener_to", "store_batch"}
  <2>1. UNCHANGED <<halvesBar, resultsBar, answersBar>>
    BY <1>3, ServerSame DEF answersBar
  <2>2. client_at[C!Calculator] \in {"stop_worker", "pthread_join", "returned"}
    BY <1>3 DEF ClientHandShakes, C!StoppedAtTheEnd
  <2>3. ~callingBar
    BY <2>2 DEF callingBar
  <2>4. request - 1 = Steps * CallsPerStep
    <3>1. step = Steps /\ stage = 1 /\ request = step * CallsPerStep + stage + 0
      BY <2>2 DEF ClientHandShakes, C!CallsCounted, C!GetUAt
    <3> QED
      BY <3>1, Bounds
  <2>5. /\ InListenerOfClient = <<client_pack.from>> /\ InListenerOfClient' = <<>>
        /\ InStockOfClient' = InStockOfClient
    BY <1>3, <1>6 DEF InStockOfClient, InListenerOfClient, One
  <2>6. receivedBar # <<>> /\ receivedBar' = X!Front(receivedBar)
    <3> DEFINE T == {listener_stock.from, client_pack.from}
    <3>1. InStockOfClient \in Seq(T) /\ client_pack.from \in T
      BY OneIs DEF InStockOfClient
    <3> HIDE DEF T, InStockOfClient, InListenerOfClient
    <3>2. /\ receivedBar = Append(InStockOfClient, client_pack.from)
          /\ receivedBar' = InStockOfClient
      BY <2>5, <3>1, ReceivedIs, Joined
    <3>3. \A q \in Seq(T) : \A x \in T :
            Append(q, x) # <<>> /\ SubSeq(Append(q, x), 1, Len(Append(q, x)) - 1) = q
      OBVIOUS
    <3> QED
      BY <3>1, <3>2, <3>3 DEF X!Front
  <2> QED
    BY <1>3, <1>4, <1>5, <2>1, <2>3, <2>4, <2>6 DEF X!Stop, X!sockets, X!server
<1>7. CASE client_at[C!Listener] \notin {"wait_listener_to", "store_batch"}
  <2>1. receivedBar' = receivedBar
    BY <1>3, <1>7 DEF receivedBar
  <2> QED
    BY <1>3, <1>4, <1>5, <2>1, ClientStutters
<1> QED
  BY <1>6, <1>7

-----------------------------------------------------------------------------
(* Losses, and what Session_proofs says of the steps of Exchange.          *)

LEMMA HalfLossRefines ==
  ASSUME NEW l \in S!Listeners, LoseHalf(l)
  PROVE  X!LoseHalf(l)
<1>1. UNCHANGED <<answersBar, halvesBar, resultsBar, request, request - 1, callingBar,
                  sentBar, receivedBar, gotBar>>
  BY ServerSame, ClientSame DEF LoseHalf, answersBar
<1> QED
  BY <1>1 DEF LoseHalf, X!LoseHalf, X!server, X!client, RemoveAt, X!RemoveAt

LEMMA AnswerLossRefines ==
  ASSUME AnswersAreThere, LoseAnswer
  PROVE  X!LoseAnswer
<1>1. UNCHANGED <<inbox, halvesBar, resultsBar, request, request - 1, callingBar,
                  sentBar, receivedBar, gotBar>>
  BY ServerSame, ClientSame DEF LoseAnswer
<1>2. PICK i \in DOMAIN answers : answers' = RemoveAt(answers, i)
  BY DEF LoseAnswer
<1>3. answers \in Seq(Answers)
  BY DEF AnswersAreThere
<1>4. i \in DOMAIN answersBar /\ answersBar' = RemoveAt(answersBar, i)
  BY <1>2, <1>3, AnswersAre, FromOfRemove
<1> QED
  BY <1>1, <1>4 DEF X!LoseAnswer, X!server, X!client, RemoveAt, X!RemoveAt

LEMMA ExchangeNow ==
  ASSUME NEW gone, NEW between
  PROVE  /\ XP!TypeOK <=> X!TypeOK
         /\ XP!AllAccounted(0, gone) <=> X!AllAccounted(0, gone)
         /\ XP!Recent(0) <=> X!Recent(0)
         /\ XP!Together(between) <=> X!Together(between)
         /\ XP!Between = X!Between
BY DEF X!TypeOK, XP!TypeOK, X!AllAccounted, XP!AllAccounted, X!Recent, XP!Recent,
       X!Ranked, XP!Ranked, X!PairOf, XP!PairOf, X!HalfOf, XP!HalfOf, X!Done, XP!Done,
       X!BeforeAnswers, XP!BeforeAnswers, X!BeforeResults, XP!BeforeResults,
       X!BeforeHalves, XP!BeforeHalves, X!BeforeInbox, XP!BeforeInbox, X!Pairs, XP!Pairs,
       X!Listeners, XP!Listeners, X!LISTENER_FIRST, XP!LISTENER_FIRST, X!LISTENER_SECOND,
       XP!LISTENER_SECOND, X!Together, XP!Together, X!Waiting, XP!Waiting, X!Whole,
       XP!Whole, X!Between, XP!Between

LEMMA ExchangeThen ==
  ASSUME NEW gone, NEW between
  PROVE  /\ XP!TypeOK' <=> X!TypeOK'
         /\ XP!AllAccounted(0, gone)' <=> X!AllAccounted(0, gone)'
         /\ XP!Recent(0)' <=> X!Recent(0)'
         /\ XP!Together(between)' <=> X!Together(between)'
         /\ XP!Between' = X!Between'
BY DEF X!TypeOK, XP!TypeOK, X!AllAccounted, XP!AllAccounted, X!Recent, XP!Recent,
       X!Ranked, XP!Ranked, X!PairOf, XP!PairOf, X!HalfOf, XP!HalfOf, X!Done, XP!Done,
       X!BeforeAnswers, XP!BeforeAnswers, X!BeforeResults, XP!BeforeResults,
       X!BeforeHalves, XP!BeforeHalves, X!BeforeInbox, XP!BeforeInbox, X!Pairs, XP!Pairs,
       X!Listeners, XP!Listeners, X!LISTENER_FIRST, XP!LISTENER_FIRST, X!LISTENER_SECOND,
       XP!LISTENER_SECOND, X!Together, XP!Together, X!Waiting, XP!Waiting, X!Whole,
       XP!Whole, X!Between, XP!Between

LEMMA ExchangeActions ==
  /\ XP!ClientNext <=> X!ClientNext
  /\ XP!ServerNext <=> X!ServerNext
  /\ \A l \in S!Listeners : XP!LoseHalf(l) <=> X!LoseHalf(l)
  /\ XP!LoseAnswer <=> X!LoseAnswer
  /\ XP!Lose <=> X!Lose
  /\ XP!Listeners = S!Listeners /\ X!Listeners = S!Listeners
BY DEF S!Listeners, S!LISTENER_FIRST, S!LISTENER_SECOND,
       X!TypeOK, XP!TypeOK, X!AllAccounted, XP!AllAccounted, X!Recent, XP!Recent,
       X!Ranked, XP!Ranked, X!PairOf, XP!PairOf, X!HalfOf, XP!HalfOf, X!Done, XP!Done,
       X!BeforeAnswers, XP!BeforeAnswers, X!BeforeResults, XP!BeforeResults,
       X!BeforeHalves, XP!BeforeHalves, X!BeforeInbox, XP!BeforeInbox, X!Pairs, XP!Pairs,
       X!Listeners, XP!Listeners, X!LISTENER_FIRST, XP!LISTENER_FIRST, X!LISTENER_SECOND,
       XP!LISTENER_SECOND, X!Together, XP!Together, X!Waiting, XP!Waiting, X!Whole,
       XP!Whole, X!Between, XP!Between, X!ClientNext, XP!ClientNext, X!ServerNext,
       XP!ServerNext, X!LoseHalf, XP!LoseHalf, X!LoseAnswer, XP!LoseAnswer, X!Lose,
       XP!Lose, X!Call, XP!Call, X!Send, XP!Send, X!Receive, XP!Receive, X!Return,
       XP!Return, X!Stop, XP!Stop, X!Take, XP!Take, X!Compute, XP!Compute, X!Answer,
       XP!Answer, X!Answered, XP!Answered, X!MoreCalls, XP!MoreCalls, X!Socket, XP!Socket,
       X!Front, XP!Front, X!RemoveAt, XP!RemoveAt, X!sockets, XP!sockets, X!server,
       XP!server, X!client, XP!client

\* Everything keeps its place when the client or the server takes a step, and Gone
\* counts what takes none.
LEMMA ExchangeStep ==
  ASSUME NEW gone \in [S!Listeners -> Nat],
         X!TypeOK, X!AllAccounted(0, gone), X!Recent(0), X!ClientNext \/ X!ServerNext
  PROVE  X!TypeOK' /\ X!AllAccounted(0, gone)' /\ X!Recent(0)'
<1>1. /\ XP!TypeOK /\ XP!AllAccounted(0, gone) /\ XP!Recent(0)
      /\ XP!ClientNext \/ XP!ServerNext
      /\ gone \in [XP!Listeners -> Nat]
  BY ExchangeNow, ExchangeActions
<1>2. XP!TypeOK'
  BY <1>1, Bounds, QuadrocoptAssumption, XP!ClientType, XP!ServerType
<1>3. XP!AllAccounted(0, gone)' /\ XP!Recent(0)'
  BY <1>1, Bounds, QuadrocoptAssumption, XP!ClientPlaces, XP!ServerPlaces
<1> QED
  BY <1>2, <1>3, ExchangeThen

LEMMA HalfLossStep ==
  ASSUME NEW gone \in [S!Listeners -> Nat], NEW more \in [S!Listeners -> Nat],
         NEW l \in S!Listeners, more[l] <= gone[l] + 1,
         \A k \in S!Listeners \ {l} : more[k] <= gone[k],
         X!TypeOK, X!AllAccounted(0, gone), X!Recent(0), X!LoseHalf(l)
  PROVE  X!TypeOK' /\ X!AllAccounted(0, more)' /\ X!Recent(0)'
<1>1. /\ XP!TypeOK /\ XP!AllAccounted(0, gone) /\ XP!Recent(0) /\ XP!LoseHalf(l)
      /\ gone \in [XP!Listeners -> Nat] /\ more \in [XP!Listeners -> Nat]
      /\ l \in XP!Listeners /\ \A k \in XP!Listeners \ {l} : more[k] <= gone[k]
  BY ExchangeNow, ExchangeActions
<1>2. XP!Lose
  BY <1>1 DEF XP!Lose
<1>3. XP!TypeOK'
  BY <1>1, <1>2, Bounds, QuadrocoptAssumption, XP!LoseType
<1>4. XP!AllAccounted(0, more)' /\ XP!Recent(0)'
  BY <1>1, Bounds, QuadrocoptAssumption, XP!LoseHalfPlaces
<1> QED
  BY <1>3, <1>4, ExchangeThen

LEMMA AnswerLossStep ==
  ASSUME NEW gone \in [S!Listeners -> Nat], NEW more \in [S!Listeners -> Nat],
         \A k \in S!Listeners : more[k] <= gone[k] + 1,
         X!TypeOK, X!AllAccounted(0, gone), X!Recent(0), X!LoseAnswer
  PROVE  X!TypeOK' /\ X!AllAccounted(0, more)' /\ X!Recent(0)'
<1>1. /\ XP!TypeOK /\ XP!AllAccounted(0, gone) /\ XP!Recent(0) /\ XP!LoseAnswer
      /\ gone \in [XP!Listeners -> Nat] /\ more \in [XP!Listeners -> Nat]
      /\ \A k \in XP!Listeners : more[k] <= gone[k] + 1
  BY ExchangeNow, ExchangeActions
<1>2. XP!Lose
  BY <1>1 DEF XP!Lose
<1>3. XP!TypeOK'
  BY <1>1, <1>2, Bounds, QuadrocoptAssumption, XP!LoseType
<1>4. XP!AllAccounted(0, more)' /\ XP!Recent(0)'
  BY <1>1, Bounds, QuadrocoptAssumption, XP!LoseAnswerPlaces
<1> QED
  BY <1>3, <1>4, ExchangeThen

\* Without a loss, what waits at the two ports stays together.
LEMMA TogetherStep ==
  ASSUME X!TypeOK, X!Together(X!Between), X!ClientNext \/ X!ServerNext
  PROVE  X!Together(X!Between)'
<1>1. PICK between : between = X!Between
  OBVIOUS
<1>2. CASE X!ClientNext
  <2>1. XP!TypeOK /\ XP!Together(XP!Between) /\ XP!ClientNext
    BY <1>1, <1>2, ExchangeNow, ExchangeActions
  <2>2. XP!Together(XP!Between)'
    BY <2>1, Bounds, QuadrocoptAssumption, XP!ClientKeepsTogether
  <2>3. PICK then : then = X!Between'
    OBVIOUS
  <2>4. XP!Between' = then
    BY <2>3, ExchangeThen
  <2>5. XP!Together(then)'
    BY <2>2, <2>4 DEF XP!Together
  <2>6. X!Together(then)'
    BY <2>5, ExchangeThen
  <2> QED
    BY <2>3, <2>6 DEF X!Together
<1>3. CASE X!ServerNext
  <2>1. XP!TypeOK /\ XP!Together(between) /\ XP!ServerNext
    BY <1>1, <1>3, ExchangeNow, ExchangeActions DEF X!Together
  <2>2. XP!Together(between)'
    BY <2>1, Bounds, QuadrocoptAssumption, XP!ServerKeepsTogether
  <2>3. X!Together(between)'
    BY <2>2, ExchangeThen
  <2>4. X!Between' = X!Between
    <3>1. UNCHANGED sentBar
      BY <1>3 DEF X!ServerNext, X!Take, X!Compute, X!Answer, X!client
    <3> QED
      BY <3>1 DEF X!Between
  <2> QED
    BY <1>1, <2>3, <2>4 DEF X!Together
<1> QED
  BY <1>2, <1>3

-----------------------------------------------------------------------------
(* The inductive invariant.                                                *)

ServerStep == (\E l \in S!Listeners : ServerListens(l)) \/ ServerCalculates \/ ServerSends

ClientStep == \/ ClientCalculates \/ ClientSends \/ ClientListens \/ ClientPrints
              \/ ClientSignalled

LEMMA ServerStepRefines ==
  ASSUME ServerHandShakes, ServerStep
  PROVE  /\ ServerHandShakes'
         /\ X!ServerNext \/ UNCHANGED X!vars
<1>1. S!Next
  BY DEF ServerStep, ServerListens, ServerCalculates, ServerSends, S!Next
<1>2. ServerHandShakes'
  BY <1>1, ServerHandShakesStep
<1>3. X!ServerNext \/ UNCHANGED X!vars
  <2>1. ASSUME NEW l \in S!Listeners, ServerListens(l)
        PROVE  X!ServerNext \/ UNCHANGED X!vars
    BY <1>2, <2>1, ListenerRefines, ExchangeActions DEF X!ServerNext
  <2> QED
    BY <2>1, CalculatorRefines, SenderRefines DEF ServerStep, X!ServerNext
<1> QED
  BY <1>2, <1>3

LEMMA ClientStepRefines ==
  ASSUME ServerHandShakes, ClientHandShakes, AnswersAreThere, ClientStep
  PROVE  /\ ClientHandShakes'
         /\ X!ClientNext \/ UNCHANGED X!vars
<1>1. C!Next
  BY DEF ClientStep, ClientCalculates, ClientSends, ClientListens, ClientPrints,
         ClientSignalled, C!Next, C!Process
<1>2. ClientHandShakes'
  BY <1>1, ClientHandShakesStep
<1>3. X!ClientNext \/ UNCHANGED X!vars
  BY ClientCalculatorRefines, ClientSenderRefines, ClientListenerRefines, PrinterRefines,
     SignalRefines DEF ClientStep, X!ClientNext
<1> QED
  BY <1>2, <1>3

\* The hand-shakes of a process that takes no step.
LEMMA ServerHandShakesKept ==
  ASSUME ServerHandShakes, UNCHANGED server,
         inbox' \in [S!Listeners -> Seq(S!Requests)], answers' \in Seq(S!Results \cup {NULL})
  PROVE  ServerHandShakes'
<1>1. S!TypeOK'
  BY DEF ServerHandShakes, S!TypeOK, server
<1>2. S!SlotHasOneOwner' /\ S!SlotHoldsBatch' /\ S!ResultHasOneOwner'
  BY DEF ServerHandShakes, server, S!SlotHasOneOwner, S!SlotHoldsBatch, S!ResultHasOneOwner,
         S!Free, S!Filling, S!Full, S!Emptying, S!Cleaned, S!Sending, S!ToSend, S!Sent,
         S!HandingOver, S!computedBar
<1> QED
  BY <1>1, <1>2 DEF ServerHandShakes

LEMMA ClientHandShakesKept ==
  ASSUME ClientHandShakes, UNCHANGED client
  PROVE  ClientHandShakes'
BY DEF ClientHandShakes, client, C!ControlOK, C!CallsCounted, C!StoppedAtTheEnd,
       C!OnlyListenerStops, C!SenderStockHasOneOwner, C!StockHoldsRequest,
       C!ListenerStockHasOneOwner, C!ToFetch, C!Fetching, C!Fetched, C!Writing, C!Copied,
       C!ToStore, C!Storing, C!Stored, C!Reading

LEMMA AnswersAreResults ==
  /\ Answers \subseteq S!Results \cup {NULL} /\ NULL \notin Answers
  /\ \A q \in Seq(Answers) : q \in Seq(S!Results \cup {NULL})
<1>1. Answers \subseteq S!Results
  BY DEF Answers, S!Results, S!Batches
<1>2. \A T, U : T \subseteq U => \A q \in Seq(T) : q \in Seq(U)
  OBVIOUS
<1> HIDE DEF Answers, S!Results
<1>3. Answers \subseteq S!Results \cup {NULL} /\ NULL \notin Answers
  BY <1>1, Bounds
<1> QED
  BY <1>2, <1>3

\* A request is never more than the calls and the one made in advance.
LEMMA InboxHolds ==
  ASSUME ServerHandShakes, X!TypeOK, X!ClientNext \/ UNCHANGED X!vars
  PROVE  inbox' \in [S!Listeners -> Seq(S!Requests)]
<1>1. inbox \in [S!Listeners -> Seq(S!Requests)]
  BY DEF ServerHandShakes, S!TypeOK
<1>2. ASSUME NEW l \in X!Listeners, X!Send(l)
      PROVE  inbox' \in [S!Listeners -> Seq(S!Requests)]
  <2>1. l \in S!Listeners
    BY ExchangeActions
  <2>2. sentBar[l] \in Nat /\ sentBar[l] < request /\ request \in Nat
        /\ request - 1 <= Steps * CallsPerStep
    BY <1>2, Bounds DEF X!TypeOK, X!Send
  <2>3. sentBar[l] + 1 \in S!Requests
    BY <2>2, Bounds DEF S!Requests
  <2>4. sentBar'[l] = sentBar[l] + 1
    BY <1>2, <2>2 DEF X!Send, X!TypeOK
  <2>5. inbox' = [inbox EXCEPT ![l] = Append(inbox[l], sentBar[l] + 1)]
    BY <1>2, <2>4 DEF X!Send
  <2>6. Append(inbox[l], sentBar[l] + 1) \in Seq(S!Requests)
    BY <1>1, <2>1, <2>3
  <2> QED
    BY <1>1, <2>5, <2>6
<1>3. ASSUME UNCHANGED inbox
      PROVE  inbox' \in [S!Listeners -> Seq(S!Requests)]
  BY <1>1, <1>3
<1> QED
  BY <1>2, <1>3
     DEF X!ClientNext, X!Call, X!Receive, X!Return, X!Stop, X!vars, X!sockets

\* What the sender hands to sendto was computed from two batches.
LEMMA AnswersFromServer ==
  ASSUME ServerHandShakes, AnswersAreThere, X!TypeOK, ServerStep
  PROVE  AnswersAreThere'
<1>1. UNCHANGED client
  BY DEF ServerStep, ServerListens, ServerCalculates, ServerSends
<1>2. answers' \in Seq(Answers)
  <2>1. CASE ServerSends
    <3>1. answers \in Seq(Answers)
      BY DEF AnswersAreThere
    <3>2. CASE UNCHANGED answers
      BY <3>1, <3>2
    <3>3. CASE /\ X!Answer /\ answers' = Append(answers, calcs)
               /\ calcs \in S!Results /\ calcs.from = Head(resultsBar)
      <4>1. Head(resultsBar) \in X!Pairs
        BY <3>3 DEF X!TypeOK, X!Answer
      <4>2. calcs.from \in [S!Listeners -> S!Requests]
        <5>1. calcs.from \in [S!Listeners -> S!Batches]
          BY <3>3 DEF S!Results
        <5>2. ASSUME NEW l \in S!Listeners
              PROVE  calcs.from[l] \in S!Requests
          <6>1. calcs.from[l] \in Int
            BY <3>3, <4>1, ExchangeActions DEF X!Pairs
          <6>2. calcs.from[l] \in S!Batches
            BY <5>1
          <6> QED
            BY <6>1, <6>2, Bounds DEF S!Batches
        <5> QED
          BY <5>1, <5>2
      <4>3. calcs \in Answers
        BY <3>3, <4>2 DEF S!Results, Answers
      <4> QED
        BY <3>1, <3>3, <4>3
    <3> QED
      BY <2>1, <3>2, <3>3, SenderRefines
  <2>2. CASE ~ServerSends
    <3>1. answers' = answers
      BY <2>2 DEF ServerStep, ServerListens, ServerCalculates, S!RunListener, S!ReceivePacket,
           S!WaitUntilCalcReads, S!LockStock, S!StoreBatch, S!UnlockStock,
           S!SignalListenerReady, S!RunCalculator, S!WaitListener, S!ReadBatches,
           S!CleanBatchStock, S!SignalListener, S!CalculateRes, S!WaitForSender,
           S!SignalCalculated, S!network
    <3> QED
      BY <3>1 DEF AnswersAreThere
  <2> QED
    BY <2>1, <2>2
<1> QED
  BY <1>1, <1>2 DEF AnswersAreThere, AnswerInHand, client

LEMMA AnswersInClient ==
  ASSUME ClientHandShakes, AnswersAreThere, ClientStep
  PROVE  AnswersAreThere'
<1> USE DEF C!Calculator, C!Sender, C!Listener, C!Printer, C!Threads, C!Workers
<1>1. client_at \in [C!Threads -> C!CalculatorAt \cup C!SenderAt \cup C!ListenerAt
                                    \cup C!PrinterAt]
  BY DEF ClientHandShakes, C!ControlOK
<1>2. CASE ClientCalculates
  <2>1. /\ \A t \in C!Threads \ {C!Calculator} : client_at'[t] = client_at[t]
        /\ UNCHANGED <<answers, client_pack>>
    BY <1>1, <1>2 DEF ClientCalculates, C!RunCalculator, C!NextStep, C!WaitSenderFrom,
       C!AddFirstBatch, C!AddSecondBatch, C!SignalSenderTo, C!WaitListenerFrom, C!GetBatch,
       C!CleanBatchStock, C!SignalListenerTo, C!WaitPrinterFrom, C!SignalPrinterTo,
       C!StopWorker, C!JoinWorker, C!Return, C!Step, C!network, C!locals
  <2>2. CASE C!GetBatch
    <3>1. /\ client_at[C!Calculator] = "get_batch"
          /\ listener_batch' = listener_stock /\ listener_stock' = listener_stock
      BY <2>2 DEF C!GetBatch, C!Step, C!stocks
    <3>2. listener_stock # NULL
      <4>1. client_at[C!Listener] # "exited"
        BY <3>1 DEF ClientHandShakes, C!StoppedAtTheEnd
      <4> QED
        BY <3>1, <4>1 DEF ClientHandShakes, C!ListenerStockHasOneOwner
    <3> QED
      BY <2>1, <3>1, <3>2 DEF AnswersAreThere
  <2>3. CASE ~C!GetBatch
    <3>1. /\ listener_batch' = listener_batch
          /\ listener_stock' \in {listener_stock, NULL}
          /\ AnswerInHand' => AnswerInHand
      BY <1>1, <1>2, <2>3 DEF ClientCalculates, C!RunCalculator, C!NextStep,
         C!WaitSenderFrom, C!AddFirstBatch, C!AddSecondBatch, C!SignalSenderTo,
         C!AfterSignal, C!WaitListenerFrom, C!CleanBatchStock, C!SignalListenerTo,
         C!WaitPrinterFrom, C!SignalPrinterTo, C!StopWorker, C!JoinWorker, C!Return,
         C!Step, C!stocks, C!locals, AnswerInHand
    <3> QED
      BY <2>1, <3>1 DEF AnswersAreThere
  <2> QED
    BY <2>2, <2>3
<1>3. CASE ClientSends
  <2>1. /\ \A t \in C!Threads \ {C!Sender} : client_at'[t] = client_at[t]
        /\ UNCHANGED <<answers, client_pack, listener_stock, listener_batch>>
    BY <1>1, <1>3 DEF ClientSends, C!RunSender, C!WaitSenderTo, C!FetchBatches, C!Fetch,
       C!SignalSenderFrom, C!SendCalcs, C!Send, C!Step, C!network, C!stocks, C!locals
  <2> QED
    BY <2>1 DEF AnswersAreThere, AnswerInHand
<1>4. CASE ClientListens
  <2>1. /\ client_at'[C!Calculator] = client_at[C!Calculator]
        /\ listener_batch' = listener_batch
    BY <1>1, <1>4 DEF ClientListens, C!RunListener, C!ReceivePacket, C!WaitListenerTo,
       C!StoreBatch, C!SignalListenerFrom, C!Step, C!locals
  <2>2. CASE C!ReceivePacket
    <3>1. /\ answers # <<>> /\ client_pack' = Head(answers) /\ answers' = Tail(answers)
          /\ listener_stock' = listener_stock
      BY <2>2 DEF C!ReceivePacket, C!stocks
    <3>2. Head(answers) \in Answers /\ Tail(answers) \in Seq(Answers)
      BY <3>1 DEF AnswersAreThere
    <3>3. client_pack' # NULL
      BY <3>1, <3>2, AnswersAreResults
    <3> QED
      BY <2>1, <3>1, <3>2, <3>3 DEF AnswersAreThere, AnswerInHand
  <2>3. CASE ~C!ReceivePacket
    <3>1. /\ UNCHANGED <<answers, client_pack>>
          /\ listener_stock' \in {listener_stock, client_pack}
          /\ client_at'[C!Listener] \in {"wait_listener_to", "store_batch"}
               => client_at[C!Listener] \in {"wait_listener_to", "store_batch"}
      BY <1>1, <1>4, <2>3 DEF ClientListens, C!RunListener, C!WaitListenerTo, C!StoreBatch,
         C!SignalListenerFrom, C!Step, C!network, C!stocks, C!locals
    <3> QED
      BY <2>1, <3>1 DEF AnswersAreThere, AnswerInHand
  <2> QED
    BY <2>2, <2>3
<1>5. CASE ClientPrints
  <2>1. /\ \A t \in C!Threads \ {C!Printer} : client_at'[t] = client_at[t]
        /\ UNCHANGED <<answers, client_pack, listener_stock, listener_batch>>
    BY <1>1, <1>5 DEF ClientPrints, C!RunPrinter, C!Step, C!network, C!stocks, C!locals
  <2> QED
    BY <2>1 DEF AnswersAreThere, AnswerInHand
<1>6. CASE ClientSignalled
  <2>1. /\ client_at'[C!Calculator] = client_at[C!Calculator]
        /\ client_at'[C!Listener] \in {client_at[C!Listener], "exited"}
        /\ UNCHANGED <<answers, client_pack, listener_stock, listener_batch>>
    BY <1>1, <1>6 DEF ClientSignalled, C!TakeSignal, C!Step, C!network, C!stocks, C!locals
  <2> QED
    BY <2>1 DEF AnswersAreThere, AnswerInHand
<1> QED
  BY <1>2, <1>3, <1>4, <1>5, <1>6 DEF ClientStep

LEMMA GoneIs ==
  ASSUME lost \in [S!Listeners \cup {CLIENT_IN} -> Nat]
  PROVE  Gone \in [S!Listeners -> Nat]
BY DEF Gone

LEMMA PlacesStay ==
  ASSUME EverythingHasItsPlace, UNCHANGED lost,
         X!ClientNext \/ X!ServerNext \/ UNCHANGED X!vars
  PROVE  EverythingHasItsPlace'
<1>1. PICK gone : gone = Gone
  OBVIOUS
<1>2. gone \in [S!Listeners -> Nat] /\ Gone' = gone
  BY <1>1, GoneIs DEF EverythingHasItsPlace, Gone
<1>3. X!TypeOK /\ X!AllAccounted(0, gone) /\ X!Recent(0)
  BY <1>1 DEF EverythingHasItsPlace
<1>4. X!TypeOK' /\ X!AllAccounted(0, gone)' /\ X!Recent(0)'
  <2>1. CASE X!ClientNext \/ X!ServerNext
    BY <1>2, <1>3, <2>1, ExchangeStep
  <2>2. CASE UNCHANGED X!vars
    <3>1. UNCHANGED <<inbox, answersBar, halvesBar, resultsBar, request, request - 1,
                      callingBar, sentBar, receivedBar, gotBar>>
      BY <2>2 DEF X!vars, X!sockets, X!server, X!client
    <3>2. X!TypeOK'
      BY <1>3, <3>1 DEF X!TypeOK
    <3>3. X!AllAccounted(0, gone)'
      BY <1>3, <3>1 DEF X!AllAccounted, X!BeforeInbox, X!BeforeHalves, X!BeforeResults,
           X!BeforeAnswers, X!Done
    <3>4. X!Recent(0)'
      <4>1. /\ X!HalfOf' = X!HalfOf /\ X!PairOf' = X!PairOf
            /\ X!Done(0)' = X!Done(0) /\ X!BeforeAnswers(0)' = X!BeforeAnswers(0)
            /\ X!BeforeResults(0)' = X!BeforeResults(0)
            /\ X!BeforeHalves(0)' = X!BeforeHalves(0)
            /\ \A l \in X!Listeners : X!BeforeInbox(0, l)' = X!BeforeInbox(0, l)
        BY <3>1 DEF X!HalfOf, X!PairOf, X!BeforeInbox, X!BeforeHalves, X!BeforeResults,
             X!BeforeAnswers, X!Done
      <4> QED
        BY <1>3, <3>1, <4>1 DEF X!Recent, X!Ranked
    <3> QED
      BY <3>2, <3>3, <3>4
  <2> QED
    BY <2>1, <2>2
<1>5. X!AllAccounted(0, Gone)'
  BY <1>2, <1>4 DEF X!AllAccounted
<1> QED
  BY <1>4, <1>5 DEF EverythingHasItsPlace

LEMMA PlacesAfterHalfLoss ==
  ASSUME EverythingHasItsPlace, NEW l \in S!Listeners, LoseHalf(l)
  PROVE  EverythingHasItsPlace'
<1> USE DEF S!Listeners, S!LISTENER_FIRST, S!LISTENER_SECOND, CLIENT_IN
<1>1. PICK gone : gone = Gone
  OBVIOUS
<1>2. PICK more : more = Gone'
  OBVIOUS
<1>3. /\ lost \in [S!Listeners \cup {CLIENT_IN} -> Nat]
      /\ lost' = [lost EXCEPT ![l] = @ + 1]
  BY DEF EverythingHasItsPlace, LoseHalf, MayLose
<1>4. lost' \in [S!Listeners \cup {CLIENT_IN} -> Nat]
  BY <1>3
<1>5. gone \in [S!Listeners -> Nat] /\ more \in [S!Listeners -> Nat]
  BY <1>1, <1>2, <1>3, <1>4 DEF Gone
<1>6. more[l] <= gone[l] + 1 /\ \A k \in S!Listeners \ {l} : more[k] <= gone[k]
  BY <1>1, <1>2, <1>3 DEF Gone
<1>7. X!TypeOK /\ X!AllAccounted(0, gone) /\ X!Recent(0)
  BY <1>1 DEF EverythingHasItsPlace
<1>8. X!TypeOK' /\ X!AllAccounted(0, more)' /\ X!Recent(0)'
  BY <1>5, <1>6, <1>7, HalfLossRefines, HalfLossStep
<1>9. X!AllAccounted(0, Gone)'
  BY <1>2, <1>8 DEF X!AllAccounted
<1> QED
  BY <1>4, <1>8, <1>9 DEF EverythingHasItsPlace

LEMMA PlacesAfterAnswerLoss ==
  ASSUME EverythingHasItsPlace, AnswersAreThere, LoseAnswer
  PROVE  EverythingHasItsPlace'
<1> USE DEF S!Listeners, S!LISTENER_FIRST, S!LISTENER_SECOND, CLIENT_IN
<1>1. PICK gone : gone = Gone
  OBVIOUS
<1>2. PICK more : more = Gone'
  OBVIOUS
<1>3. /\ lost \in [S!Listeners \cup {CLIENT_IN} -> Nat]
      /\ lost' = [lost EXCEPT ![CLIENT_IN] = @ + 1]
  BY DEF EverythingHasItsPlace, LoseAnswer, MayLose
<1>4. lost' \in [S!Listeners \cup {CLIENT_IN} -> Nat]
  BY <1>3
<1>5. gone \in [S!Listeners -> Nat] /\ more \in [S!Listeners -> Nat]
  BY <1>1, <1>2, <1>3, <1>4 DEF Gone
<1>6. \A k \in S!Listeners : more[k] <= gone[k] + 1
  BY <1>1, <1>2, <1>3 DEF Gone
<1>7. X!TypeOK /\ X!AllAccounted(0, gone) /\ X!Recent(0)
  BY <1>1 DEF EverythingHasItsPlace
<1>8. X!TypeOK' /\ X!AllAccounted(0, more)' /\ X!Recent(0)'
  BY <1>5, <1>6, <1>7, AnswerLossRefines, AnswerLossStep
<1>9. X!AllAccounted(0, Gone)'
  BY <1>2, <1>8 DEF X!AllAccounted
<1> QED
  BY <1>4, <1>8, <1>9 DEF EverythingHasItsPlace

LEMMA LossIsCounted ==
  ASSUME EverythingHasItsPlace, NEW s \in S!Listeners \cup {CLIENT_IN}, MayLose(s)
  PROVE  Lost' # 0
<1> USE DEF S!Listeners, S!LISTENER_FIRST, S!LISTENER_SECOND, CLIENT_IN, LISTENER_FIRST,
            LISTENER_SECOND
<1>1. /\ lost \in [S!Listeners \cup {CLIENT_IN} -> Nat]
      /\ lost' = [lost EXCEPT ![s] = @ + 1]
  BY DEF EverythingHasItsPlace, MayLose
<1>2. lost' \in [S!Listeners \cup {CLIENT_IN} -> Nat] /\ lost'[s] > 0
  BY <1>1
<1> QED
  BY <1>2 DEF Lost

LEMMA TogetherStays ==
  ASSUME X!TypeOK, X!Together(X!Between),
         X!ClientNext \/ X!ServerNext \/ UNCHANGED X!vars
  PROVE  X!Together(X!Between)'
<1>1. CASE UNCHANGED X!vars
  BY <1>1 DEF X!vars, X!sockets, X!server, X!client, X!Together, X!Between, X!Waiting
<1> QED
  BY <1>1, TogetherStep

\* calculate_res computes with halves of one request.
LEMMA ComputesWhole ==
  ASSUME X!TypeOK, X!Compute, X!Together(X!Between)'
  PROVE  X!Whole([l \in X!Listeners |-> Head(halvesBar[l])])
<1> DEFINE r == [l \in X!Listeners |-> Head(halvesBar[l])]
<1>1. r \in X!Pairs
  BY DEF X!TypeOK, X!Compute, X!Pairs
<1>2. resultsBar \in Seq(X!Pairs)
  BY DEF X!TypeOK
<1>3. \A i \in DOMAIN resultsBar' : X!Whole(resultsBar'[i])
  BY DEF X!Together
<1>4. resultsBar' = Append(resultsBar, r) \/ resultsBar' = <<r, r>>
  BY DEF X!Compute
<1> HIDE DEF r
<1>5. \E i \in DOMAIN resultsBar' : resultsBar'[i] = r
  <2>1. CASE resultsBar' = Append(resultsBar, r)
    <3>1. Len(resultsBar) + 1 \in DOMAIN Append(resultsBar, r)
          /\ Append(resultsBar, r)[Len(resultsBar) + 1] = r
      BY <1>1, <1>2
    <3> QED
      BY <2>1, <3>1
  <2>2. CASE resultsBar' = <<r, r>>
    BY <2>2
  <2> QED
    BY <1>4, <2>1, <2>2
<1> QED
  BY <1>3, <1>5 DEF r

LEMMA WholeAfterServer ==
  ASSUME ServerHandShakes, X!TypeOK, WholeWithoutLoss, ServerStep
  PROVE  WholeWithoutLoss'
<1>1. Lost' = Lost
  BY DEF ServerStep, ServerListens, ServerCalculates, ServerSends, Lost
<1> SUFFICES ASSUME Lost = 0
             PROVE  X!Together(X!Between)'
                    /\ (calculations' # NULL => X!Whole(calculations'.from))
  BY <1>1 DEF WholeWithoutLoss, X!Whole
<1>2. X!Together(X!Between) /\ (calculations # NULL => X!Whole(calculations.from))
  BY DEF WholeWithoutLoss
<1>3. X!Together(X!Between)'
  BY <1>2, ServerStepRefines, TogetherStays
<1>4. calculations' # NULL => X!Whole(calculations'.from)
  <2>1. CASE ServerCalculates /\ S!CalculateRes
    BY <1>3, <2>1, CalculatorComputes, ComputesWhole
  <2>2. CASE ~(ServerCalculates /\ S!CalculateRes)
    <3>1. calculations' = calculations
      BY <2>2 DEF ServerStep, ServerListens, ServerCalculates, ServerSends, S!RunListener,
         S!ReceivePacket, S!WaitUntilCalcReads, S!LockStock, S!StoreBatch, S!UnlockStock,
         S!SignalListenerReady, S!RunCalculator, S!WaitListener, S!ReadBatches,
         S!CleanBatchStock, S!SignalListener, S!WaitForSender, S!SignalCalculated,
         S!RunSender, S!WaitForCalculator, S!ReadCalculations, S!SendCalcs,
         S!SignalSenderReady, S!stocks
    <3> QED
      BY <1>2, <3>1
  <2> QED
    BY <2>1, <2>2
<1> QED
  BY <1>3, <1>4

LEMMA WholeAfterClient ==
  ASSUME X!TypeOK, WholeWithoutLoss, UNCHANGED <<lost, server>>,
         X!ClientNext \/ UNCHANGED X!vars
  PROVE  WholeWithoutLoss'
<1>1. Lost' = Lost /\ calculations' = calculations
  BY DEF Lost, server
<1>2. Lost = 0 => X!Together(X!Between)'
  BY TogetherStays DEF WholeWithoutLoss
<1> QED
  BY <1>1, <1>2 DEF WholeWithoutLoss, X!Whole

LEMMA StartsInPlace ==
  ASSUME Init
  PROVE  IInv /\ X!Init
<1> USE DEF S!Listeners, S!LISTENER_FIRST, S!LISTENER_SECOND, CLIENT_IN, LISTENER_FIRST,
            LISTENER_SECOND, S!Calculator, S!Sender, S!Threads, C!Calculator, C!Sender,
            C!Listener, C!Printer, C!Threads, C!Workers, C!Ports, C!FIRST, C!SECOND
<1>1. ServerHandShakes
  <2>1. S!TypeOK
    BY Bounds, QuadrocoptAssumption DEF Init, S!Init, S!TypeOK, S!Requests, S!Batches,
       S!InitiallyRaised, S!Packs, S!FirstStatement, S!ListenerAt, S!CalculatorAt,
       S!SenderAt, S!FirstRound, S!calc_to_listener_signal, S!listener_signal
  <2>2. S!SlotHasOneOwner
    BY DEF Init, S!Init, S!FirstStatement, S!InitiallyRaised, S!SlotHasOneOwner, S!Free,
       S!Filling, S!Full, S!Emptying, S!calc_to_listener_signal, S!listener_signal
  <2>3. S!SlotHoldsBatch
    BY DEF Init, S!Init, S!FirstStatement, S!InitiallyRaised, S!SlotHoldsBatch, S!Full,
       S!Emptying, S!Cleaned, S!calc_to_listener_signal, S!listener_signal
  <2>4. S!ResultHasOneOwner
    BY DEF Init, S!Init, S!FirstStatement, S!InitiallyRaised, S!ResultHasOneOwner, S!Sending,
       S!ToSend, S!Sent, S!HandingOver, S!computedBar, S!FirstRound,
       S!calc_to_listener_signal
  <2> QED
    BY <2>1, <2>2, <2>3, <2>4 DEF ServerHandShakes
<1>2. ClientHandShakes
  <2>1. C!ControlOK
    BY QuadrocoptAssumption DEF Init, C!Init, C!ControlOK, C!InitiallyRaised, C!Packs,
       C!FirstStatement, C!GetUAt, C!CalculatorAt, C!SenderAt, C!ListenerAt, C!PrinterAt,
       C!Batches, C!WorkersList, C!AddToList
  <2>2. C!CallsCounted
    BY QuadrocoptAssumption DEF Init, C!Init, C!CallsCounted, C!FirstStatement, C!GetUAt
  <2>3. C!StoppedAtTheEnd /\ C!OnlyListenerStops
    BY DEF Init, C!Init, C!StoppedAtTheEnd, C!OnlyListenerStops, C!FirstStatement,
       C!WorkersList, C!AddToList
  <2>4. C!SenderStockHasOneOwner /\ C!StockHoldsRequest
    BY DEF Init, C!Init, C!SenderStockHasOneOwner, C!StockHoldsRequest, C!FirstStatement,
       C!InitiallyRaised, C!ToFetch, C!Fetching, C!Fetched, C!Writing, C!Copied
  <2>5. C!ListenerStockHasOneOwner
    BY DEF Init, C!Init, C!ListenerStockHasOneOwner, C!FirstStatement, C!InitiallyRaised,
       C!ToStore, C!Storing, C!Stored, C!Reading
  <2> QED
    BY <2>1, <2>2, <2>3, <2>4, <2>5 DEF ClientHandShakes
<1>3. AnswersAreThere
  BY DEF Init, C!Init, AnswersAreThere, AnswerInHand, C!FirstStatement
<1>4. /\ halvesBar = [l \in S!Listeners |-> <<>>] /\ resultsBar = <<>> /\ answersBar = <<>>
      /\ inbox = [l \in S!Listeners |-> <<>>]
  BY DEF Init, S!Init, S!FirstStatement, S!InitiallyRaised, S!ToSend, halvesBar, resultsBar,
     answersBar, Copied, Emptied, One, S!calc_to_listener_signal
<1>5. /\ request = 1 /\ callingBar = FALSE /\ sentBar = [l \in S!Listeners |-> 0]
      /\ receivedBar = <<>> /\ gotBar = NULL
  BY DEF Init, C!Init, C!FirstStatement, C!InitiallyRaised, C!Copied, C!ToFetch, callingBar,
     sentBar, receivedBar, gotBar, One
<1>6. X!Init
  BY <1>4, <1>5 DEF X!Init, X!ServerInit, X!ClientInit, X!Listeners, X!LISTENER_FIRST,
     X!LISTENER_SECOND
<1>7. X!TypeOK
  <2>1. XP!Init
    BY <1>6 DEF X!Init, X!ServerInit, X!ClientInit, X!Listeners, X!LISTENER_FIRST,
       X!LISTENER_SECOND, XP!Init, XP!ServerInit, XP!ClientInit, XP!Listeners,
       XP!LISTENER_FIRST, XP!LISTENER_SECOND
  <2> QED
    BY <2>1, Bounds, QuadrocoptAssumption, XP!ExchangeTypeInit, ExchangeNow
<1>8. EverythingHasItsPlace
  <2>1. lost = [s \in S!Listeners \cup {CLIENT_IN} |-> 0]
    BY DEF Init
  <2>2. Gone = [l \in S!Listeners |-> 0]
    BY <2>1 DEF Gone
  <2>3. X!AllAccounted(0, Gone)
    BY <1>4, <1>5, <2>2 DEF X!AllAccounted, X!BeforeInbox, X!BeforeHalves, X!BeforeResults,
       X!BeforeAnswers, X!Done, X!Listeners, X!LISTENER_FIRST, X!LISTENER_SECOND
  <2>4. X!Recent(0)
    BY <1>4, <1>5 DEF X!Recent, X!Ranked, X!Listeners, X!LISTENER_FIRST, X!LISTENER_SECOND
  <2> QED
    BY <1>7, <2>1, <2>3, <2>4 DEF EverythingHasItsPlace
<1>9. WholeWithoutLoss
  <2>1. calculations = NULL
    BY DEF Init, S!Init
  <2>2. X!Together(X!Between)
    BY <1>4, <1>5 DEF X!Together, X!Between, X!Waiting, X!LISTENER_FIRST, X!LISTENER_SECOND
  <2> QED
    BY <2>1, <2>2 DEF WholeWithoutLoss
<1> QED
  BY <1>1, <1>2, <1>3, <1>6, <1>8, <1>9 DEF IInv

LEMMA InvariantStep ==
  ASSUME IInv, [Next]_vars
  PROVE  IInv'
<1>1. /\ ServerHandShakes /\ ClientHandShakes /\ AnswersAreThere /\ EverythingHasItsPlace
      /\ WholeWithoutLoss /\ X!TypeOK
  BY DEF IInv, EverythingHasItsPlace
<1>2. inbox \in [S!Listeners -> Seq(S!Requests)] /\ answers \in Seq(Answers)
  BY <1>1 DEF ServerHandShakes, S!TypeOK, AnswersAreThere
<1>3. CASE ServerStep
  <2>1. UNCHANGED <<lost, client>>
    BY <1>3 DEF ServerStep, ServerListens, ServerCalculates, ServerSends
  <2>2. ServerHandShakes' /\ (X!ServerNext \/ UNCHANGED X!vars)
    BY <1>1, <1>3, ServerStepRefines
  <2>3. ClientHandShakes'
    BY <1>1, <2>1, ClientHandShakesKept
  <2>4. AnswersAreThere'
    BY <1>1, <1>3, AnswersFromServer
  <2>5. EverythingHasItsPlace'
    BY <1>1, <2>1, <2>2, PlacesStay
  <2>6. WholeWithoutLoss'
    BY <1>1, <1>3, WholeAfterServer
  <2> QED
    BY <2>2, <2>3, <2>4, <2>5, <2>6 DEF IInv
<1>4. CASE ClientStep
  <2>1. UNCHANGED <<lost, server>>
    BY <1>4 DEF ClientStep, ClientCalculates, ClientSends, ClientListens, ClientPrints,
         ClientSignalled
  <2>2. ClientHandShakes' /\ (X!ClientNext \/ UNCHANGED X!vars)
    BY <1>1, <1>4, ClientStepRefines
  <2>3. AnswersAreThere'
    BY <1>1, <1>4, AnswersInClient
  <2>4. answers' \in Seq(S!Results \cup {NULL})
    BY <2>3, AnswersAreResults DEF AnswersAreThere
  <2>5. inbox' \in [S!Listeners -> Seq(S!Requests)]
    BY <1>1, <2>2, InboxHolds
  <2>6. ServerHandShakes'
    BY <1>1, <2>1, <2>4, <2>5, ServerHandShakesKept
  <2>7. EverythingHasItsPlace'
    BY <1>1, <2>1, <2>2, PlacesStay
  <2>8. WholeWithoutLoss'
    BY <1>1, <2>1, <2>2, WholeAfterClient
  <2> QED
    BY <2>2, <2>3, <2>6, <2>7, <2>8 DEF IInv
<1>5. ASSUME NEW l \in S!Listeners, LoseHalf(l)
      PROVE  IInv'
  <2>1. UNCHANGED <<answers, server, client>>
    BY <1>5 DEF LoseHalf
  <2>2. inbox' \in [S!Listeners -> Seq(S!Requests)]
    <3>1. PICK i \in DOMAIN inbox[l] : inbox' = [inbox EXCEPT ![l] = RemoveAt(inbox[l], i)]
      BY <1>5 DEF LoseHalf
    <3>2. XP!RemoveAt(inbox[l], i) \in Seq(S!Requests)
      BY <1>2, <3>1, Bounds, QuadrocoptAssumption, XP!RemoveElements
    <3>3. RemoveAt(inbox[l], i) \in Seq(S!Requests)
      BY <3>2 DEF RemoveAt, XP!RemoveAt
    <3> QED
      BY <1>2, <3>1, <3>3
  <2>3. answers' \in Seq(S!Results \cup {NULL})
    BY <1>2, <2>1, AnswersAreResults
  <2>4. ServerHandShakes'
    BY <1>1, <2>1, <2>2, <2>3, ServerHandShakesKept
  <2>5. ClientHandShakes'
    BY <1>1, <2>1, ClientHandShakesKept
  <2>6. AnswersAreThere'
    BY <1>1, <2>1 DEF AnswersAreThere, AnswerInHand, client
  <2>7. EverythingHasItsPlace'
    BY <1>1, <1>5, PlacesAfterHalfLoss
  <2>8. WholeWithoutLoss'
    BY <1>1, <1>5, LossIsCounted DEF LoseHalf, WholeWithoutLoss
  <2> QED
    BY <2>4, <2>5, <2>6, <2>7, <2>8 DEF IInv
<1>6. CASE LoseAnswer
  <2>1. UNCHANGED <<inbox, server, client>>
    BY <1>6 DEF LoseAnswer
  <2>2. answers' \in Seq(Answers)
    <3>1. PICK i \in DOMAIN answers : answers' = RemoveAt(answers, i)
      BY <1>6 DEF LoseAnswer
    <3>2. XP!RemoveAt(answers, i) \in Seq(Answers)
      BY <1>2, <3>1, Bounds, QuadrocoptAssumption, XP!RemoveElements
    <3> QED
      BY <3>1, <3>2 DEF RemoveAt, XP!RemoveAt
  <2>3. answers' \in Seq(S!Results \cup {NULL})
    BY <2>2, AnswersAreResults
  <2>4. ServerHandShakes'
    BY <1>1, <1>2, <2>1, <2>3, ServerHandShakesKept
  <2>5. ClientHandShakes'
    BY <1>1, <2>1, ClientHandShakesKept
  <2>6. AnswersAreThere'
    BY <1>1, <2>1, <2>2 DEF AnswersAreThere, AnswerInHand, client
  <2>7. EverythingHasItsPlace'
    BY <1>1, <1>6, PlacesAfterAnswerLoss
  <2>8. WholeWithoutLoss'
    BY <1>1, <1>6, LossIsCounted DEF LoseAnswer, WholeWithoutLoss
  <2> QED
    BY <2>4, <2>5, <2>6, <2>7, <2>8 DEF IInv
<1>7. CASE UNCHANGED vars
  <2>1. UNCHANGED <<inbox, answers, lost, server, client>>
    BY <1>7 DEF vars, sockets
  <2>2. answers' \in Seq(S!Results \cup {NULL})
    BY <1>2, <2>1, AnswersAreResults
  <2>3. ServerHandShakes'
    BY <1>1, <1>2, <2>1, <2>2, ServerHandShakesKept
  <2>4. ClientHandShakes'
    BY <1>1, <2>1, ClientHandShakesKept
  <2>5. AnswersAreThere'
    BY <1>1, <2>1 DEF AnswersAreThere, AnswerInHand, client
  <2>6. UNCHANGED X!vars
    BY <2>1, ClientSame, ClientStutters
  <2>7. EverythingHasItsPlace'
    BY <1>1, <2>1, <2>6, PlacesStay
  <2>8. WholeWithoutLoss'
    BY <1>1, <2>1, <2>6, WholeAfterClient
  <2> QED
    BY <2>3, <2>4, <2>5, <2>7, <2>8 DEF IInv
<1> QED
  BY <1>3, <1>4, <1>5, <1>6, <1>7 DEF Next, ServerStep, ClientStep

\* The invariant the run Quadrocopt checks, for every number of steps, calls and lost
\* datagrams.
THEOREM InvariantHolds == Spec => []IInv
<1>1. Init => IInv
  BY StartsInPlace
<1>2. IInv /\ [Next]_vars => IInv'
  BY InvariantStep
<1> QED
  BY <1>1, <1>2, PTL DEF Spec

-----------------------------------------------------------------------------
(* What the invariant says of the answers and the sockets.                 *)

\* Two requests are on their way at most, so two datagrams, and fewer after a loss.
LEMMA TwoOnTheirWay ==
  ASSUME IInv, NEW l \in S!Listeners
  PROVE  /\ Len(answers) <= 2 /\ Len(inbox[l]) <= 2
         /\ Len(receivedBar) \in Nat /\ Gone[l] \in Nat
         /\ Len(receivedBar) + Gone[l] <= 2
<1>1. X!TypeOK /\ X!AllAccounted(0, Gone) /\ Gone[l] \in Nat
  BY GoneIs DEF IInv, EverythingHasItsPlace
<1>2. l \in X!Listeners
  BY ExchangeActions
<1>3. /\ request \in Nat
      /\ Len(receivedBar) \in Nat /\ Len(answersBar) \in Nat /\ Len(resultsBar) \in Nat
      /\ Len(halvesBar[l]) \in Nat /\ Len(inbox[l]) \in Nat
  BY <1>1, <1>2 DEF X!TypeOK
<1>4. sentBar[l] \in Nat /\ sentBar[l] <= request
  <2>1. /\ sentBar["first"] \in Nat /\ sentBar["second"] \in Nat
        /\ sentBar["first"] \in {sentBar["second"], sentBar["second"] + 1}
        /\ sentBar["first"] <= request
    BY <1>1 DEF X!TypeOK, X!Listeners, X!LISTENER_FIRST, X!LISTENER_SECOND
  <2>2. l = "first" \/ l = "second"
    BY DEF S!Listeners, S!LISTENER_FIRST, S!LISTENER_SECOND
  <2>3. sentBar["second"] <= request
    BY <1>3, <2>1
  <2> QED
    BY <2>1, <2>2, <2>3
<1>5. Len(answersBar) = Len(answers)
  BY AnswersAre, FromIs DEF IInv, AnswersAreThere
<1>6. X!Done(0) = request - 2 \/ X!Done(0) = request - 1
  BY <1>3 DEF X!Done
<1>7. X!Done(0) \in Int /\ X!Done(0) >= request - 2
  BY <1>3, <1>6
<1>8. X!Done(0) + Len(receivedBar) + Len(answers) + Len(resultsBar) + Len(halvesBar[l])
        + Len(inbox[l]) + Gone[l] <= sentBar[l]
  BY <1>1, <1>2, <1>5 DEF X!AllAccounted, X!BeforeInbox, X!BeforeHalves, X!BeforeResults,
     X!BeforeAnswers
<1> DEFINE d == X!Done(0)
           s == sentBar[l]
           g == Gone[l]
           a == Len(receivedBar)
           b == Len(answers)
           c == Len(resultsBar)
           e == Len(halvesBar[l])
           f == Len(inbox[l])
<1>9. /\ d \in Int /\ s \in Int /\ g \in Nat /\ a \in Nat /\ b \in Nat /\ c \in Nat
      /\ e \in Nat /\ f \in Nat /\ d + a + b + c + e + f + g <= s
      /\ request \in Nat /\ d >= request - 2 /\ s <= request
  BY <1>1, <1>3, <1>4, <1>5, <1>7, <1>8
<1> HIDE DEF d, s, g, a, b, c, e, f
<1>10. b <= 2 /\ f <= 2 /\ a + g <= 2
  BY <1>9
<1> QED
  BY <1>9, <1>10 DEF a, b, f, g

\* For any number of losses and any interleaving of the eight threads, get_u returns an
\* answer that both halves of the last request, or of the one before it, went into.
THEOREM AnswersAreRecent == Spec => []AnswerIsRecent
<1>1. IInv => AnswerIsRecent
  <2> SUFFICES ASSUME IInv, AnswerInHand
               PROVE  /\ listener_batch # NULL
                      /\ \A l \in S!Listeners : listener_batch.from[l] \in {request - 1, request}
    BY DEF AnswerIsRecent
  <2>1. listener_batch \in Answers /\ listener_batch # NULL
    BY DEF IInv, AnswersAreThere
  <2>2. gotBar = listener_batch.from
    BY <2>1 DEF gotBar
  <2>3. gotBar # NULL
    <3>1. gotBar \in X!Pairs \cup {NULL}
      BY DEF IInv, EverythingHasItsPlace, X!TypeOK
    <3>2. listener_batch.from \in [S!Listeners -> Int]
      BY <2>1 DEF Answers, S!Requests
    <3> QED
      BY <2>2, <3>2, QuadrocoptAssumption
  <2>4. ~callingBar
    BY DEF AnswerInHand, callingBar
  <2>5. request \in Int /\ X!Done(0) = request - 1
    BY <2>4 DEF X!Done, IInv, EverythingHasItsPlace, X!TypeOK
  <2>6. gotBar \in X!PairOf[X!Done(0)]
    BY <2>3, <2>4 DEF IInv, EverythingHasItsPlace, X!Recent
  <2>7. gotBar \in [S!Listeners -> request - 1 .. request]
    BY <2>5, <2>6, ExchangeActions DEF X!PairOf
  <2> QED
    BY <2>1, <2>2, <2>5, <2>7
<1> QED
  BY <1>1, InvariantHolds, PTL

\* While nothing is lost no calculation mixes the halves of two requests, however the
\* listeners, the calculator and the client's sender interleave.
THEOREM CalculationsAreWhole == Spec => []PairsAreWhole
<1>1. IInv => PairsAreWhole
  BY DEF IInv, WholeWithoutLoss, PairsAreWhole, X!Whole, X!LISTENER_FIRST, X!LISTENER_SECOND,
     S!Listeners, S!LISTENER_FIRST, S!LISTENER_SECOND, LISTENER_FIRST
<1> QED
  BY <1>1, InvariantHolds, PTL

\* The client waits for its answers, so no socket ever holds more than two datagrams.
THEOREM SocketsHoldFew == Spec => []FewInFlight
<1>1. IInv => FewInFlight
  BY TwoOnTheirWay DEF FewInFlight, S!Listeners
<1> QED
  BY <1>1, InvariantHolds, PTL

\* Once the answers to two requests can no longer come, the calculator never copies an
\* answer again.
THEOREM TwoLossesStop == Spec => SecondLossStops
<1>1. IInv /\ [Next]_vars => [LostExchanges > 1 => UNCHANGED listener_batch]_vars
  <2> SUFFICES ASSUME IInv, Next, listener_batch' # listener_batch
               PROVE  ~(LostExchanges > 1)
    OBVIOUS
  <2>1. C!GetBatch /\ ClientCalculates
    <3>1. ClientCalculates
      BY DEF Next, LoseHalf, LoseAnswer, ServerListens, ServerCalculates, ServerSends, client,
         ClientSends, C!RunSender, C!WaitSenderTo, C!FetchBatches, C!Fetch,
         C!SignalSenderFrom, C!SendCalcs, C!Send, ClientListens, C!RunListener,
         C!ReceivePacket, C!WaitListenerTo, C!StoreBatch, C!SignalListenerFrom, ClientPrints,
         C!RunPrinter, ClientSignalled, C!TakeSignal, C!locals
    <3> QED
      BY <3>1 DEF ClientCalculates, C!RunCalculator, C!NextStep, C!WaitSenderFrom,
         C!AddFirstBatch, C!AddSecondBatch, C!SignalSenderTo, C!WaitListenerFrom,
         C!CleanBatchStock, C!SignalListenerTo, C!WaitPrinterFrom, C!SignalPrinterTo,
         C!StopWorker, C!JoinWorker, C!Return, C!locals
  <2>2. receivedBar # <<>> /\ receivedBar \in Seq(X!Pairs)
    <3>1. X!Return
      BY <2>1, CallReturns DEF IInv
    <3> QED
      BY <3>1 DEF X!Return, IInv, EverythingHasItsPlace, X!TypeOK
  <2>3. ASSUME NEW l \in S!Listeners
        PROVE  Gone[l] <= 1
    <3>1. Len(receivedBar) # 0
      BY <2>2
    <3> QED
      BY <3>1, TwoOnTheirWay
  <2>4. Max({lost[LISTENER_FIRST], lost[LISTENER_SECOND]})
          \in {lost[LISTENER_FIRST], lost[LISTENER_SECOND]}
    <3>1. lost[LISTENER_FIRST] \in Nat /\ lost[LISTENER_SECOND] \in Nat
      BY DEF IInv, EverythingHasItsPlace, S!Listeners, S!LISTENER_FIRST, S!LISTENER_SECOND,
         LISTENER_FIRST, LISTENER_SECOND
    <3>2. \A m, n \in Nat : \E x \in {m, n} : \A y \in {m, n} : x >= y
      OBVIOUS
    <3> QED
      BY <3>1, <3>2 DEF Max
  <2>5. LostExchanges <= 1
    BY <2>3, <2>4 DEF LostExchanges, Gone, S!Listeners, S!LISTENER_FIRST, S!LISTENER_SECOND,
       LISTENER_FIRST, LISTENER_SECOND
  <2>6. LostExchanges \in Int
    BY <2>4 DEF LostExchanges, IInv, EverythingHasItsPlace, S!Listeners, S!LISTENER_FIRST,
       S!LISTENER_SECOND, LISTENER_FIRST, LISTENER_SECOND
  <2> QED
    BY <2>5, <2>6
<1> QED
  BY <1>1, InvariantHolds, PTL DEF Spec, SecondLossStops

\* The safety part of ImplementsExchange: to the three sockets the eight threads, their
\* six stocks and twelve packs do no more than two sequential processes would.
THEOREM QuadrocoptImplementsExchange == Spec => X!Spec
<1>1. Init => X!Init
  <2> SUFFICES ASSUME Init
               PROVE  X!Init
    OBVIOUS
  <2> QED
    BY StartsInPlace
<1>2. IInv /\ [Next]_vars => [X!Next]_(X!vars)
  <2> SUFFICES ASSUME IInv, [Next]_vars
               PROVE  X!Next \/ UNCHANGED X!vars
    OBVIOUS
  <2>1. ServerHandShakes /\ ClientHandShakes /\ AnswersAreThere
    BY DEF IInv
  <2>2. CASE ServerStep
    BY <2>1, <2>2, ServerStepRefines DEF X!Next
  <2>3. CASE ClientStep
    BY <2>1, <2>3, ClientStepRefines DEF X!Next
  <2>4. ASSUME NEW l \in S!Listeners, LoseHalf(l)
        PROVE  X!Next
    BY <2>4, HalfLossRefines, ExchangeActions DEF X!Next, X!Lose
  <2>5. CASE LoseAnswer
    BY <2>1, <2>5, AnswerLossRefines DEF X!Next, X!Lose
  <2>6. CASE UNCHANGED vars
    <3>1. UNCHANGED <<inbox, answers, server, client>>
      BY <2>6 DEF vars, sockets
    <3> QED
      BY <3>1, ClientSame, ClientStutters
  <2> QED
    BY <2>2, <2>3, <2>4, <2>5, <2>6 DEF Next, ServerStep, ClientStep
<1> QED
  BY <1>1, <1>2, InvariantHolds, PTL DEF Spec, X!Spec

===============================================================================

-------------------------------- MODULE Client --------------------------------
(***************************************************************************)
(* The client after its start-up barrier: the calculator (the main         *)
(* thread), the sender, the listener and the printer, over SenderStock,    *)
(* BatchStock (listener_stock) and six ThreadConditionPacks, and the       *)
(* shutdown by SIGUSR1 and pthread_join.                                   *)
(*                                                                         *)
(* wait_with_pack and signal_with_pack are one atomic step each            *)
(* (ThreadConditionPack_proofs).  A batch is the number of its request:    *)
(* fill_sender_stock makes request 1, the n-th call of get_u request n+1.  *)
(* An answer is the number of the request it was computed from.            *)
(*                                                                         *)
(* Definitions marked "Mistake:" are not the code's: PROJECT.json's        *)
(* mutants put them in the place of the definition that follows.           *)
(***************************************************************************)
EXTENDS Integers, Sequences

CONSTANTS NULL,         \* an empty listener_stock, an unset local variable
          Steps,        \* iterations of do_client_calculations
          CallsPerStep, \* calls of get_u in get_next_step
          MaxLost,      \* bound: answers lost on their way to the client
          SendMayFail   \* sendto may return an error

FIRST == "first"
SECOND == "second"
Ports == {FIRST, SECOND}
Calculator == "calculator"
Sender == "sender"
Listener == "listener"
Printer == "printer"
Workers == {Listener, Sender, Printer}
Threads == Workers \cup {Calculator}

ASSUME ClientAssumption == /\ Steps \in Nat
                           /\ CallsPerStep \in Nat \ {0}
                           /\ MaxLost \in Nat
                           /\ NULL \notin Int
                           /\ SendMayFail \in BOOLEAN

VARIABLES
  to_server,      \* per port: datagrams handed to sendto, in order
  answers,        \* the receive buffer of sd_in
  answered,       \* datagrams the server has sent
  lost,           \* how many of them never arrived
  raised,         \* the packs whose cond_to_verify is 1
  sender_stock,   \* per port: the batch in the SenderStock
  listener_stock, \* listener_stock->batch
  at,             \* each thread's next statement
  step,           \* steps of the simulation done: curr_time
  stage,          \* the call of get_u in get_next_step
  request,        \* requests written to the sender stock
  listener_batch, \* the calculator's copy of the answer
  fetched,        \* per port: the sender's copy of the batch
  received_pack,  \* local variable of the listener
  workers,        \* the linked list in WorkersCollection
  curr_worker,    \* position of wait_workers_to_finish in it
  signalled,      \* workers with a SIGUSR1 on its way
  running         \* the process has not ended

network == <<to_server, answers, answered, lost>>
stocks  == <<sender_stock, listener_stock>>
locals  == <<step, stage, request, listener_batch, fetched, received_pack>>
closing == <<workers, curr_worker, signalled>>
vars    == <<network, raised, stocks, at, locals, closing, running>>

-----------------------------------------------------------------------------
Packs == {"sender_to_signal", "sender_from_signal", "listener_to_signal",
          "listener_from_signal", "printer_to_signal", "printer_from_signal"}

\* Mistake: the pack that gives the stock to the calculator starts raised too.
SenderFromRaised == {"sender_to_signal", "sender_from_signal",
                     "listener_to_signal", "printer_from_signal"}
\* Mistake: the listener is never told that its stock is empty.
ListenerToLowered == {"sender_to_signal", "printer_from_signal"}
\* Mistake: the empty listener_stock is declared full.
ListenerFromRaised == {"sender_to_signal", "listener_from_signal",
                       "listener_to_signal", "printer_from_signal"}
\* initialize_condition_packs
InitiallyRaised == {"sender_to_signal", "listener_to_signal", "printer_from_signal"}

Wait(pack) == pack \in raised /\ raised' = raised \ {pack}

Signal(pack) == raised' = raised \cup {pack}

Step(t, here, there) == /\ running
                        /\ at[t] = here
                        /\ at' = [at EXCEPT ![t] = there]
                        /\ UNCHANGED running

\* add_to_simple_linked_list: list->tail->next = node, then list->tail->next =
\* NULL, and list->tail stays.
AddToList(list, worker) == IF list = <<>> THEN <<worker>> ELSE list

WorkersList == AddToList(AddToList(AddToList(<<>>, Listener), Sender), Printer)

\* Where each thread is when all four have passed the barrier.
FirstStatement == [t \in Threads |-> CASE t = Calculator -> "loop"
                                       [] t = Sender -> "wait_sender_to"
                                       [] t = Listener -> "receive_packet"
                                       [] t = Printer -> "print"]

\* initialize_globals and spawn_workers, up to the barrier.
Init == /\ to_server = [p \in Ports |-> <<>>]
        /\ answers = <<>>
        /\ answered = 0
        /\ lost = 0
        /\ raised = InitiallyRaised
        /\ sender_stock = [p \in Ports |-> 1]
        /\ listener_stock = NULL
        /\ at = FirstStatement
        /\ step = 0
        /\ stage = 1
        /\ request = 1
        /\ listener_batch = NULL
        /\ fetched = [p \in Ports |-> NULL]
        /\ received_pack = NULL
        /\ workers = WorkersList
        /\ curr_worker = 1
        /\ signalled = {}
        /\ running = TRUE

-----------------------------------------------------------------------------
(* The server, as ResultService promises: the m-th answer is for the m-th  *)
(* request or the one after it, and both its halves have been sent.        *)

Requested(n) == \A p \in Ports : n <= Len(to_server[p])

ServerAnswers(arrives) ==
  /\ answered' = answered + 1
  /\ \E n \in {answered + 1, answered + 2} :
       /\ Requested(n)
       /\ answers' = IF arrives THEN Append(answers, n) ELSE answers
  /\ IF arrives THEN UNCHANGED lost ELSE lost < MaxLost /\ lost' = lost + 1
  /\ UNCHANGED <<to_server, raised, stocks, at, locals, closing, running>>

-----------------------------------------------------------------------------
(* do_client_calculations, get_next_step and get_u.                        *)

NextStep ==
  /\ Step(Calculator, "loop", IF step < Steps THEN "wait_sender_from" ELSE "stop_worker")
  /\ UNCHANGED <<network, raised, stocks, locals, closing>>

WaitSenderFrom ==
  /\ Step(Calculator, "wait_sender_from", "add_first_batch")
  /\ Wait("sender_from_signal")
  /\ UNCHANGED <<network, stocks, locals, closing>>

AddFirstBatch ==
  /\ Step(Calculator, "add_first_batch", "add_second_batch")
  /\ request' = request + 1
  /\ sender_stock' = [sender_stock EXCEPT ![FIRST] = request + 1]
  /\ UNCHANGED <<network, raised, listener_stock, step, stage, listener_batch,
                 fetched, received_pack, closing>>

AddSecondBatch ==
  /\ Step(Calculator, "add_second_batch", "signal_sender_to")
  /\ sender_stock' = [sender_stock EXCEPT ![SECOND] = request]
  /\ UNCHANGED <<network, raised, listener_stock, locals, closing>>

\* Mistake: get_u does not wait for the listener.
ReadAtOnce == "get_batch"
AfterSignal == "wait_listener_from"

SignalSenderTo ==
  /\ Step(Calculator, "signal_sender_to", AfterSignal)
  /\ Signal("sender_to_signal")
  /\ UNCHANGED <<network, stocks, locals, closing>>

WaitListenerFrom ==
  /\ Step(Calculator, "wait_listener_from", "get_batch")
  /\ Wait("listener_from_signal")
  /\ UNCHANGED <<network, stocks, locals, closing>>

\* read_listener_batch: get_batch_from_stock, clean_batch_stock.
GetBatch ==
  /\ Step(Calculator, "get_batch", "clean_batch_stock")
  /\ listener_batch' = listener_stock
  /\ UNCHANGED <<network, raised, stocks, step, stage, request, fetched,
                 received_pack, closing>>

CleanBatchStock ==
  /\ Step(Calculator, "clean_batch_stock", "signal_listener_to")
  /\ listener_stock' = NULL
  /\ UNCHANGED <<network, raised, sender_stock, locals, closing>>

\* get_next_step calls get_u again; after its last call curr_time advances.
MoreCalls == stage < CallsPerStep

SignalListenerTo ==
  /\ Step(Calculator, "signal_listener_to", IF MoreCalls
                                            THEN "wait_sender_from"
                                            ELSE "wait_printer_from")
  /\ Signal("listener_to_signal")
  /\ IF MoreCalls THEN stage' = stage + 1 /\ UNCHANGED step
                  ELSE stage' = 1 /\ step' = step + 1
  /\ UNCHANGED <<network, stocks, request, listener_batch, fetched,
                 received_pack, closing>>

\* print_calc_data
WaitPrinterFrom ==
  /\ Step(Calculator, "wait_printer_from", "signal_printer_to")
  /\ Wait("printer_from_signal")
  /\ UNCHANGED <<network, stocks, locals, closing>>

SignalPrinterTo ==
  /\ Step(Calculator, "signal_printer_to", "loop")
  /\ Signal("printer_to_signal")
  /\ UNCHANGED <<network, stocks, locals, closing>>

-----------------------------------------------------------------------------
(* wait_workers_to_finish, sig_handler and the end of main.                *)

\* Mistake: the worker is joined without a signal.
NotKilled == {}
Killed == {workers[curr_worker]}

StopWorker ==
  /\ curr_worker <= Len(workers)
  /\ Step(Calculator, "stop_worker", "pthread_join")
  /\ signalled' = signalled \cup Killed
  /\ UNCHANGED <<network, raised, stocks, locals, workers, curr_worker>>

JoinWorker ==
  /\ Step(Calculator, "pthread_join", "stop_worker")
  /\ at[workers[curr_worker]] = "exited"
  /\ curr_worker' = curr_worker + 1
  /\ UNCHANGED <<network, raised, stocks, locals, workers, signalled>>

Return ==
  /\ running
  /\ curr_worker > Len(workers)
  /\ at[Calculator] = "stop_worker"
  /\ at' = [at EXCEPT ![Calculator] = "returned"]
  /\ running' = FALSE
  /\ UNCHANGED <<network, raised, stocks, locals, closing>>

RunCalculator ==
  \/ NextStep \/ WaitSenderFrom \/ AddFirstBatch \/ AddSecondBatch
  \/ SignalSenderTo \/ WaitListenerFrom \/ GetBatch \/ CleanBatchStock
  \/ SignalListenerTo \/ WaitPrinterFrom \/ SignalPrinterTo
  \/ StopWorker \/ JoinWorker \/ Return

\* sig_handler runs between any two statements of the worker and ends it.
TakeSignal(w) ==
  /\ w \in signalled
  /\ at[w] # "exited"
  /\ Step(w, at[w], "exited")
  /\ signalled' = signalled \ {w}
  /\ UNCHANGED <<network, raised, stocks, locals, workers, curr_worker>>

-----------------------------------------------------------------------------
(* run_sender.                                                             *)

WaitSenderTo ==
  /\ Step(Sender, "wait_sender_to", "fetch_first")
  /\ Wait("sender_to_signal")
  /\ UNCHANGED <<network, stocks, locals, closing>>

\* fetch_batches
Fetch(p, here, there) ==
  /\ Step(Sender, here, there)
  /\ fetched' = [fetched EXCEPT ![p] = sender_stock[p]]
  /\ UNCHANGED <<network, raised, stocks, step, stage, request, listener_batch,
                 received_pack, closing>>

\* Mistake: the second half is not copied.
OneFetch == "signal_sender_from"
AfterFirstFetch == "fetch_second"

FetchBatches == \/ Fetch(FIRST, "fetch_first", AfterFirstFetch)
                \/ Fetch(SECOND, "fetch_second", "signal_sender_from")

SignalSenderFrom ==
  /\ Step(Sender, "signal_sender_from", "send_first")
  /\ Signal("sender_from_signal")
  /\ UNCHANGED <<network, stocks, locals, closing>>

\* send_calcs
Send(p, here, there) ==
  /\ Step(Sender, here, there)
  /\ to_server' = [to_server EXCEPT ![p] = Append(@, fetched[p])]
  /\ UNCHANGED <<answers, answered, lost, raised, stocks, locals, closing>>

SendCalcs == \/ Send(FIRST, "send_first", "send_second")
             \/ Send(SECOND, "send_second", "wait_sender_to")

\* sendto fails: exit_error ends the process, perhaps between the two halves.
SendFails ==
  /\ SendMayFail
  /\ running
  /\ at[Sender] \in {"send_first", "send_second"}
  /\ running' = FALSE
  /\ UNCHANGED <<network, raised, stocks, at, locals, closing>>

RunSender == WaitSenderTo \/ FetchBatches \/ SignalSenderFrom \/ SendCalcs

-----------------------------------------------------------------------------
(* run_listener and run_printer.                                           *)

ReceivePacket ==
  /\ Step(Listener, "receive_packet", "wait_listener_to")
  /\ answers # <<>>
  /\ received_pack' = Head(answers)
  /\ answers' = Tail(answers)
  /\ UNCHANGED <<to_server, answered, lost, raised, stocks, step, stage, request,
                 listener_batch, fetched, closing>>

WaitListenerTo ==
  /\ Step(Listener, "wait_listener_to", "store_batch")
  /\ Wait("listener_to_signal")
  /\ UNCHANGED <<network, stocks, locals, closing>>

StoreBatch ==
  /\ Step(Listener, "store_batch", "signal_listener_from")
  /\ listener_stock' = received_pack
  /\ UNCHANGED <<network, raised, sender_stock, locals, closing>>

SignalListenerFrom ==
  /\ Step(Listener, "signal_listener_from", "receive_packet")
  /\ Signal("listener_from_signal")
  /\ UNCHANGED <<network, stocks, locals, closing>>

RunListener == ReceivePacket \/ WaitListenerTo \/ StoreBatch \/ SignalListenerFrom

\* print: fetch_msg returns NULL, so the loop ends and the thread with it.
RunPrinter ==
  /\ Step(Printer, "print", "exited")
  /\ UNCHANGED <<network, raised, stocks, locals, closing>>

-----------------------------------------------------------------------------
Process == \/ RunCalculator \/ RunSender \/ SendFails \/ RunListener \/ RunPrinter
           \/ \E w \in Workers : TakeSignal(w)

Next == Process \/ \E arrives \in BOOLEAN : ServerAnswers(arrives)

Spec == Init /\ [][Next]_vars

\* The kernel schedules every thread and delivers signals, and the server keeps
\* answering (Server's EveryRequestIsAnswered).
Fairness == /\ WF_vars(RunCalculator)
            /\ WF_vars(RunSender)
            /\ WF_vars(RunListener)
            /\ WF_vars(RunPrinter)
            /\ \A w \in Workers : WF_vars(TakeSignal(w))
            /\ WF_vars(\E arrives \in BOOLEAN : ServerAnswers(arrives))

FairSpec == Spec /\ Fairness

-----------------------------------------------------------------------------
Batches == Nat \cup {NULL}

GetUAt == {"wait_sender_from", "add_first_batch", "add_second_batch",
           "signal_sender_to", "wait_listener_from", "get_batch",
           "clean_batch_stock", "signal_listener_to"}
CalculatorAt == GetUAt \cup {"loop", "wait_printer_from", "signal_printer_to",
                             "stop_worker", "pthread_join", "returned"}
SenderAt == {"wait_sender_to", "fetch_first", "fetch_second",
             "signal_sender_from", "send_first", "send_second", "exited"}
ListenerAt == {"receive_packet", "wait_listener_to", "store_batch",
               "signal_listener_from", "exited"}
PrinterAt == {"print", "exited"}

\* All but the answers, which hold more in Quadrocopt, and the sockets.
ControlOK == /\ raised \in SUBSET Packs
             /\ sender_stock \in [Ports -> Nat]
             /\ at \in [Threads -> CalculatorAt \cup SenderAt \cup ListenerAt \cup PrinterAt]
             /\ at[Calculator] \in CalculatorAt
             /\ at[Sender] \in SenderAt
             /\ at[Listener] \in ListenerAt
             /\ at[Printer] \in PrinterAt
             /\ step \in Nat
             /\ stage \in 1 .. CallsPerStep
             /\ request \in Nat \ {0}
             /\ fetched \in [Ports -> Batches]
             /\ workers \in Seq(Workers)
             /\ curr_worker \in Nat \ {0}
             /\ signalled \in SUBSET Workers
             /\ running \in BOOLEAN

TypeOK == /\ ControlOK
          /\ to_server \in [Ports -> Seq(Batches)]
          /\ answers \in Seq(Nat)
          /\ answered \in Nat
          /\ lost \in 0 .. MaxLost
          /\ listener_stock \in Batches
          /\ listener_batch \in Batches
          /\ received_pack \in Batches

\* Request 1 is made in advance, one more by each call of get_u.
CallsCounted ==
  /\ step <= Steps
  /\ at[Calculator] \in GetUAt => step < Steps
  /\ at[Calculator] \notin GetUAt => stage = 1
  /\ at[Calculator] \in {"stop_worker", "pthread_join", "returned"} => step = Steps
  /\ request = step * CallsPerStep + stage
               + (IF at[Calculator] \in GetUAt \ {"wait_sender_from", "add_first_batch"}
                  THEN 1 ELSE 0)

-----------------------------------------------------------------------------
(* The SenderStock passes between the calculator and the sender.           *)

ToFetch == "sender_to_signal" \in raised
Fetching == at[Sender] \in {"fetch_first", "fetch_second", "signal_sender_from"}
Fetched == "sender_from_signal" \in raised
Writing == at[Calculator] \in {"add_first_batch", "add_second_batch", "signal_sender_to"}

\* The calculator never writes the SenderStock while the sender copies it, nor
\* before the sender has copied the previous request.
SenderStockHasOneOwner ==
  \/ at[Sender] = "exited"
  \/ /\ ToFetch \/ Fetching \/ Fetched \/ Writing
     /\ ToFetch => ~(Fetching \/ Fetched \/ Writing)
     /\ Fetching => ~(Fetched \/ Writing)
     /\ Fetched => ~Writing

\* Requests the sender has copied out of the stock.
Copied == IF \/ ToFetch \/ Fetching
             \/ at[Calculator] \in {"add_second_batch", "signal_sender_to"}
          THEN request - 1 ELSE request

\* What the stock and the sender's copy hold meanwhile.
StockHoldsRequest ==
  \/ at[Sender] = "exited"
  \/ /\ ToFetch \/ Fetching \/ at[Calculator] = "signal_sender_to"
          => \A p \in Ports : sender_stock[p] = request
     /\ at[Calculator] = "add_second_batch" => sender_stock[FIRST] = request
     /\ at[Sender] \in {"fetch_second", "signal_sender_from"} => fetched[FIRST] = request
     /\ at[Sender] = "signal_sender_from" => fetched[SECOND] = request
     /\ at[Sender] = "send_first" => fetched[FIRST] = Copied
     /\ at[Sender] \in {"send_first", "send_second"} => fetched[SECOND] = Copied

\* And what the sockets then hold.
SenderHoldsRequest ==
  /\ StockHoldsRequest
  /\ \A p \in Ports : Len(to_server[p]) <= request
  /\ \/ at[Sender] = "exited"
     \/ /\ Len(to_server[FIRST]) = IF at[Sender] = "send_first" THEN Copied - 1 ELSE Copied
        /\ Len(to_server[SECOND]) = IF at[Sender] \in {"send_first", "send_second"}
                                    THEN Copied - 1 ELSE Copied

\* Whatever the interleaving of get_u and run_sender, each port is sent request 1,
\* 2, 3, ... once each, and never half of one request with half of another.
RequestsAreWhole == \A p \in Ports : \A m \in DOMAIN to_server[p] : to_server[p][m] = m

-----------------------------------------------------------------------------
(* The listener_stock passes between the listener and the calculator.      *)

ToStore == "listener_to_signal" \in raised
Storing == at[Listener] \in {"store_batch", "signal_listener_from"}
Stored == "listener_from_signal" \in raised
Reading == at[Calculator] \in {"get_batch", "clean_batch_stock", "signal_listener_to"}

ListenerStockHasOneOwner ==
  \/ at[Listener] = "exited"
  \/ /\ ToStore \/ Storing \/ Stored \/ Reading
     /\ ToStore => ~(Storing \/ Stored \/ Reading)
     /\ Storing => ~(Stored \/ Reading)
     /\ Stored => ~Reading
     /\ listener_stock # NULL <=> \/ Stored
                                  \/ at[Listener] = "signal_listener_from"
                                  \/ at[Calculator] \in {"get_batch", "clean_batch_stock"}

\* Answers the calculator is done with, and answers the listener has received.
Read == IF at[Calculator] \in {"add_second_batch", "signal_sender_to",
                               "wait_listener_from", "get_batch",
                               "clean_batch_stock", "signal_listener_to"}
        THEN request - 2 ELSE request - 1
Received == Read + (IF Storing \/ Stored \/ Reading THEN 1 ELSE 0)
                 + (IF at[Listener] = "wait_listener_to" THEN 1 ELSE 0)

\* The n-th answer that arrives is for request n or a later one that was sent.
AnswersAreRecent ==
  /\ \A p \in Ports : answered <= Len(to_server[p])
  /\ \/ at[Listener] = "exited"
     \/ /\ Received + Len(answers) <= answered
        /\ \A i \in DOMAIN answers : answers[i] \in (Received + i) .. request
        /\ at[Listener] \in {"wait_listener_to", "store_batch"}
             => received_pack \in Received .. request
        /\ listener_stock # NULL => listener_stock \in (Read + 1) .. request
        /\ at[Calculator] \in {"clean_batch_stock", "signal_listener_to"}
             => listener_batch \in (Read + 1) .. request

\* SIGUSR1 reaches a worker only after the last call of get_u.
StoppedAtTheEnd ==
  (\E w \in {Sender, Listener} : w \in signalled \/ at[w] = "exited")
    => at[Calculator] \in {"stop_worker", "pthread_join", "returned"}

\* workers holds the listener only (AddToList), so no other thread is ever signalled.
OnlyListenerStops == /\ workers = <<Listener>>
                     /\ signalled \subseteq {Listener}
                     /\ at[Sender] # "exited"

\* An answer is read before the next one is stored over it (add_to_batch_stock
\* would leak it) and the stock is never read empty.
AnswersAreNotLost ==
  /\ at[Listener] = "store_batch" => listener_stock = NULL
  /\ at[Calculator] = "get_batch" => listener_stock # NULL

\* Requests are sent one ahead: a call of get_u returns the answer to the request
\* before its own or, when the server skipped a result or an answer was lost, to
\* its own, and never an older one.
CallGetsRecentAnswer ==
  at[Calculator] \in {"clean_batch_stock", "signal_listener_to"}
    => listener_batch \in {request - 1, request}

\* The hand-shakes bound what waits in the client's receive buffer: two answers.
FewAnswersWaiting == Len(answers) <= 2

\* The inductive invariant of Client_proofs: who owns the two stocks, and how the
\* numbers of the requests and of the answers they hold relate.
IInv == /\ TypeOK /\ CallsCounted /\ StoppedAtTheEnd /\ OnlyListenerStops
        /\ SenderStockHasOneOwner /\ SenderHoldsRequest
        /\ ListenerStockHasOneOwner /\ AnswersAreRecent

\* Both stocks are released before they are taken again: every call of get_u
\* returns, and so does get_next_step, as long as no more than one answer is lost.
NextStepReturns ==
  (at[Calculator] \in GetUAt /\ running)
     ~> (at[Calculator] \notin GetUAt \/ ~running \/ lost > 1)

\* wait_workers_to_finish never waits for a worker that nothing stops, whatever the
\* worker is waiting for when SIGUSR1 arrives.
ShutdownEnds == (at[Calculator] = "stop_worker") ~> ~running

-----------------------------------------------------------------------------
(* What the repository says of the client and the code does not do.        *)

\* "A simple simulation of a quadrocopt flight" (Readme.md:1) runs while curr_time
\* <= time_end (main.c:330).
SimulationEnds == <>(step = Steps /\ at[Calculator] \in {"stop_worker", "pthread_join", "returned"})
=============================================================================

-------------------------------- MODULE Server --------------------------------
(***************************************************************************)
(* The server after its start-up barrier: two listener threads, the        *)
(* calculator (the main thread) and the sender, over the two slots of the  *)
(* BatchStock, the CalculationsStock and six ThreadConditionPacks.         *)
(*                                                                         *)
(* The eight wait_* and signal_* functions are one atomic step each:       *)
(* ThreadConditionPack_proofs shows that they behave so.  A batch is       *)
(* abstracted to the number of the client's request it belongs to, a       *)
(* result to the calculator's round and the two batches it came from.      *)
(*                                                                         *)
(* Definitions marked "Mistake:" are not the code's: PROJECT.json's        *)
(* mutants put them in the place of the definition that follows.           *)
(***************************************************************************)
EXTENDS Integers, Sequences

CONSTANTS NULL,         \* an empty slot of a stock, an unset local variable
          NoThread,     \* batch_stock_access_mu is free
          MaxRequests,  \* bound: requests the client sends
          MaxLost,      \* bound: datagrams lost on their way to the server
          SendMayFail   \* sendto may return an error

LISTENER_FIRST  == "first"
LISTENER_SECOND == "second"
Listeners == {LISTENER_FIRST, LISTENER_SECOND}
Calculator == "calculator"
Sender == "sender"
Requests == 1 .. MaxRequests
Threads == Listeners \cup {Calculator, Sender}

\* What a slot of the BatchStock and what the CalculationsStock may hold.
Batches == Requests \cup {NULL}
Results == [round : Nat \ {0}, from : [Listeners -> Batches]]

ASSUME ServerAssumption == /\ MaxRequests \in Nat
                           /\ MaxLost \in Nat
                           /\ NULL \notin Int \cup Results
                           /\ NoThread \notin Listeners
                           /\ SendMayFail \in BOOLEAN

VARIABLES
  inbox,                 \* receive buffers of sd_in_first and sd_in_second
  requested,             \* requests the client has sent to each port
  lost,                  \* how many of them never arrived
  raised,                \* the packs whose cond_to_verify is 1
  batch_stock_access_mu, \* the thread that holds it, or NoThread
  stock,                 \* bs->first_batch and bs->second_batch
  calculations,          \* cs->calculations
  at,                    \* each thread's next statement
  turn,                  \* the listener the calculator's statement is about
  rounds,                \* the calculator's round
  received_pack,         \* local variable of each listener
  batch,                 \* first_batch and second_batch of the calculator
  calcs,                 \* local variable of the sender
  outbox,                \* datagrams handed to sendto, in order
  running                \* no thread has called exit

network == <<inbox, requested, lost, outbox>>
stocks  == <<batch_stock_access_mu, stock, calculations>>
locals  == <<turn, rounds, received_pack, batch, calcs>>
vars    == <<network, raised, stocks, at, locals, running>>

-----------------------------------------------------------------------------
(* ThreadConditionPacks.                                                   *)

listener_signal(l) == IF l = LISTENER_FIRST THEN "listener_one_signal"
                                            ELSE "listener_two_signal"
calc_to_listener_signal(l) == IF l = LISTENER_FIRST
                              THEN "calc_signal_to_listener_one"
                              ELSE "calc_signal_to_listener_two"

\* Mistake: the sender is not free at first.
WithoutSender == {calc_to_listener_signal(l) : l \in Listeners}
\* initialize_condition_packs
InitiallyRaised == {calc_to_listener_signal(l) : l \in Listeners} \cup {"sender_signal"}

Wait(pack) == pack \in raised /\ raised' = raised \ {pack}

Signal(pack) == raised' = raised \cup {pack}

\* Thread t runs statement "here" and goes on to "there".
Step(t, here, there) == /\ running
                        /\ at[t] = here
                        /\ at' = [at EXCEPT ![t] = there]
                        /\ UNCHANGED running

-----------------------------------------------------------------------------
(* initialize_globals; then all four threads have passed init_barrier.     *)

FirstRound == 1

FirstStatement == [t \in Threads |-> CASE t \in Listeners -> "receive_packet"
                                       [] t = Calculator -> "wait_listener"
                                       [] t = Sender -> "wait_for_calculator"]

Init == /\ inbox = [l \in Listeners |-> <<>>]
        /\ requested = [l \in Listeners |-> 0]
        /\ lost = [l \in Listeners |-> 0]
        /\ outbox = <<>>
        /\ raised = InitiallyRaised
        /\ batch_stock_access_mu = NoThread
        /\ stock = [l \in Listeners |-> NULL]
        /\ calculations = NULL
        /\ at = FirstStatement
        /\ turn = LISTENER_FIRST
        /\ rounds = FirstRound
        /\ received_pack = [l \in Listeners |-> NULL]
        /\ batch = [l \in Listeners |-> NULL]
        /\ calcs = NULL
        /\ running = TRUE

-----------------------------------------------------------------------------
(* The client and UDP over loopback: one datagram of a request to each     *)
(* port, the first port first.  A datagram may be dropped; loopback does   *)
(* not duplicate or reorder.                                               *)

MayRequest(l) == /\ requested[l] < MaxRequests
                 /\ requested[LISTENER_FIRST] = IF l = LISTENER_FIRST
                                                THEN requested[LISTENER_SECOND]
                                                ELSE requested[LISTENER_SECOND] + 1

Arrive(l) == /\ MayRequest(l)
             /\ requested' = [requested EXCEPT ![l] = @ + 1]
             /\ inbox' = [inbox EXCEPT ![l] = Append(@, requested[l] + 1)]
             /\ UNCHANGED <<lost, outbox, raised, stocks, at, locals, running>>

Lose(l) == /\ MayRequest(l)
           /\ lost[LISTENER_FIRST] + lost[LISTENER_SECOND] < MaxLost
           /\ requested' = [requested EXCEPT ![l] = @ + 1]
           /\ lost' = [lost EXCEPT ![l] = @ + 1]
           /\ UNCHANGED <<inbox, outbox, raised, stocks, at, locals, running>>

-----------------------------------------------------------------------------
(* run_listener.                                                           *)

\* Mistake: the listener does not wait for the calculator.
StoreAtOnce == "lock"
AfterReceive == "wait_until_calc_reads"

\* recvfrom blocks until a datagram is there; bytes_to_pack copies it.
ReceivePacket(l) ==
  /\ Step(l, "receive_packet", AfterReceive)
  /\ inbox[l] # <<>>
  /\ received_pack' = [received_pack EXCEPT ![l] = Head(inbox[l])]
  /\ inbox' = [inbox EXCEPT ![l] = Tail(@)]
  /\ UNCHANGED <<requested, lost, outbox, raised, stocks, turn, rounds, batch, calcs>>

\* Mistake: the listener reports a batch it has not stored.
ReadyUnstored == "signal_listener_ready"
AfterCalcReads == "lock"

WaitUntilCalcReads(l) ==
  /\ Step(l, "wait_until_calc_reads", AfterCalcReads)
  /\ Wait(calc_to_listener_signal(l))
  /\ UNCHANGED <<network, stocks, locals>>

\* store_batch: lock, add_to_batch, unlock.
LockStock(l) ==
  /\ Step(l, "lock", "store_batch")
  /\ batch_stock_access_mu = NoThread
  /\ batch_stock_access_mu' = l
  /\ UNCHANGED <<network, raised, stock, calculations, locals>>

StoreBatch(l) ==
  /\ Step(l, "store_batch", "unlock")
  /\ stock' = [stock EXCEPT ![l] = received_pack[l]]
  /\ UNCHANGED <<network, raised, batch_stock_access_mu, calculations, locals>>

UnlockStock(l) ==
  /\ Step(l, "unlock", "signal_listener_ready")
  /\ batch_stock_access_mu' = NoThread
  /\ UNCHANGED <<network, raised, stock, calculations, locals>>

SignalListenerReady(l) ==
  /\ Step(l, "signal_listener_ready", "receive_packet")
  /\ Signal(listener_signal(l))
  /\ UNCHANGED <<network, stocks, locals>>

RunListener(l) ==
  \/ ReceivePacket(l) \/ WaitUntilCalcReads(l) \/ LockStock(l)
  \/ StoreBatch(l) \/ UnlockStock(l) \/ SignalListenerReady(l)

-----------------------------------------------------------------------------
(* main's loop.  A statement done for the first and then for the second    *)
(* listener (wait_listeners_write, read_batches, signal_read) is two steps.*)

EachListener(here, next) ==
  IF turn = LISTENER_FIRST
  THEN Step(Calculator, here, here) /\ turn' = LISTENER_SECOND
  ELSE Step(Calculator, here, next) /\ turn' = LISTENER_FIRST

WaitListener ==
  /\ EachListener("wait_listener", "read_batches")
  /\ Wait(listener_signal(turn))
  /\ UNCHANGED <<network, stocks, rounds, received_pack, batch, calcs>>

\* get_first_stock_from_batch, get_second_stock_from_batch
ReadBatches ==
  /\ EachListener("read_batches", "clean_batch_stock")
  /\ batch' = [batch EXCEPT ![turn] = stock[turn]]
  /\ UNCHANGED <<network, raised, stocks, rounds, received_pack, calcs>>

CleanBatchStock ==
  /\ EachListener("clean_batch_stock", "signal_listener")
  /\ stock' = [stock EXCEPT ![turn] = NULL]
  /\ UNCHANGED <<network, raised, batch_stock_access_mu, calculations, rounds,
                 received_pack, batch, calcs>>

SignalListener ==
  /\ EachListener("signal_listener", "calculate_res")
  /\ Signal(calc_to_listener_signal(turn))
  /\ UNCHANGED <<network, stocks, rounds, received_pack, batch, calcs>>

\* Mistake: the calculator does not wait for the sender.
SignalAtOnce == "signal_calculated"
AfterCalculate == "wait_for_sender"

\* add_to_calculations_stock replaces whatever the stock holds.
CalculateRes ==
  /\ Step(Calculator, "calculate_res", AfterCalculate)
  /\ calculations' = [round |-> rounds, from |-> batch]
  /\ UNCHANGED <<network, raised, batch_stock_access_mu, stock, locals>>

WaitForSender ==
  /\ Step(Calculator, "wait_for_sender", "signal_calculated")
  /\ Wait("sender_signal")
  /\ UNCHANGED <<network, stocks, locals>>

SignalCalculated ==
  /\ Step(Calculator, "signal_calculated", "wait_listener")
  /\ Signal("calc_to_sender_signal")
  /\ rounds' = rounds + 1
  /\ UNCHANGED <<network, stocks, turn, received_pack, batch, calcs>>

RunCalculator ==
  \/ WaitListener \/ ReadBatches \/ CleanBatchStock \/ SignalListener
  \/ CalculateRes \/ WaitForSender \/ SignalCalculated

-----------------------------------------------------------------------------
(* run_sender.                                                             *)

WaitForCalculator ==
  /\ Step(Sender, "wait_for_calculator", "send_calcs")
  /\ Wait("calc_to_sender_signal")
  /\ UNCHANGED <<network, stocks, locals>>

\* send_calcs reads the pointer cs->calculations, without a copy or a lock; the
\* array it points to is never changed or freed.
ReadCalculations ==
  /\ Step(Sender, "send_calcs", "sendto")
  /\ calcs' = calculations
  /\ UNCHANGED <<network, raised, stocks, turn, rounds, received_pack, batch>>

SendCalcs ==
  /\ Step(Sender, "sendto", "signal_sender_ready")
  /\ outbox' = Append(outbox, calcs)
  /\ UNCHANGED <<inbox, requested, lost, raised, stocks, locals>>

\* sendto fails: exit_error ends the process.
SendFails ==
  /\ SendMayFail
  /\ running
  /\ at[Sender] = "sendto"
  /\ running' = FALSE
  /\ UNCHANGED <<network, raised, stocks, at, locals>>

SignalSenderReady ==
  /\ Step(Sender, "signal_sender_ready", "wait_for_calculator")
  /\ Signal("sender_signal")
  /\ UNCHANGED <<network, stocks, locals>>

RunSender == \/ WaitForCalculator \/ ReadCalculations \/ SendCalcs
             \/ SignalSenderReady

-----------------------------------------------------------------------------
Next == \/ \E l \in Listeners : Arrive(l) \/ Lose(l) \/ RunListener(l)
        \/ RunCalculator
        \/ RunSender \/ SendFails

Spec == Init /\ [][Next]_vars

\* The kernel schedules every thread.  The client owes the server nothing.
Fairness == /\ \A l \in Listeners : WF_vars(RunListener(l))
            /\ WF_vars(RunCalculator)
            /\ WF_vars(RunSender)

FairSpec == Spec /\ Fairness

-----------------------------------------------------------------------------
ListenerAt == {"receive_packet", "wait_until_calc_reads", "lock", "store_batch",
               "unlock", "signal_listener_ready"}
CalculatorAt == {"wait_listener", "read_batches", "clean_batch_stock",
                 "signal_listener", "calculate_res", "wait_for_sender",
                 "signal_calculated"}
SenderAt == {"wait_for_calculator", "send_calcs", "sendto", "signal_sender_ready"}

Packs == {listener_signal(l) : l \in Listeners}
           \cup {calc_to_listener_signal(l) : l \in Listeners}
           \cup {"calc_to_sender_signal", "sender_signal"}

TypeOK == /\ inbox \in [Listeners -> Seq(Requests)]
          /\ requested \in [Listeners -> 0 .. MaxRequests]
          /\ lost \in [Listeners -> 0 .. MaxLost]
          /\ outbox \in Seq(Results \cup {NULL})
          /\ raised \in SUBSET Packs
          /\ batch_stock_access_mu \in Listeners \cup {NoThread}
          /\ stock \in [Listeners -> Batches]
          /\ calculations \in Results \cup {NULL}
          /\ at \in [Threads -> ListenerAt \cup CalculatorAt \cup SenderAt]
          /\ \A l \in Listeners : at[l] \in ListenerAt
          /\ at[Calculator] \in CalculatorAt
          /\ at[Sender] \in SenderAt
          /\ turn \in Listeners
          /\ rounds \in Nat \ {0}
          /\ received_pack \in [Listeners -> Batches]
          /\ batch \in [Listeners -> Batches]
          /\ calcs \in Results \cup {NULL}
          /\ running \in BOOLEAN

-----------------------------------------------------------------------------
(* Each slot of the stock passes from hand to hand.                        *)

Free(l) == calc_to_listener_signal(l) \in raised
Filling(l) == at[l] \in {"lock", "store_batch", "unlock", "signal_listener_ready"}
Full(l) == listener_signal(l) \in raised
Emptying(l) ==
  \/ at[Calculator] = "wait_listener" /\ turn = LISTENER_SECOND /\ l = LISTENER_FIRST
  \/ at[Calculator] \in {"read_batches", "clean_batch_stock"}
  \/ at[Calculator] = "signal_listener" /\ (turn = LISTENER_FIRST \/ l = LISTENER_SECOND)

\* At any time a slot is free, full, or in the hands of its listener or of the
\* calculator, and only one of these (the two packs of wait_listeners_write,
\* signal_read, wait_until_calc_reads and signal_listener_ready).
SlotHasOneOwner ==
  /\ \A l \in Listeners :
       /\ Free(l) \/ Filling(l) \/ Full(l) \/ Emptying(l)
       /\ Free(l) => ~(Filling(l) \/ Full(l) \/ Emptying(l))
       /\ Filling(l) => ~(Full(l) \/ Emptying(l))
       /\ Full(l) => ~Emptying(l)
  /\ at[Calculator] \in {"calculate_res", "wait_for_sender", "signal_calculated"}
       => turn = LISTENER_FIRST

\* A slot holds a batch from store_batch until clean_batch_stock, and a listener
\* that has received a packet keeps it until it is stored.
Cleaned(l) == \/ at[Calculator] = "signal_listener"
              \/ at[Calculator] = "clean_batch_stock" /\ l # turn /\ turn = LISTENER_SECOND
SlotHoldsBatch ==
  \A l \in Listeners :
    /\ stock[l] # NULL <=> \/ Full(l)
                           \/ at[l] \in {"unlock", "signal_listener_ready"}
                           \/ Emptying(l) /\ ~Cleaned(l)
    /\ at[l] # "receive_packet" => received_pack[l] # NULL

\* read_batches takes no mutex, and yet no listener is inside store_batch's
\* critical section while the calculator copies or frees the stock.
NoStockRace ==
  at[Calculator] \in {"read_batches", "clean_batch_stock"}
    => \A l \in Listeners : at[l] \notin {"lock", "store_batch", "unlock"}

\* A listener never overwrites a batch that was not read, and the calculator
\* never reads a slot that was not filled (add_to_batch would free the one and
\* copy_arr_of_floats return nothing for the other).
NoBatchLost ==
  /\ \A l \in Listeners : at[l] = "store_batch" => stock[l] = NULL
  /\ at[Calculator] = "read_batches" => stock[turn] # NULL

-----------------------------------------------------------------------------
(* The CalculationsStock and the sender.                                   *)

Sending == at[Sender] \in {"send_calcs", "sendto", "signal_sender_ready"}
ToSend == "calc_to_sender_signal" \in raised
Sent == "sender_signal" \in raised
HandingOver == at[Calculator] = "signal_calculated"

\* rounds whose result has been computed: signal_calculated starts a new round.
computedBar == IF at[Calculator] \in {"wait_for_sender", "signal_calculated"}
               THEN rounds ELSE rounds - 1

\* One result at a time is on its way from the calculator to the outbox, the
\* calculator works on at most one more, and the stock has the last one computed.
ResultHasOneOwner ==
  /\ Sent \/ HandingOver \/ ToSend \/ Sending
  /\ Sent => ~(HandingOver \/ ToSend \/ Sending)
  /\ HandingOver => ~(ToSend \/ Sending)
  /\ ToSend => ~Sending
  /\ ToSend \/ Sending => rounds > 1
  /\ computedBar > 0 => calculations \in Results /\ calculations.round = computedBar
  /\ at[Sender] = "sendto" => /\ calcs \in Results
                              /\ calcs.round \in {rounds - 1, computedBar}

-----------------------------------------------------------------------------
(* Which batch is where: the n-th batch of a port is that of request n or, *)
(* when datagrams were lost there, of one of the next lost[l] requests.    *)

InOrder(l, number, n) == number \in n .. n + lost[l]

\* The calculator has copied this round's batch; it does so before it cleans the slot.
Copied(l) ==
  \/ at[Calculator] = "read_batches" /\ turn = LISTENER_SECOND /\ l = LISTENER_FIRST
  \/ at[Calculator] \in {"clean_batch_stock", "signal_listener", "calculate_res",
                         "wait_for_sender", "signal_calculated"}
Unread(l) == stock[l] # NULL /\ ~(Emptying(l) /\ Copied(l))
Holding(l) == at[l] \in {"wait_until_calc_reads", "lock", "store_batch"}

\* Batches the calculator has read, and batches that have left the receive buffer.
BatchesRead(l) == IF Copied(l) THEN rounds ELSE rounds - 1
BatchesStored(l) == BatchesRead(l) + (IF Unread(l) THEN 1 ELSE 0)
BatchesReceived(l) == BatchesStored(l) + (IF Holding(l) THEN 1 ELSE 0)

KeepsOrder(l) ==
  /\ requested[l] - lost[l] = BatchesReceived(l) + Len(inbox[l])
  /\ \A i \in DOMAIN inbox[l] : InOrder(l, inbox[l][i], BatchesReceived(l) + i)
  /\ Holding(l) => InOrder(l, received_pack[l], BatchesStored(l) + 1)
  /\ Unread(l) => InOrder(l, stock[l], BatchesRead(l) + 1)
  /\ BatchesRead(l) > 0 => InOrder(l, batch[l], BatchesRead(l))

BatchesKeepOrder == \A l \in Listeners : KeepsOrder(l)

\* A result is computed from the batches of its round; as many are sent as the
\* calculator has handed over, and the m-th is that of round m or m + 1.
FromItsRound(result) ==
  result \in Results /\ \A l \in Listeners : InOrder(l, result.from[l], result.round)

ResultsKeepOrder ==
  /\ computedBar > 0 => FromItsRound(calculations)
  /\ at[Sender] = "sendto" => FromItsRound(calcs)
  /\ Len(outbox) = IF ToSend \/ at[Sender] \in {"send_calcs", "sendto"}
                   THEN rounds - 2 ELSE rounds - 1
  /\ \A m \in DOMAIN outbox : FromItsRound(outbox[m]) /\ outbox[m].round \in {m, m + 1}

\* The inductive invariant of Server_proofs: who owns each slot and the result on
\* its way, and what the slots, the stock, the sockets and the answers then hold.
IInv == /\ TypeOK /\ SlotHasOneOwner /\ SlotHoldsBatch /\ ResultHasOneOwner
        /\ BatchesKeepOrder /\ ResultsKeepOrder

\* The m-th answer is computed from the m-th or (m+1)-th request; only datagrams
\* lost on that very port push it further: no thread of the server skips,
\* repeats or swaps a batch.
AnswersInOrder ==
  \A m \in DOMAIN outbox :
    /\ outbox[m] # NULL
    /\ \A l \in Listeners : /\ outbox[m].from[l] # NULL
                            /\ outbox[m].from[l] - m \in 0 .. lost[l] + 1

\* Once k datagrams have arrived at each port, k answers are eventually sent,
\* unless a failing sendto has ended the process.
EveryRequestIsAnswered ==
  \A k \in Requests : (\A l \in Listeners : requested[l] - lost[l] >= k)
                        ~> (Len(outbox) >= k \/ ~running)

-----------------------------------------------------------------------------
(* Refinement: CalculateRes computes, SendCalcs answers.                   *)

answersBar == [m \in DOMAIN outbox |-> outbox[m].round]

Service == INSTANCE ResultService WITH computed <- computedBar,
                                       answers <- answersBar

\* wait_for_sender and wait_for_calculator keep the calculator at most two
\* results ahead of the sender, and a datagram one round ahead of its number.
ImplementsResultService == Service!Spec

-----------------------------------------------------------------------------
(* What the repository says of the server and the code does not do.        *)

\* "mutex to lock on BatchStock access" (server/main.c:19).
StockAccessIsLocked ==
  at[Calculator] \in {"read_batches", "clean_batch_stock"}
    => batch_stock_access_mu = Calculator

\* The log pairs "[CALCULATOR]: round m" and "results calculated" with
\* "[SENDER]: round m" and "sent results" (server/main.c:92-101,
\* run_sender.c:19-24): the m-th results sent are those of round m.
EveryResultIsSent == \A m \in DOMAIN outbox : outbox[m].round = m
=============================================================================

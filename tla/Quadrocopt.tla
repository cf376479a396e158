------------------------------ MODULE Quadrocopt ------------------------------
(***************************************************************************)
(* Client and Server, running against each other over UDP on the loopback  *)
(* interface: two sockets towards the server (requests, one half each) and *)
(* one towards the client (answers).  A request is the pair of its halves; *)
(* an answer carries the numbers of the two halves it was computed from.   *)
(***************************************************************************)
EXTENDS Integers, SequencesExt

CONSTANTS NULL,         \* see Client and Server
          NoThread,
          Steps,
          CallsPerStep,
          MaxLost       \* bound: datagrams lost in either direction

VARIABLES
  (* The sockets. *)
  inbox,          \* receive buffers of the server's sd_in_first, sd_in_second
  answers,        \* receive buffer of the client's sd_in
  lost,           \* datagrams lost so far, per socket
  (* The server, see Server. *)
  server_raised, batch_stock_access_mu, stock, calculations, server_at, turn,
  rounds, server_pack, batch, calcs, server_running,
  (* The client, see Client. *)
  client_raised, sender_stock, listener_stock, client_at, step, stage, request,
  listener_batch, fetched, client_pack, workers, curr_worker, signalled,
  client_running

sockets == <<inbox, answers, lost>>
server == <<server_raised, batch_stock_access_mu, stock, calculations, server_at,
            turn, rounds, server_pack, batch, calcs, server_running>>
client == <<client_raised, sender_stock, listener_stock, client_at, step, stage,
            request, listener_batch, fetched, client_pack, workers, curr_worker,
            signalled, client_running>>
vars == <<sockets, server, client>>

\* The client takes the place of Server's Arrive and Lose and the server that of
\* Client's ServerAnswers: what those actions count stays 0.
S == INSTANCE Server WITH
       MaxRequests <- Steps * CallsPerStep + 1, MaxLost <- 0, SendMayFail <- FALSE,
       requested <- [first |-> 0, second |-> 0], lost <- [first |-> 0, second |-> 0],
       outbox <- answers, raised <- server_raised, at <- server_at,
       received_pack <- server_pack, running <- server_running

C == INSTANCE Client WITH
       MaxLost <- 0, SendMayFail <- FALSE,
       to_server <- inbox, answered <- 0, lost <- 0, raised <- client_raised,
       at <- client_at, received_pack <- client_pack, running <- client_running

ASSUME QuadrocoptAssumption ==
         /\ Steps \in Nat
         /\ CallsPerStep \in Nat \ {0}
         /\ MaxLost \in Nat
         /\ NULL \notin Int \cup S!Results \cup [S!Listeners -> Int]
         /\ NoThread \notin S!Listeners

LISTENER_FIRST == S!LISTENER_FIRST
LISTENER_SECOND == S!LISTENER_SECOND
CLIENT_IN == "client_in"

Init == S!Init /\ C!Init /\ lost = [s \in S!Listeners \cup {CLIENT_IN} |-> 0]

-----------------------------------------------------------------------------
(* A datagram is lost once, on its way or because the receive buffer cannot*)
(* take it.                                                                *)

Lost == lost[LISTENER_FIRST] + lost[LISTENER_SECOND] + lost[CLIENT_IN]

MayLose(socket) == /\ Lost < MaxLost
                   /\ lost' = [lost EXCEPT ![socket] = @ + 1]

LoseHalf(l) == /\ MayLose(l)
               /\ \E i \in DOMAIN inbox[l] : inbox' = [inbox EXCEPT ![l] = RemoveAt(@, i)]
               /\ UNCHANGED <<answers, server, client>>

LoseAnswer == /\ MayLose(CLIENT_IN)
              /\ \E i \in DOMAIN answers : answers' = RemoveAt(answers, i)
              /\ UNCHANGED <<inbox, server, client>>

ServerListens(l) == S!RunListener(l) /\ UNCHANGED <<lost, client>>
ServerCalculates == S!RunCalculator /\ UNCHANGED <<lost, client>>
ServerSends == S!RunSender /\ UNCHANGED <<lost, client>>

ClientCalculates == C!RunCalculator /\ UNCHANGED <<lost, server>>
ClientSends == C!RunSender /\ UNCHANGED <<lost, server>>
ClientListens == C!RunListener /\ UNCHANGED <<lost, server>>
ClientPrints == C!RunPrinter /\ UNCHANGED <<lost, server>>
ClientSignalled == \E w \in C!Workers : C!TakeSignal(w) /\ UNCHANGED <<lost, server>>

Next == \/ \E l \in S!Listeners : ServerListens(l) \/ LoseHalf(l)
        \/ LoseAnswer
        \/ ServerCalculates \/ ServerSends
        \/ ClientCalculates \/ ClientSends \/ ClientListens \/ ClientPrints
        \/ ClientSignalled

Spec == Init /\ [][Next]_vars

\* The kernels schedule every thread and deliver signals.
Fairness == /\ \A l \in S!Listeners : WF_vars(ServerListens(l))
            /\ WF_vars(ServerCalculates) /\ WF_vars(ServerSends)
            /\ WF_vars(ClientCalculates) /\ WF_vars(ClientSends)
            /\ WF_vars(ClientListens) /\ WF_vars(ClientPrints)
            /\ WF_vars(ClientSignalled)

FairSpec == Spec /\ Fairness

-----------------------------------------------------------------------------
AnswerInHand == client_at[C!Calculator] \in {"clean_batch_stock", "signal_listener_to"}

\* Whatever is lost and however the eight threads interleave, both halves of the
\* request an answer was computed from are the client's last one or the one before.
AnswerIsRecent ==
  AnswerInHand => /\ listener_batch # NULL
                  /\ \A l \in S!Listeners :
                       listener_batch.from[l] \in {request - 1, request}

\* Two halves of different requests meet in one calculation only after a loss.
PairsAreWhole ==
  \A l \in S!Listeners :
    (calculations # NULL /\ Lost = 0) =>
       calculations.from[l] = calculations.from[LISTENER_FIRST]

\* There are never more than two requests on their way, so no receive buffer ever
\* holds more than two datagrams.
FewInFlight == /\ \A l \in S!Listeners : Len(inbox[l]) <= 2
               /\ Len(answers) <= 2

\* A half lost at the one port takes the place of a half lost at the other: the
\* listeners pair what comes.
LostExchanges == Max({lost[LISTENER_FIRST], lost[LISTENER_SECOND]}) + lost[CLIENT_IN]

\* There are two requests on their way, so the loss of one exchange does not stop
\* the client: every call of get_u returns.
OneLossIsSurvived ==
  (client_at[C!Calculator] \in C!GetUAt)
     ~> (client_at[C!Calculator] \notin C!GetUAt \/ LostExchanges > 1)

\* recvfrom waits without a limit and nothing is sent again: once a second exchange
\* is lost, no answer is on its way or stored in the client, and no call of get_u
\* ever gets an answer again.
SecondLossStops == [][LostExchanges > 1 => UNCHANGED listener_batch]_vars

-----------------------------------------------------------------------------
(* Refinement: the sockets, what is in the server between them and what is *)
(* in the client between them, without threads and stocks.                 *)

One(condition, value) == IF condition THEN <<value>> ELSE <<>>

\* Halves the calculator has copied, that wait in the stock, and in the listener.
Copied(l) == \/ server_at[S!Calculator] \in {"clean_batch_stock", "signal_listener",
                                             "calculate_res"}
             \/ /\ server_at[S!Calculator] = "read_batches"
                /\ turn = LISTENER_SECOND
                /\ l = LISTENER_FIRST
Emptied(l) == \/ server_at[S!Calculator] \in {"signal_listener", "calculate_res"}
              \/ /\ server_at[S!Calculator] = "clean_batch_stock"
                 /\ turn = LISTENER_SECOND
                 /\ l = LISTENER_FIRST
halvesBar == [l \in S!Listeners |->
                One(Copied(l), batch[l])
                \o One(stock[l] # NULL /\ (Copied(l) => Emptied(l)), stock[l])
                \o One(server_at[l] \in {"wait_until_calc_reads", "lock", "store_batch"},
                       server_pack[l])]

\* The result the sender has to send, and the one computed meanwhile.
resultsBar ==
  LET toSend == S!ToSend \/ server_at[S!Sender] \in {"send_calcs", "sendto"}
  IN  One(toSend, IF server_at[S!Sender] = "sendto" THEN calcs.from ELSE calculations.from)
      \o One(server_at[S!Calculator] \in {"wait_for_sender", "signal_calculated"},
             calculations.from)

answersBar == [i \in DOMAIN answers |-> answers[i].from]

callingBar == client_at[C!Calculator] \in {"add_second_batch", "signal_sender_to",
                                           "wait_listener_from", "get_batch"}
sentBar ==
  [l \in S!Listeners |->
     IF \/ client_at[C!Sender] = "send_first"
        \/ client_at[C!Sender] = "send_second" /\ l = LISTENER_SECOND
     THEN C!Copied - 1 ELSE C!Copied]

receivedBar ==
  One(listener_stock # NULL /\ client_at[C!Calculator] # "clean_batch_stock",
      listener_stock.from)
  \o One(client_at[C!Listener] \in {"wait_listener_to", "store_batch"}, client_pack.from)

gotBar == IF listener_batch = NULL THEN NULL ELSE listener_batch.from

X == INSTANCE Exchange WITH
       Calls <- Steps * CallsPerStep, answers <- answersBar, halves <- halvesBar,
       results <- resultsBar, calls <- request - 1, calling <- callingBar,
       sent <- sentBar, received <- receivedBar, got <- gotBar

\* Eight threads and six stocks do no more to the datagrams than two sequential
\* processes would: Session builds on that.
ImplementsExchange == X!FairSpec

-----------------------------------------------------------------------------
(* The inductive invariant of Quadrocopt_proofs: the hand-shakes inside    *)
(* the two processes, what they leave in the stocks, and the places in     *)
(* Exchange's queues.                                                      *)

ServerHandShakes ==
  S!TypeOK /\ S!SlotHasOneOwner /\ S!SlotHoldsBatch /\ S!ResultHasOneOwner

ClientHandShakes ==
  /\ C!ControlOK /\ C!CallsCounted /\ C!StoppedAtTheEnd /\ C!OnlyListenerStops
  /\ C!SenderStockHasOneOwner /\ C!StockHoldsRequest /\ C!ListenerStockHasOneOwner

\* What arrives at the client is computed from two batches.
Answers == [round : Nat \ {0}, from : [S!Listeners -> S!Requests]]

AnswersAreThere ==
  /\ answers \in Seq(Answers)
  /\ client_pack \in Answers \cup {NULL}
  /\ listener_stock \in Answers \cup {NULL}
  /\ listener_batch \in Answers \cup {NULL}
  /\ client_at[C!Listener] \in {"wait_listener_to", "store_batch"} => client_pack # NULL
  /\ AnswerInHand => listener_batch # NULL

\* For each port, the requests that nothing will be answered to any more.
Gone == [l \in S!Listeners |-> lost[l] + lost[CLIENT_IN]]

EverythingHasItsPlace ==
  /\ lost \in [S!Listeners \cup {CLIENT_IN} -> Nat]
  /\ X!TypeOK /\ X!AllAccounted(0, Gone) /\ X!Recent(0)

WholeWithoutLoss ==
  Lost = 0 => /\ X!Together(X!Between)
              /\ calculations # NULL => X!Whole(calculations.from)

IInv == /\ ServerHandShakes /\ ClientHandShakes /\ AnswersAreThere
        /\ EverythingHasItsPlace /\ WholeWithoutLoss
=============================================================================

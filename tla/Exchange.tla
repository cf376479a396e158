------------------------------ MODULE Exchange ------------------------------
(***************************************************************************)
(* What Client and Server do to the three sockets, with no threads and no  *)
(* hand-shakes: the client numbers its requests, sends two halves of each  *)
(* and is one request ahead of the answers; the server pairs the halves as *)
(* they come, and its results wait in a queue of two, where the newer one  *)
(* may take the place of the older.  Quadrocopt implements this; Session   *)
(* starts and ends the two processes.                                      *)
(*                                                                         *)
(* Definitions marked "Mistake:" are not the code's: PROJECT.json's        *)
(* mutants put them in the place of the definition that follows.           *)
(***************************************************************************)
EXTENDS Integers, SequencesExt

CONSTANTS NULL,   \* no call has returned yet
          Calls   \* calls of get_u in a run of the client

LISTENER_FIRST  == "first"
LISTENER_SECOND == "second"
Listeners == {LISTENER_FIRST, LISTENER_SECOND}

\* A result and an answer are the numbers of the two halves they were computed from.
Pairs == [Listeners -> Int]

ASSUME ExchangeAssumption == Calls \in Nat /\ NULL \notin Pairs

VARIABLES
  inbox,    \* per port: halves sent and not yet received
  answers,  \* answers sent and not yet received
  halves,   \* per port: halves in the server, not yet computed with
  results,  \* results computed and not yet sent, as they will be sent
  request,  \* requests made
  calls,    \* calls of get_u begun
  calling,  \* get_u has made its request and has no answer yet
  sent,     \* per port: requests sent
  received, \* answers in the client that no call has got
  got       \* the answer the last call got

sockets == <<inbox, answers>>
server  == <<halves, results>>
client  == <<request, calls, calling, sent, received, got>>
vars    == <<sockets, server, client>>

ServerInit == /\ halves = [l \in Listeners |-> <<>>]
              /\ results = <<>>

ClientInit == /\ request = 1
              /\ calls = 0
              /\ calling = FALSE
              /\ sent = [l \in Listeners |-> 0]
              /\ received = <<>>
              /\ got = NULL

Init == /\ inbox = [l \in Listeners |-> <<>>]
        /\ answers = <<>>
        /\ ServerInit
        /\ ClientInit

-----------------------------------------------------------------------------
(* The client.                                                             *)

\* Mistake: get_u does not wait for the listener.
NotWaited == TRUE
Answered == ~calling

\* Mistake: off by one.
OneCallTooMany == calls <= Calls
MoreCalls == calls < Calls

Call == /\ Answered
        /\ MoreCalls
        /\ sent[LISTENER_SECOND] >= request - 1
        /\ request' = request + 1
        /\ calls' = calls + 1
        /\ calling' = TRUE
        /\ UNCHANGED <<sockets, server, sent, received, got>>

Send(l) == /\ sent[l] < request
           /\ sent[LISTENER_FIRST] = IF l = LISTENER_FIRST THEN sent[LISTENER_SECOND]
                                                           ELSE sent[LISTENER_SECOND] + 1
           /\ sent' = [sent EXCEPT ![l] = @ + 1]
           /\ inbox' = [inbox EXCEPT ![l] = Append(@, sent'[l])]
           /\ UNCHANGED <<answers, server, request, calls, calling, received, got>>

Receive == /\ answers # <<>>
           /\ Len(received) < 2
           /\ received' = Append(received, Head(answers))
           /\ answers' = Tail(answers)
           /\ UNCHANGED <<inbox, server, request, calls, calling, sent, got>>

Return == /\ calling
          /\ received # <<>>
          /\ got' = Head(received)
          /\ received' = Tail(received)
          /\ calling' = FALSE
          /\ UNCHANGED <<sockets, server, request, calls, sent>>

\* After the last call SIGUSR1 ends the listener, perhaps with an answer in hand.
Stop == /\ ~calling
        /\ calls = Calls
        /\ received # <<>>
        /\ received' = Front(received)
        /\ UNCHANGED <<sockets, server, request, calls, calling, sent, got>>

ClientNext == Call \/ (\E l \in Listeners : Send(l)) \/ Receive \/ Return \/ Stop

-----------------------------------------------------------------------------
(* The server.                                                             *)

\* Mistake: both listeners are started on the first socket.
FirstSocket(l) == LISTENER_FIRST
Socket(l) == l

Take(l) == /\ inbox[Socket(l)] # <<>>
           /\ Len(halves[l]) < 3
           /\ halves' = [halves EXCEPT ![l] = Append(@, Head(inbox[Socket(l)]))]
           /\ inbox' = [inbox EXCEPT ![Socket(l)] = Tail(@)]
           /\ UNCHANGED <<answers, results, client>>

\* A result that nobody has begun to send is replaced by the next one.
Compute ==
  /\ \A l \in Listeners : halves[l] # <<>>
  /\ Len(results) < 2
  /\ LET result == [l \in Listeners |-> Head(halves[l])]
     IN  \/ results' = Append(results, result)
         \/ results # <<>> /\ results' = <<result, result>>
  /\ halves' = [l \in Listeners |-> Tail(halves[l])]
  /\ UNCHANGED <<sockets, client>>

Answer == /\ results # <<>>
          /\ answers' = Append(answers, Head(results))
          /\ results' = Tail(results)
          /\ UNCHANGED <<inbox, halves, client>>

ServerNext == (\E l \in Listeners : Take(l)) \/ Compute \/ Answer

-----------------------------------------------------------------------------
LoseHalf(l) == /\ \E i \in DOMAIN inbox[l] : inbox' = [inbox EXCEPT ![l] = RemoveAt(@, i)]
               /\ UNCHANGED <<answers, server, client>>

LoseAnswer == /\ \E i \in DOMAIN answers : answers' = RemoveAt(answers, i)
              /\ UNCHANGED <<inbox, server, client>>

Lose == LoseAnswer \/ \E l \in Listeners : LoseHalf(l)

Next == ClientNext \/ ServerNext \/ Lose

Spec == Init /\ [][Next]_vars

-----------------------------------------------------------------------------
(* Progress: what is possible and remains possible is done.  The end of the*)
(* client may come after its last call, whatever is still on its way; when *)
(* the next call begins is its own affair.                                 *)

Busy == calling \/ calls < Calls

CanSend == Busy /\ \E l \in Listeners : sent[l] < request
CanReceive == Busy /\ answers # <<>> /\ received = <<>>
CanReturn == calling /\ received # <<>>
CanTake(l) == inbox[Socket(l)] # <<>> /\ Len(halves[l]) < 2
CanCompute == results = <<>> /\ \A l \in Listeners : halves[l] # <<>>
CanAnswer == results # <<>>

Progress == /\ []<>~CanSend \/ []<><<\E l \in Listeners : Send(l)>>_vars
            /\ []<>~CanReceive \/ []<><<Receive>>_vars
            /\ []<>~CanReturn \/ []<><<Return>>_vars
            /\ \A l \in Listeners : []<>~CanTake(l) \/ []<><<Take(l)>>_vars
            /\ []<>~CanCompute \/ []<><<Compute>>_vars
            /\ []<>~CanAnswer \/ []<><<Answer>>_vars

FairSpec == Spec /\ Progress

-----------------------------------------------------------------------------
TypeOK == /\ inbox \in [Listeners -> Seq(Int)]
          /\ halves \in [Listeners -> Seq(Int)]
          /\ \A l \in Listeners : Len(halves[l]) <= 3
          /\ answers \in Seq(Pairs)
          /\ results \in Seq(Pairs) /\ Len(results) <= 2
          /\ received \in Seq(Pairs) /\ Len(received) <= 2
          /\ got \in Pairs \cup {NULL}
          /\ request \in Nat \ {0}
          /\ calls \in 0 .. Calls
          /\ calling \in BOOLEAN
          /\ sent \in [Listeners -> Nat]
          /\ sent[LISTENER_FIRST] \in {sent[LISTENER_SECOND], sent[LISTENER_SECOND] + 1}
          /\ sent[LISTENER_FIRST] <= request

(* What is on its way stands in a queue: answers the client has received,  *)
(* answers in its socket, results, halves, and halves in the sockets of    *)
(* the server.  Each place is for one request; old is the number of        *)
(* requests of other clients among them, gone the number of halves lost.   *)

Done(old) == request - 1 - (IF calling THEN 1 ELSE 0) - old
BeforeAnswers(old) == Done(old) + Len(received)
BeforeResults(old) == BeforeAnswers(old) + Len(answers)
BeforeHalves(old) == BeforeResults(old) + Len(results)
BeforeInbox(old, l) == BeforeHalves(old) + Len(halves[l])

AllAccounted(old, gone) ==
  \A l \in Listeners : BeforeInbox(old, l) + Len(inbox[l]) + gone[l] <= sent[l]

\* What may stand in the n-th place: request n or, after a loss, a later one.
HalfOf == [n \in Int |-> n .. request]
PairOf == [n \in Int |-> [Listeners -> n .. request]]

Ranked(queue, before, of) == \A i \in DOMAIN queue : queue[i] \in of[before + i]

Recent(old) ==
  /\ Ranked(received, Done(old), PairOf)
  /\ Ranked(answers, BeforeAnswers(old), PairOf)
  /\ Ranked(results, BeforeResults(old), PairOf)
  /\ \A l \in Listeners : /\ Ranked(halves[l], BeforeHalves(old), HalfOf)
                          /\ Ranked(inbox[l], BeforeInbox(old, l), HalfOf)
  /\ got # NULL /\ ~calling => got \in PairOf[Done(old)]

\* Nothing is lost: the same halves wait for the server at both ports, but for the
\* one that is sent first.
Between == sent[LISTENER_FIRST] # sent[LISTENER_SECOND]
Waiting(l) == halves[l] \o inbox[l]
Whole(pair) == pair[LISTENER_FIRST] = pair[LISTENER_SECOND]
Together(between) ==
  /\ Waiting(LISTENER_FIRST) = IF between
                               THEN Append(Waiting(LISTENER_SECOND), sent[LISTENER_FIRST])
                               ELSE Waiting(LISTENER_SECOND)
  /\ \A i \in DOMAIN results : Whole(results[i])
=============================================================================

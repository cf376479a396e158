------------------------------- MODULE Payload -------------------------------
(***************************************************************************)
(* What a call of get_u carries: thirteen floats, in two packets, through  *)
(* the listeners' receive buffers into the variables of                    *)
(* server_calculations, and the four floats of its result back to derivs,  *)
(* which computes the accelerations from them.                             *)
(* The hand-shakes are Client's and Server's; here the two halves of one   *)
(* exchange take their way, and then the next exchange takes the same way  *)
(* through the same buffers.  Floats are words, see Codec.                 *)
(*                                                                         *)
(* Definitions marked "Mistake:" are not the code's: PROJECT.json's        *)
(* mutants put them in the place of the definition that follows.           *)
(***************************************************************************)
EXTENDS Codec, CalcData, Control

CONSTANTS MAXBUF,        \* size of a receive buffer
          Patterns,      \* what the floats of an exchange are: thirteen elements of Field
          MaxExchanges   \* bound: calls of get_u

\* A receive buffer holds the longest packet, and a word the type and the length of each:
\* the code's are of 2^20 bytes and of 32 bits.
ASSUME PayloadAssumption == /\ MAXBUF \in Nat /\ 8 + 4 * 7 <= MAXBUF
                            /\ 4 * 7 < BitValue(WordBits)
                            /\ Patterns \subseteq [1 .. 13 -> Field]
                            /\ P <= BitValue(WordBits)
                            /\ MaxExchanges \in Nat

\* The local variables of server_calculations, by the index they are read from.
Params == <<"x", "dotX", "y", "dotY", "z", "dotZ", "theta", "dotTheta",
            "phi", "dotPhi", "psy", "dotPsy", "t">>
server_calculations_params(params) ==
  [p \in {Params[i] : i \in 1 .. 13} |-> params[(CHOOSE i \in 1 .. 13 : Params[i] = p) - 1]]

\* What they are called in the client.
Meaning == [x |-> "Vx", dotX |-> "VdotX", y |-> "Vy", dotY |-> "VdotY",
            z |-> "Vz", dotZ |-> "VdotZ", theta |-> "Vtheta", dotTheta |-> "VdotTheta",
            phi |-> "Vphi", dotPhi |-> "VdotPhi", psy |-> "Vpsy", dotPsy |-> "VdotPsy",
            t |-> Time]

FIRST == "first"
SECOND == "second"
Halves == {FIRST, SECOND}
CLIENT_IN == "client_in"
Sockets == Halves \cup {CLIENT_IN}

VARIABLES
  calc_data,  \* what the client means in this exchange
  payload,    \* the argument of get_u
  datagram,   \* per socket: the datagram on its way, if any
  buf,        \* per socket: the listener's receive buffer
  stock,      \* per socket: what the listener stored, and its length
  params,     \* the variables of server_calculations
  results,    \* what it returns
  U,          \* U1 .. U4 of the client
  at,         \* where the exchange is
  exchanges   \* exchanges begun

vars == <<calc_data, payload, datagram, buf, stock, params, results, U, at, exchanges>>

Empty == [n \in {} |-> {}]
Fresh == [batch |-> Empty, len |-> 0]

Init == /\ calc_data = [f \in CalcFields |-> {}]
        /\ payload = Empty
        /\ datagram = [s \in Sockets |-> Empty]
        /\ buf = [s \in Sockets |-> [k \in 0 .. MAXBUF - 1 |-> {}]]
        /\ stock = [s \in Sockets |-> Fresh]
        /\ params = Empty
        /\ results = Empty
        /\ U = Empty
        /\ at = "derivs"
        /\ exchanges = 0

-----------------------------------------------------------------------------
(* The client, on the way out.                                             *)

\* The first call of get_u in get_next_step, and the other three with their vector yt.
GetPayload ==
  /\ at = "derivs"
  /\ exchanges < MaxExchanges
  /\ exchanges' = exchanges + 1
  /\ at' = "send"
  /\ \E pattern \in Patterns :
       LET yt == [i \in Indices |-> WordOf(pattern[i])]
           time == WordOf(pattern[NVAR + 1])
       IN  /\ calc_data' = CalcData(yt, time)
           /\ \/ payload' = get_payload_from_calc_data(calc_data')
              \/ payload' = normalize_vector(yt, NVAR, time)
  /\ UNCHANGED <<datagram, buf, stock, params, results, U>>

\* get_u's two memcpy's.
first_batch == [i \in 0 .. 5 |-> payload[i]]
second_batch == [i \in 0 .. 6 |-> payload[6 + i]]

SendHalves ==
  /\ at = "send"
  /\ at' = "listen"
  /\ datagram' = [datagram EXCEPT
       ![FIRST] = pack_to_bytes(gen_packet_from_floats(first_batch, 6)),
       ![SECOND] = pack_to_bytes(gen_packet_from_floats(second_batch, 7))]
  /\ UNCHANGED <<calc_data, payload, buf, stock, params, results, U, exchanges>>

-----------------------------------------------------------------------------
(* Listeners, on both sides: receive_packet, bytes_to_pack, store_batch.   *)

Received(s) == bytes_to_pack(buf'[s])

Listen(s) ==
  /\ datagram[s] # Empty
  /\ datagram' = [datagram EXCEPT ![s] = Empty]
  /\ buf' = [buf EXCEPT ![s] = recvfrom(@, datagram[s])]
  /\ KnownType(buf'[s])
  /\ stock' = [stock EXCEPT ![s] = [batch |-> get_floats(Received(s)),
                                    len |-> get_floats_count(Received(s))]]
  /\ UNCHANGED <<calc_data, payload, params, results, U, exchanges>>

ListenerStores == \E l \in Halves : Listen(l) /\ UNCHANGED at

-----------------------------------------------------------------------------
(* The server.                                                             *)

\* Mistake: the halves the other way round.
SecondFirst == <<SECOND, FIRST>>
ReceivedOrder == <<FIRST, SECOND>>

\* received_data in calculate_res: one batch behind the other.
received_data ==
  LET head == stock[ReceivedOrder[1]]
      tail == stock[ReceivedOrder[2]]
  IN  [i \in 0 .. head.len + tail.len - 1 |->
         IF i < head.len THEN head.batch[i] ELSE tail.batch[i - head.len]]

Numbers(words) == [n \in DOMAIN words |-> NumberOf(words[n])]

CalculateRes ==
  /\ at = "listen"
  /\ \A l \in Halves : stock[l] # Fresh
  /\ at' = "answer"
  /\ params' = server_calculations_params(received_data)
  /\ LET u == server_calculations(Numbers(params'))
     IN  results' = [i \in 0 .. 3 |-> WordOf(u[i])]
  /\ stock' = [s \in Sockets |-> IF s \in Halves THEN Fresh ELSE stock[s]]
  /\ UNCHANGED <<calc_data, payload, datagram, buf, U, exchanges>>

SERVER_TO_CLIENT_PARAMS_COUNT == 4

SendCalcs ==
  /\ at = "answer"
  /\ at' = "get_u"
  /\ datagram' = [datagram EXCEPT ![CLIENT_IN] =
                    pack_to_bytes(gen_packet_from_floats(results,
                                                         SERVER_TO_CLIENT_PARAMS_COUNT))]
  /\ UNCHANGED <<calc_data, payload, buf, stock, params, results, U, exchanges>>

-----------------------------------------------------------------------------
(* The client, on the way back.                                            *)

ClientStores == Listen(CLIENT_IN) /\ UNCHANGED at

set_u(u) == [U1 |-> u[0], U2 |-> u[1], U3 |-> u[2], U4 |-> u[3]]

\* get_u copies four floats, whatever the stock's length says, and derivs sets them.
SetU ==
  /\ at = "get_u"
  /\ stock[CLIENT_IN] # Fresh
  /\ at' = "derivs"
  /\ U' = set_u(stock[CLIENT_IN].batch)
  /\ stock' = [stock EXCEPT ![CLIENT_IN] = Fresh]
  /\ UNCHANGED <<calc_data, payload, datagram, buf, params, results, exchanges>>

-----------------------------------------------------------------------------
Next == \/ GetPayload \/ SendHalves \/ ListenerStores \/ CalculateRes
        \/ SendCalcs \/ ClientStores \/ SetU

Spec == Init /\ [][Next]_vars

-----------------------------------------------------------------------------
Lengths == [s \in Sockets |-> CASE s = FIRST -> 6 [] s = SECOND -> 7 [] s = CLIENT_IN -> 4]

TypeOK ==
  /\ calc_data \in [CalcFields -> Words]
  /\ \A s \in Sockets : /\ stock[s].len \in {0, Lengths[s]}
                        /\ DOMAIN stock[s].batch = 0 .. stock[s].len - 1
                        /\ buf[s] \in [0 .. MAXBUF - 1 -> Bytes]
  /\ exchanges \in 0 .. MaxExchanges

\* Split in two, sent, received into a used buffer, joined and read by index, every
\* float arrives in the variable of server_calculations that stands for it.
ServerReadsWhatClientMeant ==
  at = "answer" => \A p \in DOMAIN Meaning : params[p] = calc_data[Meaning[p]]

\* The accelerations that derivs computes make the errors of z and psy, and away from
\* free fall those of x and y, follow the linear equations of the gains: the server's
\* formulas are inverse to the client's, and all seventeen floats are where they belong.
ClosedLoop ==
  (at = "derivs" /\ exchanges > 0) =>
    LET c == Numbers(calc_data)
        u == Numbers(U)
        r == tanRh(c[Time])
        acc == Accelerations(c.Vtheta, c.Vphi, u)
        thrust == u.U1 \oslash m
        dotThrust == r.d3dotref \ominus (L0z \otimes (c.VdotZ \ominus r.dotref))
                                \ominus (L1z \otimes (acc.ddotZ \ominus r.ddotref))
        ddotThrust == r.d4dotref \ominus (L0z \otimes (acc.ddotZ \ominus r.ddotref))
                                 \ominus (L1z \otimes (dotThrust \ominus r.d3dotref))
    IN  /\ SecondOrder(r, L0z, L1z, c.Vz, c.VdotZ, acc.ddotZ)
        /\ SecondOrder(r, L0psy, L1psy, c.Vpsy, c.VdotPsy, acc.ddotPsy)
        /\ thrust # 0 =>
             /\ FourthOrder(r, c.Vx, c.VdotX, c.Vtheta, c.VdotTheta, acc.ddotTheta,
                            thrust, dotThrust, ddotThrust)
             /\ FourthOrder(r, c.Vy, c.VdotY, Negative(c.Vphi), Negative(c.VdotPhi),
                            Negative(acc.ddotPhi), thrust, dotThrust, ddotThrust)

\* Every datagram that is sent fits a receive buffer, is of a type the receiver knows
\* (bytes_to_pack ends the process otherwise), and get_floats_count of it is the
\* number of floats that get_floats makes, never (size_t) -1.
PacketsAreUnderstood ==
  \A s \in Sockets : datagram[s] # Empty =>
    LET ca == recvfrom(buf[s], datagram[s])
        pack == bytes_to_pack(ca)
    IN  /\ DOMAIN datagram[s] \subseteq DOMAIN buf[s]
        /\ KnownType(ca)
        /\ get_floats_count(pack) # NoCount
        /\ DOMAIN get_floats(pack) = 0 .. get_floats_count(pack) - 1

\* The comment of tanRh, "tangent function and its derivatives": each of the five numbers
\* is the derivative by the time of the one before.
ReferenceDerivatives ==
  at = "answer" =>
    LET t == NumberOf(params.t)
        r == tanRh(t)
        d0 == Linear(aR \oplus LowVal, aR)
        d1 == TimeDerivative(d0)
        d2 == TimeDerivative(d1)
    IN  <<r.ref, r.dotref, r.ddotref, r.d3dotref, r.d4dotref>> =
          [k \in 1 .. 5 |-> ValueAt(<<d0, d1, d2, TimeDerivative(d2),
                                     TimeDerivative(TimeDerivative(d2))>>[k], phiAt(t))]

-----------------------------------------------------------------------------
(* Why the invariants hold: an inductive one.                              *)

\* The payload holds what the client means, in the order of the server's parameters.
PayloadIsMeant ==
  /\ DOMAIN payload = 0 .. NVAR
  /\ \A i \in 1 .. NVAR + 1 : payload[i - 1] = calc_data[Meaning[Params[i]]]

\* The floats that go through a socket in this exchange.
Floats(s) == CASE s = FIRST -> first_batch
               [] s = SECOND -> second_batch
               [] s = CLIENT_IN -> results
Sent(s) == pack_to_bytes(gen_packet_from_floats(Floats(s), Lengths[s]))
Stored(s) == [batch |-> Floats(s), len |-> Lengths[s]]

\* Nothing is on its way through the socket, or its floats are, in a datagram or stored.
Quiet(s) == datagram[s] = Empty /\ stock[s] = Fresh
Passing(s) == \/ datagram[s] = Sent(s) /\ stock[s] = Fresh
              \/ datagram[s] = Empty /\ stock[s] = Stored(s)

ExchangeIsWhole ==
  /\ DOMAIN datagram = Sockets /\ DOMAIN buf = Sockets /\ DOMAIN stock = Sockets
  /\ at \in {"derivs", "send", "listen", "answer", "get_u"}
  /\ \A s \in Halves : IF at = "listen" THEN Passing(s) ELSE Quiet(s)
  /\ IF at = "get_u" THEN Passing(CLIENT_IN) ELSE Quiet(CLIENT_IN)
  /\ at \in {"send", "listen"} => PayloadIsMeant
  /\ at \in {"answer", "get_u"} => results \in [0 .. 3 -> Words]

\* The thirteen numbers of this exchange by the names of the server's parameters, and
\* the four words that server_calculations makes of them.
Meant == [p \in DOMAIN Meaning |-> NumberOf(calc_data[Meaning[p]])]
Answer == LET u == server_calculations(Meant) IN [i \in 0 .. 3 |-> WordOf(u[i])]

\* What the client flies with between two exchanges answers the last of them.
AnswerIsOfThisExchange ==
  /\ \A f \in CalcFields : NumberOf(calc_data[f]) \in Field
  /\ at \in {"answer", "get_u"} => results = Answer
  /\ (at = "derivs" /\ exchanges > 0) => U = set_u(Answer)

\* Every half and every answer takes its way whole, and nothing of one exchange is left in
\* the next but what the buffers hold behind their datagrams.
IInv == TypeOK /\ ServerReadsWhatClientMeant /\ ExchangeIsWhole /\ AnswerIsOfThisExchange
=============================================================================

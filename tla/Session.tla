------------------------------- MODULE Session -------------------------------
(***************************************************************************)
(* Processes that start and end, over Exchange, which Quadrocopt           *)
(* implements.  The server binds its sockets one after the other before    *)
(* its threads run; it may be ended and started again.  The client ends -  *)
(* finished, killed, or by a failing sendto - and is started again against *)
(* a server that still holds halves, results and answers of the runs       *)
(* before.  Nothing in a datagram tells the runs apart; here the requests  *)
(* are numbered on through all runs, so that the properties can.           *)
(*                                                                         *)
(* A datagram for a port that nobody has bound vanishes, and so does what  *)
(* an ended process left in its receive buffers.  Both stay in the         *)
(* sequences of Exchange, which nobody reads meanwhile, until the bind     *)
(* that comes next.                                                        *)
(*                                                                         *)
(* Definitions marked "Mistake:" are not the code's: PROJECT.json's        *)
(* mutants put them in the place of the definition that follows.           *)
(***************************************************************************)
EXTENDS Exchange

CONSTANTS MaxClients,  \* bound: starts of the client
          MaxServers   \* bound: starts of the server

ASSUME SessionAssumption == MaxClients \in Nat \ {0} /\ MaxServers \in Nat

VARIABLES
  phase,    \* of the server: "down", "first_bound" (sd_in_first only) or "up"
  servers,  \* starts of the server
  clients,  \* starts of the client
  alive,    \* the client is running
  served,   \* the server has been up since this run of the client began
  whole     \* no half has reached this server without its other half

session == <<phase, servers, clients, alive, served, whole>>

SessionInit == /\ Init
               /\ phase = "down"
               /\ servers = 0
               /\ clients = 0
               /\ alive = FALSE
               /\ served = FALSE
               /\ whole = TRUE

-----------------------------------------------------------------------------
(* The server's start and end.                                             *)

\* initialize_network_interface binds sd_in_first; the globals are as at first.
BindFirst ==
  /\ phase = "down"
  /\ servers < MaxServers
  /\ phase' = "first_bound"
  /\ servers' = servers + 1
  /\ inbox' = [inbox EXCEPT ![LISTENER_FIRST] = <<>>]
  /\ halves' = [l \in Listeners |-> <<>>]
  /\ results' = <<>>
  /\ UNCHANGED <<answers, client, clients, alive, served, whole>>

BetweenHalves == alive /\ sent[LISTENER_FIRST] # sent[LISTENER_SECOND]

\* Mistake: the second receive buffer is that of the server before.
OldHalves == inbox[LISTENER_SECOND]
\* bind_sockaddr on a new socket: its receive buffer is empty.
NoHalves == <<>>

\* Then it binds sd_in_second.  Halves that came to the first port before have lost
\* their other half, but for the one whose other half is still to be sent.
BindSecond ==
  /\ phase = "first_bound"
  /\ phase' = "up"
  /\ inbox' = [inbox EXCEPT ![LISTENER_SECOND] = NoHalves]
  /\ whole' = (Len(inbox[LISTENER_FIRST]) = IF BetweenHalves THEN 1 ELSE 0)
  /\ UNCHANGED <<answers, server, client, servers, clients, alive, served>>

EndServer ==
  /\ phase # "down"
  /\ phase' = "down"
  /\ served' = FALSE
  /\ UNCHANGED <<vars, servers, clients, alive, whole>>

-----------------------------------------------------------------------------
(* The client's start and end.                                             *)

\* initialize_network_interface binds sd_in: its receive buffer is new.
NoAnswers == <<>>

\* initialize_sender_stock writes the run's first request before the threads start.
FirstRequest == IF clients = 0 THEN 1 ELSE request + 1

StartClient ==
  /\ ~alive
  /\ clients < MaxClients
  /\ clients' = clients + 1
  /\ alive' = TRUE
  /\ served' = (phase = "up")
  /\ answers' = NoAnswers
  /\ request' = FirstRequest
  /\ sent' = [l \in Listeners |-> FirstRequest - 1]
  /\ calls' = 0
  /\ calling' = FALSE
  /\ received' = <<>>
  /\ got' = NULL
  /\ UNCHANGED <<inbox, server, phase, servers, whole>>

\* The client ends at any statement: killed, by exit_error, or because main returns
\* while the sender, which wait_workers_to_finish does not know, is between two sendto's.
EndClient ==
  /\ alive
  /\ alive' = FALSE
  /\ whole' = (whole /\ ~BetweenHalves)
  /\ UNCHANGED <<vars, phase, servers, clients, served>>

-----------------------------------------------------------------------------
ServerRuns(action) == phase = "up" /\ action /\ UNCHANGED session
ClientRuns(action) == alive /\ action /\ UNCHANGED session

SessionNext ==
  \/ BindFirst \/ BindSecond \/ EndServer
  \/ StartClient \/ EndClient
  \/ ServerRuns(ServerNext)
  \/ ClientRuns(ClientNext)

SessionVars == <<vars, session>>

\* Exchange's Progress, for the processes that run; nobody has to start or end one.
SessionFairness ==
  /\ \A l \in Listeners : WF_SessionVars(ServerRuns(CanTake(l) /\ Take(l)))
  /\ WF_SessionVars(ServerRuns(CanCompute /\ Compute))
  /\ WF_SessionVars(ServerRuns(CanAnswer /\ Answer))
  /\ WF_SessionVars(ClientRuns(CanSend /\ \E l \in Listeners : Send(l)))
  /\ WF_SessionVars(ClientRuns(CanReceive /\ Receive))
  /\ WF_SessionVars(ClientRuns(CanReturn /\ Return))

SessionSpec == SessionInit /\ [][SessionNext]_SessionVars /\ SessionFairness

-----------------------------------------------------------------------------
\* What the runs of the client before this one asked for and did not wait for.
OldRequests == 2 * (clients - 1)

SessionTypeOK ==
  /\ TypeOK
  /\ phase \in {"down", "first_bound", "up"}
  /\ servers \in 0 .. MaxServers
  /\ clients \in 0 .. MaxClients
  /\ alive \in BOOLEAN /\ served \in BOOLEAN /\ whole \in BOOLEAN
  /\ request <= (Calls + 1) * MaxClients

\* Every earlier run leaves at most two requests with the server, and each of them
\* delays all answers of the client's get_u by one call.
OldRunsDelay ==
  (alive /\ ~calling /\ got # NULL)
    => \A l \in Listeners : got[l] \in (request - 1 - OldRequests) .. request

\* Halves of different requests meet in calculate_res only if the client was ended
\* between its two sendto's or the server was started between them.
HalvesStayTogether ==
  (phase = "up" /\ whole)
    => \A i \in DOMAIN results : Whole(results[i])

\* Nothing happens before the first client starts.
Untouched ==
  clients = 0 => Init /\ ~alive

\* Each run of the client makes a request in advance and one per call.
RequestsCounted ==
  clients > 0 => request <= (Calls + 1) * (clients - 1) + calls + 1

\* The first half of a request is the last datagram at its port until the second follows.
LastHalf ==
  (BetweenHalves /\ inbox[LISTENER_FIRST] # <<>>)
    => Last(inbox[LISTENER_FIRST]) = sent[LISTENER_FIRST]

\* The inductive invariant of Session_proofs: what all runs have left behind is in its
\* place, and both ports have the same unless a half has lost its other half.
IInv ==
  /\ SessionTypeOK /\ Untouched /\ RequestsCounted /\ LastHalf
  /\ clients > 0 => /\ AllAccounted(OldRequests, [l \in Listeners |-> 0])
                    /\ Recent(OldRequests)
  /\ phase = "first_bound" => results = <<>> /\ \A l \in Listeners : halves[l] = <<>>
  /\ phase = "up" /\ whole => Together(BetweenHalves)

\* A client started while the server is up is served, whatever state the runs before
\* have left the server in: every call of get_u returns.
RestartedClientIsServed ==
  (served /\ alive /\ calling) ~> (~calling \/ ~served \/ ~alive)
=============================================================================

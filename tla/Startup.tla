------------------------------- MODULE Startup -------------------------------
(***************************************************************************)
(* How the two programs start: main makes the objects the threads share,   *)
(* creates three of them, and all four meet at init_barrier.  The client's *)
(* main goes on to write ref.txt and to begin the simulation: both count   *)
(* the time in floats (see Float), and what a step does besides is the     *)
(* business of Client and Integration.                                     *)
(*                                                                         *)
(* Definitions marked "Mistake:" are not the code's: PROJECT.json's        *)
(* mutants put them in the place of the definition that follows.           *)
(***************************************************************************)
EXTENDS Float, Sequences, FiniteSets

CONSTANTS TimeEnds,   \* time_end, in units of Float; the code's is 0.1
          NSTEPs      \* NSTEP; the code's is 10

\* The unit is small enough for the half of a step, and large enough for the exponents to
\* reach two steps behind the end.  The steps are so few that the roundings of all of them
\* do not add up to half of one: the code has 10, and 2 ^ 24 for 4 * 11 * 11.
ASSUME StartupAssumption ==
  \A T \in TimeEnds, n \in NSTEPs :
    /\ T \in Nat /\ n \in Nat \ {0} /\ IsFloat(T)
    /\ T \div n >= 2 ^ Precision
    /\ 4 * T <= 2 ^ 30
    /\ 4 * ((n + 1) * (n + 1)) <= 2 ^ Precision

Processes == {"server", "client"}
MAIN == "main"

\* Threads in the order in which spawn_workers creates them.
Workers == [server |-> <<"listener_first", "listener_second", "sender">>,
            client |-> <<"listener", "sender", "printer">>]
WorkersOf(p) == {Workers[p][i] : i \in 1 .. 3}
Threads(p) == WorkersOf(p) \cup {MAIN}

\* initialize_globals, in the order of its calls, and set_signals.
Globals ==
  [server |-> <<"net_interface", "client_addr", "bs", "cs", "mutexes", "barrier", "packs">>,
   client |-> <<"net_interface", "server_addr", "listener_stock", "sender_stock",
                "printer_stock", "printer_params", "workers", "calc_data", "mutexes",
                "barrier", "packs", "first_batches", "signals">>]

\* What start_listener, start_sender and start_printer hand to a thread.
Common == {"net_interface", "mutexes", "packs", "barrier"}
Handed ==
  [server |-> [listener_first |-> Common \cup {"client_addr", "bs"},
               listener_second |-> Common \cup {"client_addr", "bs"},
               sender |-> Common \cup {"client_addr", "cs"}],
   client |-> [listener |-> Common \cup {"workers", "listener_stock"},
               sender |-> Common \cup {"workers", "server_addr", "sender_stock", "first_batches"},
               printer |-> {"mutexes", "packs", "barrier", "workers", "printer_stock"}]]

\* Mistake: initialize_barriers counts the workers only.
WorkersOnly == 3
BarrierCount == 4

VARIABLES made,      \* objects that exist, per process
          where,     \* per process and thread: "none", "created", "waiting",
                      \* "released" and "running" in this order, or "gone"
          status,    \* "starting", "started" or "failed"
          \* the client's main, behind the barrier:
          at,        \* "ref", "step" or "print"
          calc_data, \* its fields of time
          steps,     \* iterations of do_client_calculations
          times,     \* the times of the lines of ref.txt
          printer_from  \* cond_to_verify of printer_from_signal

clock == <<at, calc_data, steps, times, printer_from>>
vars == <<made, where, status, clock>>

Init == /\ made = [p \in Processes |-> <<>>]
        /\ where = [p \in Processes |-> [t \in Threads(p) |->
                                           IF t = MAIN THEN "running" ELSE "none"]]
        /\ status = [p \in Processes |-> "starting"]
        /\ at = "ref"
        /\ calc_data \in [time_end : TimeEnds, nstep : NSTEPs, step : {0}, curr_time : {0}]
        /\ steps = 0
        /\ times = <<>>
        /\ printer_from = TRUE

-----------------------------------------------------------------------------
(* main, up to the barrier.                                                *)

Starting(p) == status[p] = "starting" /\ where[p][MAIN] = "running"

\* Mistake: the points of time are counted instead of the intervals.
Points(n) == n + 1
Intervals(n) == n

Globally(p) == Len(made[p]) < Len(Globals[p])

MakeGlobal(p) ==
  /\ Starting(p) /\ Globally(p)
  /\ LET next == Globals[p][Len(made[p]) + 1]
     IN  /\ made' = [made EXCEPT ![p] = Append(@, next)]
         /\ calc_data' = IF next # "calc_data" THEN calc_data
                         ELSE [calc_data EXCEPT !.step = FloatDiv(calc_data.time_end,
                                                                  Intervals(calc_data.nstep))]
  /\ UNCHANGED <<where, status, at, steps, times, printer_from>>

\* create_listener(s), create_sender, create_printer: the next thread there is not yet.
NextWorker(p) == CHOOSE i \in 1 .. 3 : /\ where[p][Workers[p][i]] = "none"
                                       /\ \A j \in 1 .. i - 1 : where[p][Workers[p][j]] # "none"
AllCreated(p) == \A t \in WorkersOf(p) : where[p][t] # "none"

CreateWorker(p) ==
  /\ Starting(p) /\ ~Globally(p) /\ ~AllCreated(p)
  /\ where' = [where EXCEPT ![p][Workers[p][NextWorker(p)]] = "created"]
  /\ UNCHANGED <<made, status, clock>>

\* exit_error: a socket, a bind or pthread_create failed, or the address is missing.
\* The process ends, and with it the threads it has.
MayFail(p) == \/ Globally(p) /\ Globals[p][Len(made[p]) + 1] = "net_interface"
              \/ ~Globally(p) /\ ~AllCreated(p)

Fail(p) ==
  /\ Starting(p) /\ MayFail(p)
  /\ status' = [status EXCEPT ![p] = "failed"]
  /\ where' = [where EXCEPT ![p] = [t \in Threads(p) |-> "gone"]]
  /\ UNCHANGED <<made, clock>>

-----------------------------------------------------------------------------
(* pthread_barrier_wait: the last of BarrierCount releases the others, and *)
(* the barrier begins anew.                                                *)

Waiting(p) == {t \in Threads(p) : where[p][t] = "waiting"}
IsLast(p) == Cardinality(Waiting(p)) + 1 = BarrierCount

Arrive(p, t) ==
  /\ where' = [where EXCEPT ![p] = [o \in Threads(p) |->
                 IF o = t THEN IF IsLast(p) THEN "released" ELSE "waiting"
                 ELSE IF IsLast(p) /\ o \in Waiting(p) THEN "released"
                 ELSE where[p][o]]]
  /\ UNCHANGED <<made, status, clock>>

WorkerArrives(p, t) == where[p][t] = "created" /\ Arrive(p, t)

MainArrives(p) == Starting(p) /\ ~Globally(p) /\ AllCreated(p) /\ Arrive(p, MAIN)

\* Behind the barrier: run_listener, run_sender, run_printer, or the rest of main.
Go(p, t) ==
  /\ where[p][t] = "released"
  /\ where' = [where EXCEPT ![p][t] = "running"]
  /\ status' = IF t = MAIN THEN [status EXCEPT ![p] = "started"] ELSE status
  /\ UNCHANGED <<made, clock>>

-----------------------------------------------------------------------------
(* The client's calculate_ref and do_client_calculations.                  *)

ClientRuns == status["client"] = "started"

\* The loop of calc_ref; times starts empty, and its last line's successor is t.
t_ref == IF times = <<>> THEN 0 ELSE FloatAdd(times[Len(times)], calc_data.step)

WriteLine ==
  /\ ClientRuns /\ at = "ref"
  /\ IF t_ref <= calc_data.time_end
     THEN times' = Append(times, t_ref) /\ at' = at
     ELSE times' = times /\ at' = "step"
  /\ UNCHANGED <<made, where, status, calc_data, steps, printer_from>>

\* The times of get_next_step's calls.
\* Mistake: the middle of a step is its end.
WholeStep(step) == step
HalfStep(step) == step \div 2

x == calc_data.curr_time
xh == FloatAdd(x, HalfStep(calc_data.step))
EndOfStep == FloatAdd(x, calc_data.step)

\* get_next_step waits for the sender and the listener in get_u, see Client.
GetNextStep ==
  /\ ClientRuns /\ at = "step"
  /\ x <= calc_data.time_end
  /\ \A t \in {"listener", "sender"} : where["client"][t] = "running"
  /\ calc_data' = [calc_data EXCEPT !.curr_time = EndOfStep]
  /\ steps' = steps + 1
  /\ at' = "print"
  /\ UNCHANGED <<made, where, status, times, printer_from>>

\* print_calc_data waits for a signal that run_printer does not send, so that the second
\* step is the last that begins, whatever the time is.
PrintCalcData ==
  /\ at = "print" /\ printer_from
  /\ printer_from' = FALSE
  /\ at' = "step"
  /\ UNCHANGED <<made, where, status, calc_data, steps, times>>

-----------------------------------------------------------------------------
MainStarts(p) == MakeGlobal(p) \/ CreateWorker(p) \/ MainArrives(p)

Next == \/ \E p \in Processes : MainStarts(p) \/ Fail(p)
        \/ \E p \in Processes : \E t \in WorkersOf(p) : WorkerArrives(p, t)
        \/ \E p \in Processes : \E t \in Threads(p) : Go(p, t)
        \/ WriteLine \/ GetNextStep \/ PrintCalcData

\* Every thread is scheduled; nothing has to fail.
Spec == /\ Init /\ [][Next]_vars
        /\ \A p \in Processes :
             /\ WF_vars(MainStarts(p))
             /\ \A t \in WorkersOf(p) : WF_vars(WorkerArrives(p, t))
             /\ \A t \in Threads(p) : WF_vars(Go(p, t))
        /\ WF_vars(WriteLine)

-----------------------------------------------------------------------------
\* No thread touches a socket, a stock or a pack before every thread exists and has all it
\* was handed; so a start that fails has neither sent nor received anything.
StartTogether ==
  \A p \in Processes : \A t \in WorkersOf(p) :
    /\ where[p][t] = "running" => /\ \A o \in Threads(p) : where[p][o] \in {"released", "running"}
                                  /\ status[p] # "failed"
    /\ where[p][t] \in {"created", "waiting", "released", "running"}
         => Handed[p][t] \subseteq {made[p][i] : i \in DOMAIN made[p]}

\* A process that does not fail gets all its threads behind the barrier, and the client's
\* main past calc_ref: each addition of a step moves the time.
EveryoneStarts ==
  \A p \in Processes : <>(\/ status[p] = "failed"
                          \/ /\ \A t \in Threads(p) : where[p][t] = "running"
                             /\ p = "client" => at # "ref")

\* Rounding costs ref.txt the line of the end at most: it has NSTEP or NSTEP + 1 lines,
\* and no line is half a step away from its time.
Distance(a, b) == IF a > b THEN a - b ELSE b - a
ReferenceCoversFlight ==
  at # "ref" =>
    /\ Len(times) \in {calc_data.nstep, calc_data.nstep + 1}
    /\ \A i \in DOMAIN times : 2 * Distance(times[i], (i - 1) * calc_data.step) < calc_data.step

\* The three times a step sends to the server differ, in spite of rounding, and follow
\* each other; a step begins at the time of its line in ref.txt, and ends at the next one's.
StagesAreOnTime ==
  at = "step" =>
    /\ x < xh /\ xh < EndOfStep
    /\ times[steps + 1] = x
    /\ steps + 2 \in DOMAIN times => times[steps + 2] = EndOfStep

-----------------------------------------------------------------------------
(* Why StartTogether holds: an inductive invariant.                        *)

Stages == {"none", "created", "waiting", "released", "running", "gone"}

\* What the threads of p share.
Objects(p) == {Globals[p][i] : i \in DOMAIN Globals[p]}

TypeOK == /\ DOMAIN made = Processes
          /\ \A p \in Processes : made[p] \in Seq(Objects(p))
          /\ DOMAIN where = Processes
          /\ \A p \in Processes : where[p] \in [Threads(p) -> Stages]
          /\ status \in [Processes -> {"starting", "started", "failed"}]

\* main makes the objects in the order of its calls, and a thread only behind the last.
MadeInOrder ==
  \A p \in Processes :
    /\ Len(made[p]) <= Len(Globals[p])
    /\ \A i \in 1 .. Len(made[p]) : made[p][i] = Globals[p][i]
    /\ Globally(p) => \A t \in WorkersOf(p) : where[p][t] \in {"none", "gone"}

\* A process is in front of its barrier with all its threads, or behind it, or gone; and
\* main waits for threads that it created.
InFront(p) == /\ status[p] = "starting"
              /\ where[p][MAIN] \in {"running", "waiting"}
              /\ \A t \in WorkersOf(p) : where[p][t] \in {"none", "created", "waiting"}
              /\ where[p][MAIN] = "waiting" => AllCreated(p)
Behind(p) == /\ \A t \in Threads(p) : where[p][t] \in {"released", "running"}
             /\ status[p] = IF where[p][MAIN] = "running" THEN "started" ELSE "starting"
Ended(p) == /\ \A t \in Threads(p) : where[p][t] = "gone"
            /\ status[p] = "failed"

\* Nobody is behind a barrier that others have yet to reach, and nobody is created before
\* everything is made.
IInv == /\ TypeOK
        /\ MadeInOrder
        /\ \A p \in Processes : InFront(p) \/ Behind(p) \/ Ended(p)

-----------------------------------------------------------------------------
(* Why the times are right: what the client's main has come to.            *)

\* No addition up to the step behind the end is rounded by more.
Rounding == (calc_data.time_end + calc_data.step) \div 2 ^ Precision

\* init_calc_data is one of the calls of initialize_globals.
StepIsSet ==
  /\ calc_data \in [time_end : TimeEnds, nstep : NSTEPs, step : Nat, curr_time : Nat]
  /\ \A i \in 1 .. Len(made["client"]) :
       Globals["client"][i] = "calc_data" =>
         calc_data.step = FloatDiv(calc_data.time_end, calc_data.nstep)

\* Before the barrier nothing has happened to the clock.
ClockWaits == ClientRuns \/ (at = "ref" /\ times = <<>> /\ steps = 0)

\* Each line is a step behind the one before, and as many roundings away from its time.
LinesAreOnTime ==
  /\ times \in Seq(Nat)
  /\ Len(times) <= calc_data.nstep + 1
  /\ times # <<>> => times[1] = 0
  /\ \A i \in 1 .. Len(times) - 1 : times[i + 1] = FloatAdd(times[i], calc_data.step)
  /\ \A i \in 1 .. Len(times) :
       /\ times[i] <= calc_data.time_end
       /\ Distance(times[i], (i - 1) * calc_data.step) <= (i - 1) * Rounding

\* The steps follow the lines, and only the first finds the printer's signal.
StepsFollowLines ==
  /\ at \in {"ref", "step", "print"}
  /\ at = "ref" => steps = 0
  /\ at # "ref" => Len(times) >= 2 /\ Len(times) >= calc_data.nstep
  /\ at \in {"ref", "step"} => steps = IF printer_from THEN 0 ELSE 1
  /\ at = "print" => steps = IF printer_from THEN 1 ELSE 2
  /\ steps = 0 => calc_data.curr_time = 0
  /\ steps = 1 => calc_data.curr_time = times[2]

ClockInv == StepIsSet /\ ClockWaits /\ LinesAreOnTime /\ StepsFollowLines
=============================================================================

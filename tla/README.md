# quadrocopt: a TLA+ verification project

The repository is a client and a server, in C with pthreads, that simulate the
flight of a quadrocopter together.  The client integrates the equations of motion
(Runge-Kutta, `get_next_step`); for every evaluation it sends the state to the server
and applies the control the server computes from it.  Both are pipelines of threads
that hand each other one-place stocks by flags; they talk over three UDP sockets.
What can go wrong is in the hand-shakes, in the datagrams, in what happens when one of
the two ends and starts again, and in the indices, formulas and roundings that two
programs must agree on.  The modules here are about these.

Everything is translated from `src/`; line numbers are in `PROJECT.json` ("map").

## The system

| component | code | state | operations |
|---|---|---|---|
| ThreadConditionPack | `client/threading_stuff.c`; inlined eight times in `server/main.c`, `run_listener.c`, `run_sender.c` | mutex, condition variable, flag `cond_to_verify` | `wait_with_pack`, `signal_with_pack` |
| Server listeners (2) | `server/run_listener.c` | the packet just received | `receive_packet`, `wait_until_calc_reads`, `store_batch`, `signal_listener_ready` |
| Server calculator | `server/main.c` (main thread) | copies of the two batches | `wait_listeners_write`, `read_batches`, `signal_read`, `calculate_res`, `wait_for_sender`, `signal_calculated` |
| Server sender | `server/run_sender.c` | - | `wait_for_calculator`, `send_calcs`, `signal_sender_ready` |
| BatchStock, CalculationsStock (server) | `server/data_struct.c` | two half requests; one result | add, get, clean |
| Client calculator | `client/main.c` (main thread) | simulated time, last answer | `do_client_calculations`, `get_next_step`, `get_u`, `print_calc_data` |
| Client sender, listener, printer | `client/run_sender.c`, `run_listener.c`, `run_printer.c` | copies of the batch; the packet received | `fetch_batches`, `send_calcs`; `receive_packet`, `store_batch`; `print` |
| SenderStock, listener_stock (client) | `client/data_struct.c` | one request in two halves; one answer | add, get, clean |
| Shutdown | `client/main.c`, `signal_handling.c`, `utils.c` | WorkersCollection and its list | `wait_workers_to_finish`, `stop_worker`, `sig_handler` |
| Sockets | `network_interactions.c` (both) | receive buffers | `sendto`, `recvfrom` |
| Start-up and end of the processes | `main`, `initialize_globals`, `create_*` (both) | the shared objects, `init_barrier`, who exists | `spawn_workers`, `exit_error`, return of `main` |
| Packet codec | `network_interactions.c`, `io_stuff.c` (both) | the listeners' receive buffers | `gen_packet_from_floats`, `pack_to_bytes`, `bytes_to_pack`, `get_floats` |
| Payload layout | `client/main.c`, `calculate_structs.c`, `server/main.c` | 13 floats, split 6 + 7, and 4 back | `get_payload_from_calc_data`, `normalize_vector`, `calculate_res`, `set_u` |
| Integration step | `client/main.c`, `calculate.c` | six vectors of 12, CalculatorData | `get_next_step`, `derivs`, `set_calc_data` |
| Control law and reference | `server/calculate.c`, `nrutil.c` | - | `server_calculations`, `tanRh`, `calc_ref` |
| Linked lists | `client/utils.c` | SimpleLinkedList, DoubleLinkedList | add, free |
| Output, legacy echo programs, plots, tests | the remaining files | | see "Not modelled" |

How they interact.  Threads share memory: the stocks, guarded by pairs of
ThreadConditionPacks ("it is yours", "I am done").  A call of `get_u` goes: client
calculator -> SenderStock -> client sender -> two datagrams, one per half and port ->
two server listeners -> BatchStock -> server calculator -> CalculationsStock -> server
sender -> one datagram -> client listener -> listener_stock -> client calculator.
`fill_sender_stock` puts one request (of zeros) into this loop before the first call,
so there is always one request ahead.  Nothing in a datagram says which request it
belongs to, nothing is sent again, and nothing times out.

What makes each component correct:

- *Pack*: no wake-up is lost, no flag consumed twice, although waiters sleep, wake up
  spuriously and compete; then it is an atomic flag for its users.
- *Server*: a slot of the stock has one owner at a time although `read_batches` takes no
  mutex; no batch is lost or read twice; results leave in order; nobody waits for ever.
- *Client*: no half of a request leaves with half of another; no answer is overwritten
  or read twice; a call gets a recent answer; every call returns.
- *Both*: halves that meet belong together, answers stay recent, sockets do not fill,
  and a lost datagram does not stop the exchange.
- *End and restart*: the shutdown ends wherever the signal finds the worker; what a run
  leaves behind delays the next one by a bounded number of answers and never stops it.
- *Start-up*: nobody touches a shared object before all threads exist, and all get going.
- *Codec and payload*: each float is read as what it was sent as, in a buffer that was
  used before and by a program that knows the floats by their index only.
- *Integration*: the vectors `get_next_step` reuses hold what the method needs.
- *Control*: the server's formulas are inverse to the client's dynamics, and the numbers
  of the reference are derivatives of each other.
- *Clock*: rounding neither loses steps nor moves a step from its line in `ref.txt`.

## Modules

| module | what it is |
|---|---|
| `BinarySignal` | abstract: an atomic flag, what a pack promises |
| `ThreadConditionPack` | one pack and its callers, one pthread call or flag access per step |
| `ThreadConditionPack_proofs` | its invariants, and that it implements `BinarySignal` |
| `ResultService` | abstract: results computed in order and answered in order, possibly skipping one |
| `Server` | the server's four threads after `init_barrier` |
| `Server_proofs` | its invariants, and that it implements `ResultService` |
| `Client` | the client's four threads after `init_barrier`, and its shutdown, against a server that is `ResultService` |
| `Client_proofs` | its invariants |
| `Exchange` | abstract: two sequential processes, three sockets, halves that are paired as they come |
| `Quadrocopt` | `Server` and `Client` over the sockets; implements `Exchange` |
| `Quadrocopt_proofs` | its invariants, and that it implements `Exchange`, fairness apart |
| `Session` | start, end and restart of the two processes, over `Exchange` |
| `Session_proofs` | its invariants: the places of the datagrams in `Exchange`'s queues |
| `Codec` | the packet code, as operators on words, bytes and buffers |
| `Codec_proofs` | that it gives back what was put in, that in `Payload` every float arrives where it is read, and that the formulas of `Control` close the loop |
| `CalcData` | CalculatorData, the vectors that count from 1, the thirteen floats of a payload |
| `Control` | `server_calculations`, `tanRh`, the accelerations of `derivs`, and the equations they are to satisfy |
| `Payload`, `MCPayload` | one call of `get_u` after the other, through `Codec`, the buffers, the stocks and `Control` |
| `Integration`, `MCIntegration` | `get_next_step`, stage by stage |
| `Integration_proofs` | that it is a Runge-Kutta step |
| `Float` | addition and division in single precision |
| `Startup` | both programs from `main` to the threads' first statements, and the client's clock |
| `Startup_proofs` | that all threads start together, and that rounding does the clock no harm |

The modules build on each other: `ThreadConditionPack` justifies that `Server` and
`Client` treat a `wait_*` or `signal_*` call as one step; `Server` justifies what
`Client` assumes about answers (`ResultService`, `ServerAnswers`); `Quadrocopt`
instantiates both and replaces each one's environment by the other, and it implements
`Exchange`, which `Session` starts, ends and starts again.  In all of these a request is
its number.  What is in it is the business of `Payload`, which sends one exchange after
the other through the code that the threads of `Server` and `Client` run for it;
`Integration` is the caller of `get_u`, and takes any command for its answer.  `Startup`
ends where `Server` and `Client` begin.

**State.**  A pack in `Server` and `Client` is its flag: the set `raised` holds the packs
with `cond_to_verify` 1.  `at[t]` is thread t's next statement, named after the function
it calls.  A batch is the number of the request it is part of; a result is the
calculator's round and the numbers of the two batches it came from.  Sockets are
sequences; `Quadrocopt` and the two modules let UDP drop any datagram, but not duplicate
or reorder one: the server sends to 127.0.0.1 only (`initialize_client_address`), and
loopback delivers in order.

**Steps.**  Each statement that touches shared state is an action, in the order of the
code.  `read_batches` takes four steps (copy and clean each slot), `fetch_batches` two,
`store_batch` three (lock, store, unlock), `send_calcs` of the server two (read the
pointer `cs->calculations`, then `sendto`).  That pointer is read and replaced by two
threads with no lock; the model lets the reader get the old or the new one, which is
what an aligned pointer gives on the machines this builds for, and the array behind it
is never changed or freed.  `recvfrom` is passed an uninitialised length, which on Linux
does not change the data it returns; its result is not looked at, and `Payload` keeps what
an older, longer datagram left behind it in the buffer.

**Ends of the process.**  `exit_error` after a failing `sendto` ends all threads
(`SendFails`, `running`).  `sig_handler` may end a worker before any of its steps
(`TakeSignal`); only the head of the WorkersCollection, the listener, is ever signalled,
because `add_to_simple_linked_list` overwrites the link it has just set
(`AddToList`).  `StopWorker`, `JoinWorker` and `Return` come after
`do_client_calculations`, and with NSTEP 10 the program hangs before (finding
`SimulationEnds`): the run that needs them has `Steps = 1`, a simulation of one step,
the only one that gets past the loop.  What it shows is about the shutdown
code, not about a run of the client as it is configured today.

**Sessions.**  A process may end at any moment (a signal, `exit_error`, the return of
`main` while the sender is still at work) and start again.  What it had in memory and in
its receive buffers is gone, what is in the other process or on its way is not.  A datagram
for a port nobody has bound vanishes; the server binds its two ports one after the other
(`BindFirst`, `BindSecond`), so that there is a moment when one half arrives and the other
does not.  Requests are numbered on through all runs of the client, which the datagrams
are not; the numbers are there for the properties only.

**Words and bytes.**  `Codec` holds a word as the set of its bits and a byte as the set of
its own; `ByteBits` is the width of a byte and `CharIsSigned` says what `char` is, because
`ca[i] << (8 * i)` promotes it.  Copying the bits of a float to an unsigned int and
back is the identity on words; the conversion that could go wrong is the one between
words and bytes, and it is modelled shift by shift and mask by mask.

**Formulas.**  `Control` computes in the field of the integers modulo a prime instead of in
floats.  The formulas of `server_calculations` and `derivs` only add, multiply and divide:
that one is the inverse of the other is an identity of rational functions, and an identity
that fails for some numbers of the field is not one.  `tanh` is a parameter; of its
derivatives only `tanh' = 1 - tanh^2` is used.  What is left out are rounding and the size
of the constants: nothing is said of stability.

**The step.**  `Integration` takes `derivs` over integers, with 1/m, 1/Ix, 1/Iy, 1/Iz and a sixth
of the step as constants, so that nothing has to be divided.  The question is which vector
holds which slope when, and with which state and time `get_u` is called.

**The clock.**  `Startup` adds and divides in floats as the machine does, to the nearest and to
even (`Float`).  0.1f is 214748368 units, and so on; the unit is chosen so that TLC's
integers hold every time up to the end of the flight.

Definitions marked "Mistake:" are wrong on purpose.  Each stands before a definition of
the code, and `PROJECT.json` ("mutants") names the property that fails when it
takes its place.

## Runs

| run | question | bounds |
|---|---|---|
| `Pack` | Is a pack an atomic flag, and is a raised flag consumed? | 3 waiters, 2 signallers, 2 calls each, 1 spurious wake-up (the program has 1 and 1) |
| `Server` | Who owns the stocks, what is answered, is every complete request? | 4 requests, 2 lost datagrams, failing `sendto` |
| `Client` | Who owns the stocks, what does a call get, does every call return, does the shutdown end? | 1 step of 6 calls, 2 lost answers, failing `sendto` |
| `Quadrocopt` | Do halves match, are answers recent, do sockets fill, what do losses do, and is it an `Exchange`? | 1 step of 4 calls, 2 lost datagrams |
| `Session` | What do an ended client and an ended server leave to the next one? | 2 starts of each, 2 calls per run |
| `Payload` | Does every float arrive where it belongs, and do the two formulas fit? | 2 exchanges, 12 vectors of 13 floats, bytes of 2 bits, the field of 251 |
| `Integration` | Do the reused vectors hold the right slopes? | 2 steps, 3 initial states, 3 commands |
| `Startup` | Do all threads start together, and is the clock right? | both programs; `time_end` 0.1, 1 and 10, `NSTEP` 10 and 7; floats of 24 bits |

Four runs end in a counterexample (next section).

*Why these bounds are enough.*  The pipelines hold at most two requests at a time
(`FewInFlight`), so four requests go round every place of the server twice,
and six calls of `get_u` with the request made in advance do so for the client; two
losses shift the two ports, or request and answer, against each other, and a
second one on top.  `CallsPerStep` is the code's 4 in `Quadrocopt`; in `Client` it is 6, for
a longer sequence of the same calls.
Session's bounds let a run begin with everything the one before can leave behind;
with three starts of the client, one call each and two starts of the server
(1,689,693 states) the same properties hold.
`Payload` needs two exchanges because only the second meets used buffers; an identity
of the degrees that occur here can hold by accident at some of the 12 vectors and elements
of the field, but not at all of them.  `Integration` needs two steps because the second
starts with vectors in use, and commands that differ from stage to stage.  `Startup` has
the numbers of the code and five other pairs.  What is proved holds without the bounds.

*Deadlock* is not checked: every system here may stop.  A pack whose threads
make no more calls, a server whose client sends no more, a client that has
returned, hangs in print or waits after two losses, have no next step.  What must not
stop is stated as liveness instead.

*Fairness* is weak fairness of each thread: the kernel schedules every thread that can
run, a blocked `recvfrom` returns once a datagram is there, and a signal sent with
`pthread_kill` is delivered.  A waiter and a signaller inside a pack keep running;
calls, spurious wake-ups, losses, the client's requests (in `Server`), and the start
and end of a process (in `Session`) get none, nor does a failure in `Startup`.
`Client` asks the server to keep answering what was requested, which is
`EveryRequestIsAnswered` of `Server`; `Quadrocopt` drops that assumption.  The mutex of a
pack needs no strong fairness, because its threads make boundedly many calls.
`Exchange` has a fairness of its own, `Progress`, which is what `Session` assumes of the processes
that run; that eight fairly scheduled threads give it is part of `ImplementsExchange` and is
checked in `Quadrocopt`.

## What the runs found

- `StockAccessIsLocked`: the comment on `batch_stock_access_mu` (`server/main.c:19`) says
  "mutex to lock on BatchStock access", but only the listeners lock it.  It does no harm
  as long as the hand-shake is right: `NoStockRace` is checked and proved.
- `EveryResultIsSent`: `calculate_res` writes the CalculationsStock *before*
  `wait_for_sender`.  If the sender has been told of result n and has not read it yet,
  result n+1 takes its place: n is never sent and n+1 is sent twice.  `ResultService` says
  exactly how far this can go, one result, and the server implements it.  The repository
  says what a round is in its log only, one result and one sending to a round.
- `SimulationEnds`: `fetch_msg` returns NULL, the printer thread ends at once, and
  `print_calc_data` waits for it for ever in the second step.
- `ReferenceDerivatives`: `tanRh` ("tangent function and its derivatives") returns the second
  derivative of the reference with the wrong sign (`nrutil.c:125`, both copies: `2*aR*st2*...`
  must be `-2*aR*st2*...`, as the third and fourth derivatives on the next lines show).
  `server_calculations` uses it in V1, V2, V3 and V4.  With the sign put right
  the run finds no counterexample.

Not a disagreement with anything the repository says, but worth knowing: because of the
request made in advance (`fill_sender_stock`), a call of `get_u` returns the answer to the
call before it.  `CallGetsRecentAnswer` and `AnswerIsRecent` say how old an answer can be, and
`OldRunsDelay` that each earlier run of the client that the server has seen can add two more
calls.  `SecondLossStops` says that after two lost exchanges the client gets nothing any more,
`RestartedClientIsServed` that starting the client again mends it.

## Proofs

All proofs are checked by TLAPS.  Every invariant that a passing run checks is proved.  No
proof assumes a bound on calls, requests, losses, threads (of a pack), restarts or exchanges,
nor on steps, except for the clock.  What is assumed of the constants is in one named
assumption per module (`PackAssumption`, `ServerAssumption`, `ClientAssumption`,
`ExchangeAssumption`, `SessionAssumption`, `QuadrocoptAssumption`, `CodecAssumption`,
`PayloadAssumption`, `ControlAssumption`, `IntegrationAssumption`, `FloatAssumption`,
`StartupAssumption`).  They say that the constants are numbers, Booleans or functions to
numbers, and distinct from each other.  Three say more.

- `PayloadAssumption`: a receive buffer holds the longest packet (36 bytes; `MAXBUF` is 2^20),
  and a word holds its length and every element of the field that stands for the floats.
- `ControlAssumption`: that field is one (a modulus above 5 without divisors of zero, which a
  prime is), and the mass and the moments of inertia are not zero.  Gains, reference and `tanh`
  may be anything in it.
- `StartupAssumption`: the clock's unit fits the exponents of `Float`, which end at 2^30, the
  greatest power TLC can hold (a step is at least 2^Precision units, and four times the end at
  most 2^30); and the roundings of all steps together are less than half a step:
  4 (n + 1)^2 is at most 2^Precision, that is 484 <= 2^24 for the code's ten steps.  With some
  two thousand steps and more this is no longer so, and with a step below half a unit of the
  time the clock would stand still.

- **Pack.**  `IInv` is the conjunction of the four checked invariants.  None but the mutex
  invariant is inductive alone: `NoLostWakeUp` needs that the waiter that tests the flag
  holds the mutex, so that no signaller raises it between the test and the sleep.
  `PackImplementsSignal` maps `Clear` to `Take` and `Set` to `Raise`; every other step begins a
  call, ends one or stutters.  That `Take` finds the flag up is `ClearSeesFlag`.
- **Server.**  `IInv` has five parts besides the types.  `SlotHasOneOwner`: exactly one of
  the flag "read", the listener, the flag "stored" and the calculator has the slot of a
  port, at every statement.  `SlotHoldsBatch`: what the slot then contains.
  `ResultHasOneOwner`: the same for the result, with the number of answers sent and
  the round of the result in the stock.  `BatchesKeepOrder` counts the batches of a port: the
  n-th that was not lost, wherever it is, is at least the n-th requested, and later by no more
  than what was lost at that port; `ResultsKeepOrder` says the same of the results that are
  computed from them.  `NoStockRace` and `NoBatchLost` follow from the first two, the
  refinement of `ResultService` from the third, `AnswersInOrder` from the last.
- **Client.**  `IInv` has `SenderStockHasOneOwner` and `ListenerStockHasOneOwner` for the two
  stocks, `SenderHoldsRequest`, `StockHoldsRequest` and `AnswersAreRecent` for the numbers of
  the requests and answers they and the sockets hold, `CallsCounted` for the number of the
  request that is being made, and `StoppedAtTheEnd` and `OnlyListenerStops`, which keep the
  signal from breaking a hand-shake that is still in use.  `RequestsAreWhole` is a second
  induction on top of `SenderHoldsRequest`; `FewAnswersWaiting` one on top of
  `AnswersAreRecent`.
- **Session.**  What is on its way stands, for each port, in a queue: the answers that the
  client has received, those in its socket, the results, the halves the server holds and the
  datagrams in its socket.  `IInv` says that the queue is no longer than what was sent
  (`AllAccounted`), that the n-th place holds request n or a later one, after two places for
  each earlier run (`Recent`), how many requests there are (`RequestsCounted`), and what a
  client leaves that ends between two `sendto`s (`LastHalf`).  A step takes from the head of a
  part of the queue, adds to its end, cuts out an element or empties a part, and each of these
  keeps the places of the rest or moves them forward: these are lemmas about sequences.
  `OldRunsDelay` follows, and `HalvesStayTogether` because the queues of the two ports are the
  same until one of them is cut alone (`Together`).
- **Quadrocopt.**  The invariants of the two processes are used again, by instance: a step of
  the server keeps the hand-shakes `Server_proofs` speaks of, with the sockets' contents for
  its requests, and one of the client those of `Client_proofs`.  `IInv` adds what links the
  two: `AnswersAreThere`, and `EverythingHasItsPlace`, the places of `Session`, with no earlier
  runs but with the lost datagrams (`Gone`), which leave the queue so much shorter; the
  lemmas of `Session_proofs` apply.  `QuadrocoptImplementsExchange` takes the eight threads' steps one by one: each is a
  step of `Exchange` or changes nothing that `Exchange` sees.  `AnswerIsRecent`,
  `PairsAreWhole` (with `WholeWithoutLoss`), `FewInFlight` and `SecondLossStops` follow from
  the places.
- **Codec.**  `WordRoundTrip`: the four bytes of a word give the word back, for bytes of any
  width and both kinds of `char`, bit by bit: bit b of the word is bit b mod w of byte
  b div w, and the mask keeps the sign of a promoted byte out of its neighbours.
  `FloatsRoundTrip` adds `Flatten` and `get_slice`, `PacketRoundTrip` the header and a receive
  buffer with anything in it.  What the header holds are numbers, and `NumberRoundTrip` says that a
  number comes back from its bits: of two numbers of v bits that differ in none, the halves have
  v - 1 bits and differ in none.  This induction goes by the least v at which it fails; that
  2^(n + 1) is twice 2^n comes from counting subsets, since the provers know nothing of powers.
- **Payload.**  Also in `Codec_proofs`, because it rests on `PacketRoundTrip`.  `IInv` says what is
  in each socket and stock at each stage of an exchange (`ExchangeIsWhole`: a half of this
  payload or nothing, in a datagram or stored but not both), that the payload is in the
  order of the server's names (`PayloadIsMeant`), whichever of its two ways it was made in, and
  that what the client flies with is the answer to this payload and no other
  (`AnswerIsOfThisExchange`).  `FloatsArrive` joins the halves again; `PacketsUnderstood` is a
  property of each packet of the three lengths.
- **Control.**  `LoopCloses` is `AnswerIsOfThisExchange`, so that the four numbers in `derivs` are
  those of `server_calculations` for these thirteen, and `ControlLinearises`, the algebra.  The
  provers decide no identity of this length, so the laws of the field come first, from remainders
  (the reciprocal exists because multiplication by an element is injective, hence onto), and then
  the formulas in their order: U1/m is g + V3; ddotX and d3dotX are the angle's derivatives
  times this thrust; U2 is solved for the angle's acceleration, so that the fourth derivative of x
  is V1 (`FourthDerivativeIs`), and V1 is chosen so that the error equation holds
  (`WantedIsFourthOrder`).  For y all signs but that of V2 are turned (`WithNegatives`).  The
  wrong sign in `tanRh` (see above) does no harm here: the equations hold for
  whatever numbers `tanRh` returns, and say nothing of whether they are derivatives.  Nor do
  they say that the answer comes in time: `Payload` follows one request and its own answer, while
  the hand-shakes give a call the answer to the call before (`CallGetsRecentAnswer`), so that the
  program applies to one stage what closes the loop for the stage before.
- **Startup.**  `IInv` says that the objects are made in the order of the code (`MadeInOrder`), and
  that each process is in front of its barrier with all its threads (`InFront`), behind it with
  all of them (`Behind`), or gone (`Ended`).  The step that releases the threads is the one
  that needs counting: three of four are waiting, so the fourth is the only other
  (`LastFindsTheOthers`).
- **Clock.**  Also in `Startup_proofs`.  `ReferenceCoversFlight` and `StagesAreOnTime` relate
  times to multiples of the step, and neither is inductive: the next time depends on this one's exact
  value, not on its being near enough.  `ClockInv` says that each line of `ref.txt` is the float
  sum of the one before and the step, and that line i is at most i - 1 roundings from its
  time (`LinesAreOnTime`), where a `Rounding` is (end + step) / 2^Precision; and that the
  simulation's steps are on these lines (`StepsFollowLines`).  The lemma under it is that
  `FloatDiv` is off by at most half an `Ulp`, and an `Ulp` at most 2^(1 - Precision) of the
  quotient, or one unit.  `ReferenceCovers` counts: with NSTEP + 2 lines the last would lie
  behind the end by more than its roundings, and with fewer than NSTEP the next would still
  lie before it.
- **Integration.**  `IInv` says what each vector holds after each stage, in terms of the slopes
  k1 to k4 of the textbook (`VectorsHoldSlopes`): after the third stage `dym` is k2 + k3, and
  `dyt` may be written again.  `StepIsRungeKuttaStep` is its last stage, and
  `PayloadsAreStages` one conjunct of it.

The `IInv` of `Server`, `Client`, `Session`, `Payload` and `Integration` are invariants of their
runs, too; each contains the module's `TypeOK`.  Those of `Quadrocopt` and `Startup` (`ClockInv`
included) were checked by TLC with the bounds of their runs before they were proved (73,684 and
39,574 states); the runs list what follows from them instead.

*Only model-checked*: liveness, with `SignalIsConsumed`, the termination and progress properties
of the runs, `OneLossIsSurvived`, `RestartedClientIsServed` and the fairness that
`ImplementsExchange` asks for, which is out of this prover's reach; and what is not true, the
four properties of "What the runs found".

## Not modelled

- Floating-point rounding, except in the clock; the values of gains and constants, and with
  them the stability of the loop.  Infinities: U2 and U3 divide by `g + V3`, and
  nothing looks whether it is zero (`ClosedLoop` leaves free fall out).
- The log, the dump files and `io_mu`.  In a DEBUG build `sig_handler` may end the listener while
  it holds `io_mu`, and `main` then waits for it; the log guards nothing else.
- Functions that nothing calls: the free functions, `gen_init_pack`, `set_client_address`,
  `calculate`, `get_first_batch_from_calc_data`, AngleCoordCommand, DoubleLinkedList, `matrix`.
- The end of the calculation loop: since the program blocks in the second `print_calc_data`, how
  often rounding would let the loop run is not a question about this code; `ref.txt`, which
  has the same arithmetic, is complete.
- `echoClientUDP.c`, `echoServerUDP.c` (in no Makefile), `plot.py`, `dynamic_plot.py`, and
  `tests/` (an empty `main`).

## Plan

Done, in this order: the pack (everything rests on it), `Server`, `Client`, `Quadrocopt`,
`Exchange` and `Session`, `Codec`, `Payload`, `Integration`, `Control`, `Startup`; their
invariants, and the refinements of `BinarySignal`, `ResultService` and `Exchange`, are proved.
What is left:

1. `io_mu` and the log as steps of `Client`, for the last message of the DEBUG build.
2. That the numbers of `tanRh` are derivatives of each other, once the sign is put right: an
   identity over `ValueAt`, a recursive function, like those of `ControlLinearises`.
3. DoubleLinkedList against sequences, once something calls it.

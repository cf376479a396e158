---------------------------- MODULE Startup_proofs ----------------------------
(***************************************************************************)
(* Theorems about the start of the two programs: no thread runs before the *)
(* barrier has seen all of them, and none is created before everything     *)
(* that it is handed exists; and about the times of the client's main, for *)
(* any precision of its floats: ref.txt covers the flight, and the stages  *)
(* of a step are in order and on its lines.                                *)
(***************************************************************************)
EXTENDS Startup, FiniteSetTheorems, FunctionTheorems, TLAPS

-----------------------------------------------------------------------------
(* The threads and what they are handed.                                   *)

\* The client and the server have a main and three workers each.
LEMMA ThreadsOfServer ==
  /\ WorkersOf("server") = {"listener_first", "listener_second", "sender"}
  /\ Threads("server") = {"listener_first", "listener_second", "sender", "main"}
  /\ DOMAIN Workers["server"] = 1 .. 3
BY SMT DEF WorkersOf, Workers, Threads, MAIN

LEMMA ThreadsOfClient ==
  /\ WorkersOf("client") = {"listener", "sender", "printer"}
  /\ Threads("client") = {"listener", "sender", "printer", "main"}
  /\ DOMAIN Workers["client"] = 1 .. 3
BY SMT DEF WorkersOf, Workers, Threads, MAIN

LEMMA WorkersAreThreads ==
  ASSUME NEW p \in Processes
  PROVE  /\ MAIN \in Threads(p)
         /\ MAIN \notin WorkersOf(p)
         /\ WorkersOf(p) \subseteq Threads(p)
         /\ Threads(p) = WorkersOf(p) \cup {MAIN}
         /\ \A i \in 1 .. 3 : Workers[p][i] \in WorkersOf(p)
<1>1. CASE p = "server"
  BY <1>1, ThreadsOfServer DEF MAIN, WorkersOf, Threads
<1>2. CASE p = "client"
  BY <1>2, ThreadsOfClient DEF MAIN, WorkersOf, Threads
<1>. QED  BY <1>1, <1>2 DEF Processes

LEMMA FourThreads ==
  ASSUME NEW p \in Processes
  PROVE  IsFiniteSet(Threads(p)) /\ Cardinality(Threads(p)) = 4
<1>. DEFINE first == Workers[p][1]
            second == Workers[p][2]
            third == Workers[p][3]
<1>1. /\ first # second /\ first # third /\ first # MAIN
      /\ second # third /\ second # MAIN /\ third # MAIN
  BY DEF Workers, MAIN, Processes
<1>2. Threads(p) = {first, second, third, MAIN}
  BY DEF Threads, WorkersOf
<1>. HIDE DEF first, second, third
<1>4. IsFiniteSet({first}) /\ Cardinality({first}) = 1
  BY FS_Singleton
<1>5. IsFiniteSet({first, second}) /\ Cardinality({first, second}) = 2
  <2>1. {first, second} = {first} \cup {second}
    OBVIOUS
  <2>. QED  BY <1>1, <1>4, <2>1, FS_AddElement
<1>6. IsFiniteSet({first, second, third}) /\ Cardinality({first, second, third}) = 3
  <2>1. {first, second, third} = {first, second} \cup {third}
    OBVIOUS
  <2>. QED  BY <1>1, <1>5, <2>1, FS_AddElement
<1>7. /\ IsFiniteSet({first, second, third, MAIN})
      /\ Cardinality({first, second, third, MAIN}) = 4
  <2>1. {first, second, third, MAIN} = {first, second, third} \cup {MAIN}
    OBVIOUS
  <2>. QED  BY <1>1, <1>6, <2>1, FS_AddElement
<1>. QED  BY <1>2, <1>7

\* initialize_globals makes whatever a start_... function hands on.
LEMMA GlobalsCoverHanded ==
  ASSUME NEW p \in Processes, NEW t \in WorkersOf(p)
  PROVE  /\ Len(Globals[p]) \in Nat
         /\ Handed[p][t] \subseteq {Globals[p][i] : i \in 1 .. Len(Globals[p])}
<1>1. CASE p = "server"
  <2>1. t \in {"listener_first", "listener_second", "sender"}
    BY <1>1, ThreadsOfServer
  <2>2. Handed[p][t] \subseteq Common \cup {"client_addr", "bs", "cs"}
    BY <1>1, <2>1 DEF Handed
  <2>3. /\ Len(Globals[p]) = 7
        /\ Globals[p][1] = "net_interface" /\ Globals[p][2] = "client_addr"
        /\ Globals[p][3] = "bs" /\ Globals[p][4] = "cs" /\ Globals[p][5] = "mutexes"
        /\ Globals[p][6] = "barrier" /\ Globals[p][7] = "packs"
    BY <1>1 DEF Globals
  <2>4. ASSUME NEW g \in Common \cup {"client_addr", "bs", "cs"}
        PROVE  \E i \in 1 .. 7 : Globals[p][i] = g
    BY <2>3, <2>4 DEF Common
  <2>. QED  BY <2>2, <2>3, <2>4
<1>2. CASE p = "client"
  <2>1. t \in {"listener", "sender", "printer"}
    BY <1>2, ThreadsOfClient
  <2>2. Handed[p][t] \subseteq Common \cup {"workers", "listener_stock", "server_addr",
                                            "sender_stock", "first_batches", "printer_stock"}
    BY <1>2, <2>1 DEF Handed, Common
  <2>3. /\ Len(Globals[p]) = 13
        /\ Globals[p][1] = "net_interface" /\ Globals[p][2] = "server_addr"
        /\ Globals[p][3] = "listener_stock" /\ Globals[p][4] = "sender_stock"
        /\ Globals[p][5] = "printer_stock" /\ Globals[p][7] = "workers"
        /\ Globals[p][9] = "mutexes" /\ Globals[p][10] = "barrier"
        /\ Globals[p][11] = "packs" /\ Globals[p][12] = "first_batches"
    BY <1>2 DEF Globals
  <2>4. ASSUME NEW g \in Common \cup {"workers", "listener_stock", "server_addr",
                                      "sender_stock", "first_batches", "printer_stock"}
        PROVE  \E i \in 1 .. 13 : Globals[p][i] = g
    BY <2>3, <2>4 DEF Common
  <2>. QED  BY <2>2, <2>3, <2>4
<1>. QED  BY <1>1, <1>2 DEF Processes

\* The last thread to arrive finds all the others at the barrier.
LEMMA LastFindsTheOthers ==
  ASSUME TypeOK, NEW p \in Processes, NEW t \in Threads(p), where[p][t] # "waiting",
         IsLast(p)
  PROVE  \A o \in Threads(p) : o # t => o \in Waiting(p)
<1>. DEFINE others == Threads(p) \ {t}
<1>1. IsFiniteSet(others) /\ Cardinality(others) = 3
  <2>. /\ IsFiniteSet(Threads(p) \ {t})
       /\ Cardinality(Threads(p) \ {t}) = Cardinality(Threads(p)) - 1
    BY FourThreads, FS_RemoveElement
  <2>. QED  BY FourThreads
<1>2. Waiting(p) \subseteq others
  BY DEF Waiting
<1>3. IsFiniteSet(Waiting(p)) /\ Cardinality(Waiting(p)) \in Nat
  BY <1>1, <1>2, FS_Subset, FS_CardinalityType
<1>4. Cardinality(Waiting(p)) = 3
  BY <1>3 DEF IsLast, BarrierCount
<1>5. Waiting(p) = others
  BY <1>1, <1>2, <1>4, FS_Subset
<1>. QED  BY <1>5

\* As long as a thread is missing, create_... makes one of those there are not yet.
LEMMA NextIsMissing ==
  ASSUME NEW p \in Processes, ~AllCreated(p)
  PROVE  NextWorker(p) \in 1 .. 3 /\ where[p][Workers[p][NextWorker(p)]] = "none"
<1>. DEFINE Missing(i) == where[p][Workers[p][i]] = "none"
<1>1. PICK i \in 1 .. 3 : Missing(i)
  BY DEF AllCreated, WorkersOf
<1>2. \E n \in 1 .. 3 : Missing(n) /\ \A j \in 1 .. n - 1 : ~Missing(j)
  <2>1. CASE Missing(1)
    BY <2>1
  <2>2. CASE ~Missing(1) /\ Missing(2)
    BY <2>2
  <2>3. CASE ~Missing(1) /\ ~Missing(2)
    <3>1. Missing(3) /\ \A j \in 1 .. 3 - 1 : ~Missing(j)
      BY <1>1, <2>3
    <3>. QED  BY <3>1
  <2>. QED  BY <2>1, <2>2, <2>3
<1>. QED  BY <1>2 DEF NextWorker

-----------------------------------------------------------------------------
(* The inductive invariant.                                                *)

LEMMA InitHolds == Init => IInv
<1>. SUFFICES ASSUME Init  PROVE IInv
  OBVIOUS
<1>1. TypeOK
  BY DEF Init, TypeOK, Stages
<1>2. ASSUME NEW p \in Processes
      PROVE  /\ Len(made[p]) = 0
             /\ \A t \in WorkersOf(p) : where[p][t] = "none"
             /\ where[p][MAIN] = "running"
             /\ status[p] = "starting"
  BY <1>2, WorkersAreThreads DEF Init
<1>3. MadeInOrder
  <2>. SUFFICES ASSUME NEW p \in Processes
                PROVE  /\ Len(made[p]) <= Len(Globals[p])
                       /\ \A i \in 1 .. Len(made[p]) : made[p][i] = Globals[p][i]
                       /\ Globally(p) => \A t \in WorkersOf(p) : where[p][t] \in {"none", "gone"}
    BY DEF MadeInOrder
  <2>1. Len(Globals[p]) \in Nat
    BY DEF Globals, Processes
  <2>. QED  BY <1>2, <2>1
<1>4. \A p \in Processes : InFront(p)
  BY <1>2 DEF InFront
<1>. QED  BY <1>1, <1>3, <1>4 DEF IInv

\* What is left to show of a step that makes no object, if it touches one process: its
\* threads and its status are right again.
LEMMA OneProcessMoves ==
  ASSUME IInv, NEW q \in Processes, made' = made,
         where' = [where EXCEPT ![q] = where'[q]], where'[q] \in [Threads(q) -> Stages],
         status' = [status EXCEPT ![q] = status'[q]],
         status'[q] \in {"starting", "started", "failed"},
         Globally(q) => \A t \in WorkersOf(q) : where'[q][t] \in {"none", "gone"},
         InFront(q)' \/ Behind(q)' \/ Ended(q)'
  PROVE  IInv'
<1>0. TypeOK /\ MadeInOrder /\ \A p \in Processes : InFront(p) \/ Behind(p) \/ Ended(p)
  BY DEF IInv
<1>1. ASSUME NEW p \in Processes, p # q
      PROVE  where'[p] = where[p] /\ status'[p] = status[p]
  BY <1>0, <1>1 DEF TypeOK
<1>2. TypeOK'
  BY <1>0, <1>1 DEF TypeOK
<1>3. MadeInOrder'
  BY <1>0, <1>1 DEF MadeInOrder, Globally
<1>4. ASSUME NEW p \in Processes  PROVE (InFront(p) \/ Behind(p) \/ Ended(p))'
  <2>1. CASE p = q
    BY <2>1
  <2>2. CASE p # q
    BY <1>0, <1>1, <2>2 DEF InFront, Behind, Ended, AllCreated
  <2>. QED  BY <2>1, <2>2
<1>. QED  BY <1>2, <1>3, <1>4 DEF IInv

LEMMA MakeGlobalKeeps ==
  ASSUME IInv, NEW p \in Processes, MakeGlobal(p)
  PROVE  IInv'
<1>0. TypeOK /\ MadeInOrder /\ \A q \in Processes : InFront(q) \/ Behind(q) \/ Ended(q)
  BY DEF IInv
<1>. DEFINE next == Globals[p][Len(made[p]) + 1]
<1>1. /\ made' = [made EXCEPT ![p] = Append(made[p], next)]
      /\ where' = where /\ status' = status
      /\ Globally(p)
  BY DEF MakeGlobal
<1>2. Len(made[p]) \in Nat /\ Len(Globals[p]) \in Nat /\ made[p] \in Seq(Objects(p))
  BY <1>0 DEF TypeOK, Globals, Processes
<1>3. next \in Objects(p)
  <2>1. Len(made[p]) + 1 \in DOMAIN Globals[p]
    BY <1>1, <1>2 DEF Globally, Globals, Processes
  <2>. QED  BY <2>1 DEF Objects
<1>4. TypeOK'
  BY <1>0, <1>1, <1>2, <1>3 DEF TypeOK
<1>5. MadeInOrder'
  <2>. SUFFICES ASSUME NEW q \in Processes
                PROVE  (/\ Len(made[q]) <= Len(Globals[q])
                        /\ \A i \in 1 .. Len(made[q]) : made[q][i] = Globals[q][i]
                        /\ Globally(q) => \A t \in WorkersOf(q) : where[q][t] \in {"none", "gone"})'
    BY DEF MadeInOrder
  <2>1. CASE q # p
    BY <1>0, <1>1, <2>1 DEF MadeInOrder, TypeOK, Globally
  <2>2. CASE q = p
    <3>1. made'[p] = Append(made[p], next)
      BY <1>0, <1>1 DEF TypeOK
    <3>2. Len(made'[p]) = Len(made[p]) + 1
      BY <1>2, <1>3, <3>1
    <3>3. \A i \in 1 .. Len(made[p]) + 1 :
            made'[p][i] = IF i <= Len(made[p]) THEN made[p][i] ELSE next
      BY <1>2, <1>3, <3>1
    <3>. QED  BY <1>0, <1>1, <1>2, <2>2, <3>2, <3>3 DEF MadeInOrder, Globally
  <2>. QED  BY <2>1, <2>2
<1>6. \A q \in Processes : (InFront(q) \/ Behind(q) \/ Ended(q))'
  BY <1>0, <1>1 DEF InFront, Behind, Ended, AllCreated
<1>. QED  BY <1>4, <1>5, <1>6 DEF IInv

\* main is in front of the barrier when it creates, arrives or fails.
LEMMA StartingIsInFront ==
  ASSUME IInv, NEW p \in Processes, Starting(p)
  PROVE  InFront(p)
BY WorkersAreThreads DEF IInv, InFront, Behind, Ended, Starting

LEMMA CreateWorkerKeeps ==
  ASSUME IInv, NEW p \in Processes, CreateWorker(p)
  PROVE  IInv'
<1>. DEFINE w == Workers[p][NextWorker(p)]
<1>0. TypeOK
  BY DEF IInv
<1>1. Starting(p) /\ ~Globally(p) /\ ~AllCreated(p)
  BY DEF CreateWorker
<1>2. w \in WorkersOf(p) /\ w \in Threads(p) /\ w # MAIN
  BY <1>1, NextIsMissing, WorkersAreThreads
<1>3. made' = made /\ status' = status /\ where' = [where EXCEPT ![p][w] = "created"]
  BY DEF CreateWorker
<1>. HIDE DEF w
<1>4. where'[p] = [where[p] EXCEPT ![w] = "created"]
  BY <1>0, <1>3 DEF TypeOK
<1>5. where[p] \in [Threads(p) -> Stages]
  BY <1>0 DEF TypeOK
<1>6. where'[p] \in [Threads(p) -> Stages]
  BY <1>4, <1>5 DEF Stages
<1>7. where' = [where EXCEPT ![p] = where'[p]]
  BY <1>0, <1>3, <1>4 DEF TypeOK
<1>8. InFront(p)'
  <2>1. InFront(p) /\ where[p][MAIN] = "running"
    BY <1>1, StartingIsInFront DEF Starting
  <2>2. where'[p][MAIN] = "running"
    BY <1>2, <1>4, <1>5, <2>1, WorkersAreThreads
  <2>3. \A t \in WorkersOf(p) : where'[p][t] \in {"none", "created", "waiting"}
    BY <1>4, <1>5, <2>1, WorkersAreThreads DEF InFront
  <2>. QED  BY <1>3, <2>1, <2>2, <2>3 DEF InFront
<1>9. status' = [status EXCEPT ![p] = status'[p]] /\ status'[p] \in {"starting", "started", "failed"}
  BY <1>0, <1>3 DEF TypeOK
<1>. QED  BY <1>1, <1>3, <1>6, <1>7, <1>8, <1>9, OneProcessMoves

LEMMA FailKeeps ==
  ASSUME IInv, NEW p \in Processes, Fail(p)
  PROVE  IInv'
<1>0. TypeOK
  BY DEF IInv
<1>1. /\ made' = made
      /\ status' = [status EXCEPT ![p] = "failed"]
      /\ where' = [where EXCEPT ![p] = [t \in Threads(p) |-> "gone"]]
  BY DEF Fail
<1>2. where'[p] = [t \in Threads(p) |-> "gone"] /\ status'[p] = "failed"
  BY <1>0, <1>1 DEF TypeOK
<1>3. where'[p] \in [Threads(p) -> Stages]
  BY <1>2 DEF Stages
<1>4. Ended(p)'
  BY <1>2 DEF Ended
<1>5. \A t \in WorkersOf(p) : where'[p][t] \in {"none", "gone"}
  BY <1>2, WorkersAreThreads
<1>. QED  BY <1>1, <1>2, <1>3, <1>4, <1>5, OneProcessMoves

\* A thread arrives in front of the barrier: it waits there, or all are released.
LEMMA ArriveKeeps ==
  ASSUME IInv, NEW p \in Processes, NEW t \in Threads(p), Arrive(p, t),
         InFront(p), ~Globally(p), where[p][t] \in {"created", "running"},
         t = MAIN => AllCreated(p)
  PROVE  IInv'
<1>0. TypeOK
  BY DEF IInv
<1>. DEFINE after == [o \in Threads(p) |->
                        IF o = t THEN IF IsLast(p) THEN "released" ELSE "waiting"
                        ELSE IF IsLast(p) /\ o \in Waiting(p) THEN "released"
                        ELSE where[p][o]]
<1>1. /\ made' = made /\ status' = status
      /\ where' = [where EXCEPT ![p] = after]
  BY DEF Arrive
<1>2. where'[p] = after
  BY <1>0, <1>1 DEF TypeOK
<1>3. where[p] \in [Threads(p) -> Stages]
  BY <1>0 DEF TypeOK
<1>4. after \in [Threads(p) -> Stages]
  BY <1>3 DEF Stages
<1>5. where' = [where EXCEPT ![p] = where'[p]]
  BY <1>0, <1>1, <1>2 DEF TypeOK
<1>6. status' = [status EXCEPT ![p] = status'[p]] /\ status'[p] = "starting"
  BY <1>0, <1>1 DEF TypeOK, InFront
<1>7. InFront(p)' \/ Behind(p)'
  <2>1. CASE IsLast(p)
    <3>1. \A o \in Threads(p) : o # t => o \in Waiting(p)
      BY <1>0, <2>1, LastFindsTheOthers
    <3>2. \A o \in Threads(p) : where'[p][o] = "released"
      BY <1>2, <2>1, <3>1
    <3>3. where'[p][MAIN] = "released"
      BY <3>2, WorkersAreThreads
    <3>4. Behind(p)'
      BY <1>6, <3>2, <3>3 DEF Behind
    <3>. QED  BY <3>4
  <2>2. CASE ~IsLast(p)
    <3>1. \A o \in Threads(p) : where'[p][o] = IF o = t THEN "waiting" ELSE where[p][o]
      BY <1>2, <2>2
    <3>2. \A o \in WorkersOf(p) : /\ where'[p][o] \in {"none", "created", "waiting"}
                                  /\ where[p][o] # "none" => where'[p][o] # "none"
      BY <3>1, WorkersAreThreads DEF InFront
    <3>3. where'[p][MAIN] \in {"running", "waiting"}
      BY <3>1, WorkersAreThreads DEF InFront
    <3>4. where'[p][MAIN] = "waiting" => AllCreated(p)'
      BY <3>1, <3>2, WorkersAreThreads DEF InFront, AllCreated
    <3>5. InFront(p)'
      BY <1>6, <3>2, <3>3, <3>4 DEF InFront
    <3>. QED  BY <3>5
  <2>. QED  BY <2>1, <2>2
<1>. HIDE DEF after
<1>. QED  BY <1>1, <1>2, <1>4, <1>5, <1>6, <1>7, OneProcessMoves

LEMMA GoKeeps ==
  ASSUME IInv, NEW p \in Processes, NEW t \in Threads(p), Go(p, t)
  PROVE  IInv'
<1>0. TypeOK /\ MadeInOrder
  BY DEF IInv
<1>1. /\ where[p][t] = "released"
      /\ made' = made
      /\ where' = [where EXCEPT ![p][t] = "running"]
      /\ status' = IF t = MAIN THEN [status EXCEPT ![p] = "started"] ELSE status
  BY DEF Go
<1>2. where[p] \in [Threads(p) -> Stages]
  BY <1>0 DEF TypeOK
<1>3. where'[p] = [where[p] EXCEPT ![t] = "running"]
  BY <1>0, <1>1 DEF TypeOK
<1>4. where'[p] \in [Threads(p) -> Stages]
  BY <1>2, <1>3 DEF Stages
<1>5. where' = [where EXCEPT ![p] = where'[p]]
  BY <1>0, <1>1, <1>3 DEF TypeOK
<1>6. /\ status' = [status EXCEPT ![p] = status'[p]]
      /\ status'[p] = IF t = MAIN THEN "started" ELSE status[p]
      /\ status'[p] \in {"starting", "started", "failed"}
  BY <1>0, <1>1 DEF TypeOK
<1>7. Behind(p)
  BY <1>1, WorkersAreThreads DEF IInv, InFront, Ended
<1>8. Behind(p)'
  <2>1. \A o \in Threads(p) : where'[p][o] = IF o = t THEN "running" ELSE where[p][o]
    BY <1>2, <1>3
  <2>2. \A o \in Threads(p) : where'[p][o] \in {"released", "running"}
    BY <1>7, <2>1 DEF Behind
  <2>3. status'[p] = IF where'[p][MAIN] = "running" THEN "started" ELSE "starting"
    BY <1>6, <1>7, <2>1, WorkersAreThreads DEF Behind
  <2>. QED  BY <2>2, <2>3 DEF Behind
<1>9. ~Globally(p)
  <2>. SUFFICES ASSUME Globally(p)  PROVE FALSE
    OBVIOUS
  <2>1. \A o \in WorkersOf(p) : where[p][o] \in {"none", "gone"}
    BY <1>0 DEF MadeInOrder
  <2>2. Workers[p][1] \in WorkersOf(p)
    BY WorkersAreThreads
  <2>. QED  BY <1>7, <2>1, <2>2, WorkersAreThreads DEF Behind
<1>. QED  BY <1>1, <1>4, <1>5, <1>6, <1>8, <1>9, OneProcessMoves

LEMMA NextKeeps == IInv /\ [Next]_vars => IInv'
<1>. SUFFICES ASSUME IInv, [Next]_vars  PROVE IInv'
  OBVIOUS
<1>0. TypeOK /\ MadeInOrder
  BY DEF IInv
<1>1. ASSUME UNCHANGED <<made, where, status>>  PROVE IInv'
  BY <1>1 DEF IInv, TypeOK, MadeInOrder, Globally, InFront, Behind, Ended, AllCreated
<1>2. ASSUME NEW p \in Processes, MainArrives(p)  PROVE IInv'
  <2>1. InFront(p) /\ ~Globally(p) /\ AllCreated(p) /\ Arrive(p, MAIN)
    BY <1>2, StartingIsInFront DEF MainArrives
  <2>2. MAIN \in Threads(p) /\ where[p][MAIN] = "running"
    BY <1>2, WorkersAreThreads DEF MainArrives, Starting
  <2>. QED  BY <2>1, <2>2, ArriveKeeps
<1>3. ASSUME NEW p \in Processes, NEW t \in WorkersOf(p), WorkerArrives(p, t)  PROVE IInv'
  <2>1. where[p][t] = "created" /\ Arrive(p, t)
    BY <1>3 DEF WorkerArrives
  <2>2. t \in Threads(p) /\ t # MAIN
    BY WorkersAreThreads
  <2>3. ~Globally(p)
    BY <1>0, <2>1 DEF MadeInOrder
  <2>4. InFront(p)
    BY <2>1, <2>2 DEF IInv, Behind, Ended
  <2>. QED  BY <2>1, <2>2, <2>3, <2>4, ArriveKeeps
<1>4. CASE WriteLine \/ GetNextStep \/ PrintCalcData \/ UNCHANGED vars
  BY <1>1, <1>4 DEF WriteLine, GetNextStep, PrintCalcData, vars
<1>. QED  BY <1>2, <1>3, <1>4, MakeGlobalKeeps, CreateWorkerKeeps, FailKeeps, GoKeeps
          DEF Next, MainStarts

\* In every state of a start each process is in front of its barrier, behind it, or gone;
\* the objects are those of the first calls of initialize_globals.
THEOREM InvariantHolds == Spec => []IInv
BY InitHolds, NextKeeps, PTL DEF Spec

-----------------------------------------------------------------------------
\* No thread touches a socket, a stock or a pack before every thread exists and has all
\* that start_listener, start_sender or start_printer handed to it.
THEOREM ThreadsStartTogether == Spec => []StartTogether
<1>. SUFFICES ASSUME IInv  PROVE StartTogether
  BY InvariantHolds, PTL
<1>0. TypeOK /\ MadeInOrder /\ \A p \in Processes : InFront(p) \/ Behind(p) \/ Ended(p)
  BY DEF IInv
<1>. SUFFICES ASSUME NEW p \in Processes, NEW t \in WorkersOf(p)
              PROVE  /\ where[p][t] = "running" =>
                          /\ \A o \in Threads(p) : where[p][o] \in {"released", "running"}
                          /\ status[p] # "failed"
                     /\ where[p][t] \in {"created", "waiting", "released", "running"}
                          => Handed[p][t] \subseteq {made[p][i] : i \in DOMAIN made[p]}
  BY DEF StartTogether
<1>1. ASSUME where[p][t] = "running"
      PROVE  /\ \A o \in Threads(p) : where[p][o] \in {"released", "running"}
             /\ status[p] # "failed"
  <2>1. t \in Threads(p)
    BY WorkersAreThreads
  <2>2. Behind(p)
    BY <1>0, <1>1, <2>1 DEF InFront, Ended
  <2>. QED  BY <2>2 DEF Behind
<1>2. ASSUME where[p][t] \in {"created", "waiting", "released", "running"}
      PROVE  Handed[p][t] \subseteq {made[p][i] : i \in DOMAIN made[p]}
  <2>1. ~Globally(p)
    BY <1>0, <1>2 DEF MadeInOrder
  <2>2. Len(made[p]) \in Nat /\ DOMAIN made[p] = 1 .. Len(made[p])
    BY <1>0 DEF TypeOK
  <2>3. Len(made[p]) = Len(Globals[p])
    BY <1>0, <2>1, <2>2, GlobalsCoverHanded DEF MadeInOrder, Globally
  <2>4. \A i \in 1 .. Len(Globals[p]) : made[p][i] = Globals[p][i]
    BY <1>0, <2>3 DEF MadeInOrder
  <2>. QED  BY <2>2, <2>3, <2>4, GlobalsCoverHanded
<1>. QED  BY <1>1, <1>2

-----------------------------------------------------------------------------
(* Numbers: induction by the least number, and powers of two by counting   *)
(* the subsets of a set.                                                   *)

\* Every set of numbers has a least one.
LEMMA LeastNumber ==
  ASSUME NEW T, T \subseteq Nat, T # {}
  PROVE  \E a \in T : \A b \in T : a <= b
<1>1. PICK a \in T : \A b \in T : ~ (<<b, a>> \in OpToRel(<, Nat))
  BY NatLessThanWellFounded, WFMin
<1>2. ASSUME NEW b \in T  PROVE a <= b
  <2>1. a \in Nat /\ b \in Nat
    OBVIOUS
  <2>2. ~ (b < a)
    BY <1>1, <2>1 DEF OpToRel
  <2>. QED  BY <2>1, <2>2
<1>. QED  BY <1>2

\* The powers of two, from the number of the subsets of a set.
LEMMA PowerIsNumber ==
  ASSUME NEW n \in Nat
  PROVE  2 ^ n = Cardinality(SUBSET (1 .. n)) /\ IsFiniteSet(SUBSET (1 .. n)) /\ 2 ^ n \in Nat
<1>1. IsFiniteSet(1 .. n) /\ Cardinality(1 .. n) = n
  BY FS_Interval
<1>2. IsFiniteSet(SUBSET (1 .. n)) /\ Cardinality(SUBSET (1 .. n)) = 2 ^ n
  BY <1>1, FS_SUBSET
<1>. QED  BY <1>2, FS_CardinalityType

\* 2 ^ 0, 2 ^ (n + 1) and 2 ^ (a + b) are what they are called.
LEMMA PowerOfZero == 2 ^ 0 = 1
<1>1. SUBSET (1 .. 0) = {{}}
  OBVIOUS
<1>2. Cardinality({{}}) = 1
  BY FS_Singleton
<1>. QED  BY <1>1, <1>2, PowerIsNumber

LEMMA PowerOfNext ==
  ASSUME NEW n \in Nat
  PROVE  2 ^ (n + 1) = 2 * 2 ^ n
<1>. DEFINE without == SUBSET (1 .. n)
            with == {A \cup {n + 1} : A \in without}
            f == [A \in without |-> A \cup {n + 1}]
<1>1. IsFiniteSet(without) /\ Cardinality(without) = 2 ^ n /\ 2 ^ n \in Nat
  BY PowerIsNumber
<1>2. f \in Bijection(without, with)
  <2>1. f \in [without -> with]
    OBVIOUS
  <2>2. ASSUME NEW A \in without, NEW B \in without, f[A] = f[B]
        PROVE  A = B
    <3>1. A \cup {n + 1} = B \cup {n + 1}
      BY <2>2
    <3>2. n + 1 \notin A /\ n + 1 \notin B
      OBVIOUS
    <3>. QED  BY <3>1, <3>2
  <2>3. \A W \in with : \E A \in without : f[A] = W
    OBVIOUS
  <2>. HIDE DEF f, with, without
  <2>. QED  BY <2>1, <2>2, <2>3, Fun_IsBij
<1>3. IsFiniteSet(with) /\ Cardinality(with) = 2 ^ n
  <2>. HIDE DEF f, with, without
  <2>. QED  BY <1>1, <1>2, FS_Bijection DEF ExistsBijection
<1>4. without \cap with = {}
  <2>1. \A A \in without : n + 1 \notin A
    OBVIOUS
  <2>2. ASSUME NEW W \in with  PROVE n + 1 \in W
    <3>1. PICK A \in without : W = A \cup {n + 1}
      OBVIOUS
    <3>. QED  BY <3>1
  <2>. QED  BY <2>1, <2>2
<1>5. without \cup with = SUBSET (1 .. n + 1)
  <2>1. \A A \in without : A \subseteq 1 .. n + 1
    OBVIOUS
  <2>2. ASSUME NEW W \in with  PROVE W \subseteq 1 .. n + 1
    <3>1. PICK A \in without : W = A \cup {n + 1}
      OBVIOUS
    <3>. QED  BY <3>1
  <2>3. ASSUME NEW A \in SUBSET (1 .. n + 1), A \notin without
        PROVE  A \in with
    <3>1. n + 1 \in A
      BY <2>3
    <3>2. A \ {n + 1} \in without
      OBVIOUS
    <3>3. A = (A \ {n + 1}) \cup {n + 1}
      BY <3>1
    <3>. QED  BY <3>2, <3>3
  <2>. QED  BY <2>1, <2>2, <2>3
<1>6. Cardinality(without \cup with) = 2 ^ n + 2 ^ n
  <2>. HIDE DEF with, without
  <2>1. Cardinality({}) = 0
    BY FS_EmptySet
  <2>. QED  BY <1>1, <1>3, <1>4, <2>1, FS_Union
<1>7. 2 ^ (n + 1) = Cardinality(SUBSET (1 .. n + 1))
  BY PowerIsNumber
<1>8. 2 ^ (n + 1) = 2 ^ n + 2 ^ n
  BY <1>5, <1>6, <1>7, Zenon
<1>. HIDE DEF with, without
<1>9. ASSUME NEW a \in Nat  PROVE a + a = 2 * a
  OBVIOUS
<1>. QED  BY <1>1, <1>8, <1>9, Zenon

LEMMA PowerOfSum ==
  ASSUME NEW a \in Nat, NEW b \in Nat
  PROVE  2 ^ (a + b) = 2 ^ a * 2 ^ b
<1>. DEFINE Fails == {n \in Nat : 2 ^ (a + n) # 2 ^ a * 2 ^ n}
<1>. SUFFICES ASSUME Fails # {}  PROVE FALSE
  OBVIOUS
<1>1. PICK n \in Fails : \A k \in Fails : n <= k
  <2>. HIDE DEF Fails
  <2>1. Fails \subseteq Nat
    BY DEF Fails
  <2>. QED  BY <2>1, LeastNumber
<1>2. 2 ^ a \in Nat /\ \A k \in Nat : 2 ^ k \in Nat
  BY PowerIsNumber
<1>3. n # 0
  <2>1. a + 0 = a
    OBVIOUS
  <2>2. 2 ^ a * 1 = 2 ^ a
    BY <1>2
  <2>. QED  BY <2>1, <2>2, PowerOfZero
<1>4. PICK k \in Nat : n = k + 1
  <2>1. n - 1 \in Nat /\ n = (n - 1) + 1
    BY <1>3
  <2>. QED  BY <2>1
<1>5. 2 ^ (a + k) = 2 ^ a * 2 ^ k
  <2>. HIDE DEF Fails
  <2>1. k \notin Fails
    <3>. ~ (n <= k)
      BY <1>4
    <3>. QED  BY <1>1
  <2>. QED  BY <2>1 DEF Fails
<1>6. a + n = (a + k) + 1 /\ a + k \in Nat
  BY <1>4
<1>7. 2 ^ (a + n) = 2 * 2 ^ (a + k)
  BY <1>6, PowerOfNext, Zenon
<1>8. 2 ^ n = 2 * 2 ^ k
  BY <1>4, PowerOfNext, Zenon
<1>9. 2 * (2 ^ a * 2 ^ k) = 2 ^ a * (2 * 2 ^ k)
  <2>1. \A u, v \in Nat : 2 * (u * v) = u * (2 * v)
    OBVIOUS
  <2>. QED  BY <1>2, <2>1
<1>. QED  BY <1>5, <1>7, <1>8, <1>9, Zenon

\* A power is at least one, and no less than a smaller one.
LEMMA PowersGrow ==
  ASSUME NEW a \in Nat, NEW b \in Nat, a <= b
  PROVE  1 <= 2 ^ a /\ 2 ^ a <= 2 ^ b
<1>1. ASSUME NEW n \in Nat  PROVE 2 ^ n \in Nat /\ 1 <= 2 ^ n
  <2>1. IsFiniteSet(SUBSET (1 .. n)) /\ Cardinality(SUBSET (1 .. n)) = 2 ^ n /\ 2 ^ n \in Nat
    BY PowerIsNumber
  <2>2. Cardinality(SUBSET (1 .. n)) # 0
    BY <2>1, FS_EmptySet
  <2>. QED  BY <2>1, <2>2
<1>2. b - a \in Nat /\ a + (b - a) = b
  OBVIOUS
<1>3. 2 ^ b = 2 ^ a * 2 ^ (b - a)
  BY <1>2, PowerOfSum, Zenon
<1>4. \A u, v \in Nat : 1 <= v => u <= u * v
  OBVIOUS
<1>. QED  BY <1>1, <1>2, <1>3, <1>4


-----------------------------------------------------------------------------
(* Rounding.                                                               *)

\* The quotient and the rest of a division.
LEMMA Division ==
  ASSUME NEW a \in Nat, NEW d \in Nat \ {0}
  PROVE  /\ a \div d \in Nat /\ a % d \in Nat
         /\ a = d * (a \div d) + (a % d) /\ a % d < d
         /\ d * (a \div d) <= a
BY SMT

\* The nearest multiple of d is no further than half of d.
LEMMA Rounded ==
  ASSUME NEW a \in Nat, NEW d \in Nat \ {0}, NEW k \in Nat,
         \/ k = a \div d /\ 2 * (a % d) <= d
         \/ k = a \div d + 1 /\ 2 * (a % d) >= d
  PROVE  2 * Distance(d * k, a) <= d
<1>. DEFINE whole == a \div d
            rest == a % d
<1>1. whole \in Nat /\ rest \in Nat /\ rest < d
  BY Division
<1>2. a = d * whole + rest
  BY Division
<1>3. d * (whole + 1) = d * whole + d
  BY <1>1, SMT
<1>4. d * whole \in Nat
  BY <1>1, SMT
<1>5. \/ k = whole /\ 2 * rest <= d
      \/ k = whole + 1 /\ 2 * rest >= d
  OBVIOUS
<1>. HIDE DEF whole, rest
<1>. DEFINE below == d * whole
<1>6. d * k = below \/ d * k = below + d
  BY <1>3, <1>5
<1>7. \/ d * k = below /\ 2 * rest <= d
      \/ d * k = below + d /\ 2 * rest >= d
  BY <1>3, <1>5
<1>. DEFINE product == d * k
<1>8. \/ product = below /\ 2 * rest <= d
      \/ product = below + d /\ 2 * rest >= d
  BY <1>7
<1>9. below \in Nat /\ a = below + rest
  BY <1>2, <1>4
<1>. HIDE DEF below, product
<1>10. 2 * Distance(product, a) <= d
  BY <1>1, <1>8, <1>9 DEF Distance
<1>. QED  BY <1>10 DEF product

\* The distance between two floats is the unit, or so small that 2 ^ (Precision - 1) of it
\* are no more than the float.
LEMMA UlpFits ==
  ASSUME NEW a \in Nat, NEW n \in Nat \ {0}, Precision <= 30, a \div n < 2 ^ 30
  PROVE  \/ Ulp(a, n) = 1 /\ a \div n < 2 ^ Precision
         \/ \E v \in Nat \ {0} : Ulp(a, n) = 2 * v /\ 2 ^ Precision * v <= a \div n
<1>. DEFINE Fits == {e \in Exponents : a \div n < 2 ^ (Precision + e)}
<1>1. Precision \in Nat /\ 30 - Precision \in Exponents /\ Exponents \subseteq Nat
  BY FloatAssumption DEF Exponents
<1>2. 30 - Precision \in Fits
  <2>1. Precision + (30 - Precision) = 30
    BY <1>1
  <2>. QED  BY <1>1, <2>1
<1>3. PICK e \in Fits : \A f \in Fits : e <= f
  <2>. HIDE DEF Fits
  <2>1. Fits \subseteq Nat
    BY <1>1 DEF Fits
  <2>. QED  BY <1>2, <2>1, LeastNumber
<1>4. e \in Nat /\ Fits \subseteq Nat
  BY <1>1
<1>5. (CHOOSE c \in Fits : \A f \in Fits : c <= f) = e
  <2>. HIDE DEF Fits
  <2>1. \A c \in Fits : (\A f \in Fits : c <= f) => c = e
    BY <1>3, <1>4
  <2>. QED  BY <1>3, <2>1
<1>6. Ulp(a, n) = 2 ^ e
  BY <1>5 DEF Ulp
<1>7. CASE e = 0
  <2>1. Precision + 0 = Precision
    BY <1>1
  <2>2. a \div n < 2 ^ (Precision + e)
    OBVIOUS
  <2>. QED  BY <1>6, <1>7, <2>1, <2>2, PowerOfZero
<1>8. CASE e # 0
  <2>. DEFINE d == e - 1
  <2>1. d \in Nat /\ e = d + 1
    BY <1>4, <1>8
  <2>2. d \notin Fits /\ d \in Exponents
    <3>1. ~ (e <= d)
      BY <2>1
    <3>2. d \in Exponents
      <4>1. e \in Exponents
        OBVIOUS
      <4>. QED  BY <1>1, <2>1, <4>1 DEF Exponents
    <3>. HIDE DEF Fits, d
    <3>. QED  BY <1>3, <3>1, <3>2
  <2>3. ~ (a \div n < 2 ^ (Precision + d))
    BY <2>2
  <2>4. 2 ^ (Precision + d) = 2 ^ Precision * 2 ^ d
    BY <1>1, <2>1, PowerOfSum
  <2>5. 2 ^ e = 2 * 2 ^ d
    <3>. HIDE DEF d
    <3>. QED  BY <2>1, PowerOfNext, Zenon
  <2>6. 2 ^ d \in Nat \ {0} /\ 2 ^ Precision \in Nat
    <3>1. 2 ^ d \in Nat /\ 2 ^ Precision \in Nat
      BY <1>1, <2>1, PowerIsNumber
    <3>2. 1 <= 2 ^ d
      BY <2>1, PowersGrow
    <3>. QED  BY <3>1, <3>2
  <2>. DEFINE v == 2 ^ d
              Q == 2 ^ Precision
  <2>7. a \div n \in Nat
    BY Division
  <2>8. Q * v <= a \div n
    <3>1. v \in Nat /\ Q \in Nat
      BY <2>6
    <3>2. ~ (a \div n < Q * v)
      BY <2>3, <2>4
    <3>. HIDE DEF v, Q
    <3>. QED  BY <2>7, <3>1, <3>2
  <2>. QED  BY <1>6, <2>5, <2>6, <2>8
<1>. QED  BY <1>7, <1>8

\* A quotient is rounded by less than one part in 2 ^ Precision.
LEMMA RoundingOfQuotient ==
  ASSUME NEW a \in Nat, NEW n \in Nat \ {0}, Precision <= 30, a \div n < 2 ^ 30,
         n = 1 \/ 2 ^ Precision <= a \div n
  PROVE  /\ FloatDiv(a, n) \in Nat
         /\ Distance(n * FloatDiv(a, n), a) * 2 ^ Precision <= a
<1>. DEFINE ulp == Ulp(a, n)
            Q == 2 ^ Precision
            d == n * ulp
            up == 2 * (a % d) > d \/ (2 * (a % d) = d /\ (a \div d) % 2 = 1)
            k == IF up THEN a \div d + 1 ELSE a \div d
<1>1. /\ ulp \in Nat \ {0}
      /\ \/ ulp = 1 /\ a \div n < Q
         \/ \E v \in Nat \ {0} : ulp = 2 * v /\ Q * v <= a \div n
  <2>1. \/ ulp = 1 /\ a \div n < Q
        \/ \E v \in Nat \ {0} : ulp = 2 * v /\ Q * v <= a \div n
    BY UlpFits
  <2>. HIDE DEF ulp, Q
  <2>. QED  BY <2>1
<1>2. FloatDiv(a, n) = k * ulp
  BY DEF FloatDiv
<1>3. d \in Nat \ {0}
  <2>. HIDE DEF ulp
  <2>. QED  BY <1>1, SMT
<1>4. /\ k \in Nat
      /\ \/ k = a \div d /\ 2 * (a % d) <= d
         \/ k = a \div d + 1 /\ 2 * (a % d) >= d
  <2>. HIDE DEF d
  <2>1. a \div d \in Nat /\ a % d \in Nat
    BY <1>3, Division
  <2>2. CASE up
    BY <1>3, <2>1, <2>2
  <2>3. CASE ~up
    BY <1>3, <2>1, <2>3
  <2>. QED  BY <2>2, <2>3
<1>5. Q \in Nat
  BY FloatAssumption, PowerIsNumber
<1>6. a \div n \in Nat /\ n * (a \div n) <= a
  BY Division
<1>. HIDE DEF k, ulp, Q
<1>7. n * (k * ulp) = d * k /\ k * ulp \in Nat /\ d * k \in Nat
  BY <1>1, <1>3, <1>4, SMT
<1>8. CASE ulp = 1 /\ a \div n < Q
  <2>1. n = 1
    BY <1>5, <1>6, <1>8 DEF Q
  <2>2. d = 1
    BY <1>8, <2>1
  <2>3. k = a
    <3>. HIDE DEF d
    <3>1. a \div 1 = a /\ a % 1 = 0
      OBVIOUS
    <3>. QED  BY <1>4, <2>2, <3>1
  <2>4. d * k = a
    BY <2>2, <2>3
  <2>5. Distance(a, a) * Q <= a
    BY <1>5 DEF Distance
  <2>. QED  BY <1>2, <1>7, <2>4, <2>5 DEF Q
<1>9. ASSUME NEW v \in Nat \ {0}, ulp = 2 * v, Q * v <= a \div n
      PROVE  Distance(n * FloatDiv(a, n), a) * Q <= a
  <2>. DEFINE far == Distance(d * k, a)
  <2>1. 2 * far <= d
    <3>. HIDE DEF d
    <3>. QED  BY <1>3, <1>4, Rounded
  <2>2. far \in Nat
    <3>. DEFINE b == d * k
    <3>1. b \in Nat
      BY <1>7
    <3>. HIDE DEF b
    <3>2. Distance(b, a) \in Nat
      BY <3>1 DEF Distance
    <3>. QED  BY <3>2 DEF b
  <2>3. d = 2 * (n * v)
    BY <1>9, SMT
  <2>. HIDE DEF far, d
  <2>4. far <= n * v
    <3>. DEFINE nv == n * v
    <3>1. nv \in Nat
      BY SMT
    <3>. HIDE DEF nv
    <3>2. far <= nv
      BY <2>1, <2>2, <2>3, <3>1 DEF nv
    <3>. QED  BY <3>2 DEF nv
  <2>5. far * Q <= (n * v) * Q
    BY <1>5, <2>2, <2>4, SMT
  <2>6. (n * v) * Q = n * (Q * v)
    BY <1>5, SMT
  <2>7. n * (Q * v) <= n * (a \div n)
    <3>. DEFINE b == Q * v
                c == a \div n
    <3>1. b \in Nat /\ c \in Nat /\ b <= c
      BY <1>5, <1>6, <1>9, SMT
    <3>. HIDE DEF b, c
    <3>2. n * b <= n * c
      BY <3>1, SMT
    <3>. QED  BY <3>2 DEF b, c
  <2>8. \A p, q, r, t \in Nat : p <= q /\ q <= r /\ r <= t => p <= t
    OBVIOUS
  <2>9. far * Q \in Nat /\ n * (Q * v) \in Nat /\ n * (a \div n) \in Nat
    BY <1>5, <1>6, <2>2, SMT
  <2>10. far * Q <= a
    BY <1>6, <2>5, <2>6, <2>7, <2>8, <2>9
  <2>. QED  BY <1>2, <1>7, <2>10 DEF far
<1>. QED  BY <1>1, <1>2, <1>7, <1>8, <1>9 DEF Q

-----------------------------------------------------------------------------
(* The step and the lines of ref.txt.                                      *)

\* What a distance bounds, and when it is bounded.
LEMMA DistanceIs ==
  ASSUME NEW a \in Nat, NEW b \in Nat
  PROVE  /\ Distance(a, b) \in Nat
         /\ a <= b + Distance(a, b) /\ b <= a + Distance(a, b)
         /\ \A d \in Nat : a <= b + d /\ b <= a + d => Distance(a, b) <= d
BY DEF Distance

\* What NSTEP and time_end promise of a step and of the roundings.
LEMMA StepAndRounding ==
  ASSUME NEW T \in TimeEnds, NEW n \in NSTEPs,
         NEW s, s = FloatDiv(T, n), NEW E, E = (T + s) \div 2 ^ Precision
  PROVE  /\ T \in Nat /\ n \in Nat \ {0} /\ s \in Nat /\ E \in Nat
         /\ 2 <= s
         /\ 2 * ((n + 1) * E) < s
         /\ Distance(n * s, T) <= E
         /\ \A c \in Nat : c <= T + s => /\ FloatDiv(c, 1) \in Nat
                                         /\ Distance(FloatDiv(c, 1), c) <= E
<1>. DEFINE Q == 2 ^ Precision
            W == 2 ^ 30
            N == n + 1
            far == Distance(n * s, T)
<1>1. /\ T \in Nat /\ n \in Nat \ {0} /\ Q <= T \div n
      /\ 4 * T <= W /\ 4 * (N * N) <= Q
  BY StartupAssumption
<1>2. Precision \in Nat /\ Q \in Nat /\ W \in Nat
  BY FloatAssumption, PowerIsNumber
<1>3. T \div n \in Nat /\ n * (T \div n) <= T
  BY <1>1, Division
<1>4. 16 <= Q /\ n * Q <= T
  <2>1. 4 <= N * N
    <3>. HIDE DEF Q, W
    <3>. QED  BY <1>1, SMT
  <2>2. N * N \in Nat
    BY <1>1, SMT
  <2>. DEFINE NN == N * N
              quotient == T \div n
  <2>3. 4 <= NN /\ NN \in Nat /\ 4 * NN <= Q
    BY <1>1, <2>1, <2>2
  <2>. HIDE DEF NN, N, Q
  <2>4. 16 <= Q
    BY <1>2, <2>3
  <2>5. quotient \in Nat /\ Q <= quotient /\ n * quotient <= T
    BY <1>1, <1>3
  <2>. HIDE DEF quotient
  <2>6. n * Q <= n * quotient
    BY <1>1, <1>2, <2>5, SMT
  <2>7. n * Q \in Nat /\ n * quotient \in Nat
    BY <1>1, <1>2, <2>5, SMT
  <2>8. n * Q <= T
    BY <1>1, <2>5, <2>6, <2>7
  <2>. QED  BY <2>4, <2>8
<1>5. 16 <= T /\ Q <= T
  <2>. HIDE DEF Q, W, N
  <2>1. Q <= n * Q
    BY <1>1, <1>2, SMT
  <2>2. n * Q \in Nat
    BY <1>1, <1>2, SMT
  <2>. QED  BY <1>1, <1>2, <1>4, <2>1, <2>2
<1>6. Precision <= 30
  <2>. SUFFICES ASSUME 30 <= Precision  PROVE FALSE
    BY <1>2
  <2>1. W <= Q
    BY <1>2, PowersGrow
  <2>. HIDE DEF W, Q, N
  <2>. QED  BY <1>1, <1>2, <1>5, <2>1
<1>7. T \div n < W
  <2>. DEFINE quotient == T \div n
  <2>1. quotient \in Nat /\ n * quotient <= T
    BY <1>3
  <2>. HIDE DEF quotient, W, Q, N
  <2>2. quotient <= n * quotient /\ n * quotient \in Nat
    BY <1>1, <2>1, SMT
  <2>3. quotient < W
    BY <1>1, <1>2, <1>5, <2>1, <2>2
  <2>. QED  BY <2>3 DEF quotient
<1>8. s \in Nat /\ far * Q <= T
  <2>1. /\ FloatDiv(T, n) \in Nat
        /\ Distance(n * FloatDiv(T, n), T) * 2 ^ Precision <= T
    BY <1>1, <1>6, <1>7, RoundingOfQuotient
  <2>. QED  BY <2>1
<1>. HIDE DEF Q, W, N
<1>9. n * s \in Nat /\ s <= n * s
  BY <1>1, <1>8, SMT
<1>10. far \in Nat /\ n * s <= T + far /\ T <= n * s + far
  BY <1>1, <1>9, DistanceIs
<1>. HIDE DEF far
<1>11. far <= T
  <2>. DEFINE farQ == far * Q
  <2>1. far <= farQ /\ farQ \in Nat
    BY <1>2, <1>4, <1>10, SMT
  <2>2. farQ <= T
    BY <1>8
  <2>. HIDE DEF farQ
  <2>. QED  BY <1>1, <1>10, <2>1, <2>2
<1>12. T + s < W
  BY <1>1, <1>2, <1>5, <1>8, <1>9, <1>10, <1>11
<1>13. E \in Nat /\ Q * E <= T + s /\ T + s < Q * E + Q
  <2>1. T + s \in Nat /\ Q \in Nat \ {0}
    BY <1>1, <1>2, <1>4, <1>8
  <2>2. /\ (T + s) \div Q \in Nat /\ (T + s) % Q \in Nat /\ (T + s) % Q < Q
        /\ T + s = Q * ((T + s) \div Q) + ((T + s) % Q)
        /\ Q * ((T + s) \div Q) <= T + s
    BY <2>1, Division
  <2>3. E = (T + s) \div Q
    BY DEF Q
  <2>4. E \in Nat /\ Q * E \in Nat
    <3>1. E \in Nat
      BY <2>2, <2>3
    <3>. QED  BY <2>1, <3>1, SMT
  <2>. DEFINE rest == (T + s) % Q
              QE == Q * E
  <2>5. rest \in Nat /\ rest < Q /\ T + s = QE + rest /\ QE \in Nat
    BY <2>2, <2>3, <2>4
  <2>. HIDE DEF rest, QE
  <2>6. T + s < QE + Q
    BY <1>2, <2>5
  <2>. QED  BY <2>2, <2>3, <2>4, <2>6 DEF QE
<1>14. ASSUME NEW f \in Nat, NEW c \in Nat, c <= T + s, f * Q <= c
       PROVE  f <= E
  <2>. SUFFICES ASSUME E + 1 <= f  PROVE FALSE
    BY <1>13
  <2>1. Q * (E + 1) <= f * Q
    BY <1>2, <1>13, SMT
  <2>2. Q * (E + 1) = Q * E + Q
    BY <1>2, <1>13, SMT
  <2>3. f * Q \in Nat /\ Q * E \in Nat
    BY <1>2, <1>13, SMT
  <2>. QED  BY <1>1, <1>2, <1>8, <1>13, <1>14, <2>1, <2>2, <2>3
<1>15. far <= E
  BY <1>1, <1>8, <1>10, <1>14
<1>16. ASSUME NEW c \in Nat, c <= T + s
       PROVE  FloatDiv(c, 1) \in Nat /\ Distance(FloatDiv(c, 1), c) <= E
  <2>1. c \div 1 = c
    OBVIOUS
  <2>2. c < W
    BY <1>1, <1>2, <1>8, <1>12, <1>16
  <2>3. /\ FloatDiv(c, 1) \in Nat
        /\ Distance(1 * FloatDiv(c, 1), c) * Q <= c
    BY <1>6, <2>1, <2>2, RoundingOfQuotient DEF Q, W
  <2>4. 1 * FloatDiv(c, 1) = FloatDiv(c, 1)
    BY <2>3
  <2>5. Distance(FloatDiv(c, 1), c) \in Nat
    BY <2>3, DistanceIs
  <2>. QED  BY <1>14, <1>16, <2>3, <2>4, <2>5
<1>17. N \in Nat /\ n + 1 = N /\ 2 <= N
  BY <1>1 DEF N
<1>18. 2 * (N * E) < s
  <2>. DEFINE NE == N * E
              NNE == N * NE
  <2>1. NE \in Nat /\ NNE \in Nat
    BY <1>13, <1>17, SMT
  <2>. SUFFICES ASSUME s <= 2 * NE  PROVE FALSE
    BY <1>8, <2>1
  <2>2. 4 * NNE <= Q * E
    <3>1. (4 * (N * N)) * E <= Q * E
      <4>. DEFINE NN == 4 * (N * N)
      <4>1. NN \in Nat /\ NN <= Q
        BY <1>1, <1>17, SMT
      <4>. HIDE DEF NN
      <4>2. NN * E <= Q * E
        BY <1>2, <1>13, <4>1, SMT
      <4>. QED  BY <4>2 DEF NN
    <3>2. (4 * (N * N)) * E = 4 * NNE
      BY <1>13, <1>17, SMT
    <3>. QED  BY <3>1, <3>2
  <2>3. N * s <= 2 * NNE
    <3>1. N * s <= N * (2 * NE)
      <4>. HIDE DEF NE
      <4>. QED  BY <1>8, <1>17, <2>1, SMT
    <3>2. N * (2 * NE) = 2 * NNE
      <4>. HIDE DEF NE
      <4>. QED  BY <1>17, <2>1, SMT
    <3>. QED  BY <3>1, <3>2
  <2>4. N * s = n * s + s
    <3>1. (n + 1) * s = n * s + s
      BY <1>1, <1>8, SMT
    <3>. QED  BY <1>17, <3>1
  <2>5. Q * E <= 2 * NNE + E
    <3>. DEFINE ns == n * s
                QE == Q * E
    <3>1. ns \in Nat /\ QE \in Nat
      BY <1>2, <1>9, <1>13, SMT
    <3>2. T <= ns + E
      <4>1. T <= ns + far
        BY <1>10
      <4>. HIDE DEF ns
      <4>. QED  BY <1>1, <1>10, <1>13, <1>15, <3>1, <4>1
    <3>3. ns + s <= 2 * NNE
      BY <2>3, <2>4
    <3>4. QE <= T + s
      BY <1>13
    <3>. HIDE DEF ns, QE, NNE
    <3>5. E \in Nat /\ s \in Nat /\ T \in Nat
      BY <1>1, <1>8, <1>13
    <3>6. QE <= 2 * NNE + E
      BY <2>1, <3>1, <3>2, <3>3, <3>4, <3>5
    <3>. QED  BY <3>6 DEF QE
  <2>6. 2 * NE <= NNE /\ 2 * E <= NE
    <3>1. 2 * E <= N * E
      BY <1>13, <1>17, SMT
    <3>2. 2 * NE <= N * NE
      <4>. HIDE DEF NE
      <4>. QED  BY <1>17, <2>1, SMT
    <3>. QED  BY <3>1, <3>2
  <2>7. E = 0
    <3>. DEFINE QE == Q * E
    <3>1. QE \in Nat
      BY <1>2, <1>13, SMT
    <3>2. 4 * NNE <= QE /\ QE <= 2 * NNE + E
      BY <2>2, <2>5
    <3>. HIDE DEF QE, NNE, NE
    <3>. QED  BY <1>13, <2>1, <2>6, <3>1, <3>2
  <2>8. s = 0
    <3>1. NE = 0
      BY <1>17, <2>7, SMT
    <3>. QED  BY <1>8, <3>1
  <2>9. n * s = 0
    BY <1>1, <2>8, SMT
  <2>. QED  BY <1>1, <1>5, <1>10, <1>15, <2>7, <2>9
<1>19. 2 <= s
  <2>. SUFFICES ASSUME s <= 1  PROVE FALSE
    BY <1>8
  <2>1. E <= N * E /\ N * E \in Nat
    BY <1>13, <1>17, SMT
  <2>2. E = 0
    BY <1>8, <1>13, <1>18, <2>1
  <2>3. n * s <= n
    BY <1>1, <1>8, SMT
  <2>4. T <= n
    BY <1>1, <1>9, <1>10, <1>15, <2>2, <2>3
  <2>5. n * 16 <= n * Q
    BY <1>1, <1>2, <1>4, SMT
  <2>6. n * Q \in Nat
    BY <1>1, <1>2, SMT
  <2>. QED  BY <1>1, <1>4, <2>4, <2>5, <2>6
<1>20. 2 * ((n + 1) * E) < s
  BY <1>18 DEF N
<1>21. Distance(n * s, T) <= E
  BY <1>15 DEF far
<1>. QED  BY <1>1, <1>8, <1>13, <1>16, <1>19, <1>20, <1>21

\* A line more: no further from its time than a rounding more, and the last within NSTEP
\* and NSTEP + 1.
LEMMA NextLine ==
  ASSUME NEW T \in TimeEnds, NEW n \in NSTEPs,
         NEW s, s = FloatDiv(T, n), NEW E, E = (T + s) \div 2 ^ Precision,
         NEW lines \in Nat \ {0}, lines <= n + 1,
         NEW a \in Nat, a <= T, Distance(a, (lines - 1) * s) <= (lines - 1) * E
  PROVE  /\ FloatAdd(a, s) \in Nat
         /\ Distance(FloatAdd(a, s), lines * s) <= lines * E
         /\ FloatAdd(a, s) <= T => lines <= n
         /\ T < FloatAdd(a, s) => n <= lines
<1>. DEFINE t == FloatAdd(a, s)
            before == lines - 1
            NE == (n + 1) * E
            ns == n * s
            here == before * s
            roundings == before * E
<1>1. /\ T \in Nat /\ n \in Nat \ {0} /\ s \in Nat /\ E \in Nat /\ 2 <= s
      /\ 2 * NE < s /\ Distance(ns, T) <= E
      /\ \A c \in Nat : c <= T + s => /\ FloatDiv(c, 1) \in Nat
                                      /\ Distance(FloatDiv(c, 1), c) <= E
  BY StepAndRounding
<1>2. before \in Nat /\ lines = before + 1
  OBVIOUS
<1>3. ns \in Nat /\ here \in Nat /\ roundings \in Nat /\ NE \in Nat
  <2>. HIDE DEF before
  <2>. QED  BY <1>1, <1>2, SMT
<1>4. t \in Nat /\ Distance(t, a + s) <= E
  BY <1>1 DEF FloatAdd
<1>5. t <= a + s + E /\ a + s <= t + E
  <2>. HIDE DEF t
  <2>1. a + s \in Nat
    BY <1>1
  <2>2. /\ Distance(t, a + s) \in Nat /\ t <= (a + s) + Distance(t, a + s)
        /\ a + s <= t + Distance(t, a + s)
    BY <1>4, <2>1, DistanceIs
  <2>. QED  BY <1>1, <1>4, <2>2
<1>6. a <= here + roundings /\ here <= a + roundings
  <2>. HIDE DEF here, roundings
  <2>1. Distance(a, here) <= roundings
    BY DEF here, roundings
  <2>2. Distance(a, here) \in Nat /\ a <= here + Distance(a, here) /\ here <= a + Distance(a, here)
    BY <1>3, DistanceIs
  <2>. QED  BY <1>3, <2>1, <2>2
<1>7. ns <= T + E /\ T <= ns + E
  <2>. HIDE DEF ns
  <2>1. Distance(ns, T) \in Nat /\ ns <= T + Distance(ns, T) /\ T <= ns + Distance(ns, T)
    BY <1>1, <1>3, DistanceIs
  <2>. QED  BY <1>1, <1>3, <2>1
<1>8. lines * s = here + s /\ lines * E = roundings + E
  <2>. HIDE DEF before
  <2>1. (before + 1) * s = before * s + s /\ (before + 1) * E = before * E + E
    BY <1>1, <1>2, SMT
  <2>. QED  BY <1>2, <2>1
<1>9. E <= NE
  BY <1>1, SMT
<1>10. Distance(t, lines * s) <= lines * E
  <2>. HIDE DEF t, here, roundings
  <2>1. here + s \in Nat /\ roundings + E \in Nat
    BY <1>1, <1>3
  <2>2. t <= (here + s) + (roundings + E) /\ here + s <= t + (roundings + E)
    BY <1>1, <1>3, <1>4, <1>5, <1>6
  <2>3. Distance(t, here + s) <= roundings + E
    BY <1>4, <2>1, <2>2, DistanceIs
  <2>. QED  BY <1>8, <2>3
<1>11. ASSUME t <= T  PROVE lines <= n
  <2>. SUFFICES ASSUME lines = n + 1  PROVE FALSE
    BY <1>1
  <2>1. before = n
    BY <1>1
  <2>2. here = ns /\ roundings + E = NE
    BY <1>2, <1>8, <2>1
  <2>. HIDE DEF t, here, roundings, ns, NE
  <2>. QED  BY <1>1, <1>3, <1>4, <1>5, <1>6, <1>7, <1>9, <1>11, <2>2
<1>12. ASSUME T < t  PROVE n <= lines
  <2>. SUFFICES ASSUME lines + 1 <= n  PROVE FALSE
    BY <1>1
  <2>1. lines * s + s <= ns
    <3>1. (lines + 1) * s <= n * s
      BY <1>1, SMT
    <3>2. (lines + 1) * s = lines * s + s
      BY <1>1, SMT
    <3>. QED  BY <3>1, <3>2
  <2>2. lines * E <= NE
    BY <1>1, SMT
  <2>. HIDE DEF t, here, roundings, ns, NE
  <2>. QED  BY <1>1, <1>3, <1>4, <1>5, <1>6, <1>7, <1>8, <1>9, <1>12, <2>1, <2>2
<1>. QED  BY <1>4, <1>10, <1>11, <1>12

\* Half a step is more than the roundings of a stage and of the end of the step.
LEMMA StagesFollow ==
  ASSUME NEW T \in TimeEnds, NEW n \in NSTEPs, NEW s, s = FloatDiv(T, n),
         NEW a \in Nat, a <= T
  PROVE  a < FloatAdd(a, s \div 2) /\ FloatAdd(a, s \div 2) < FloatAdd(a, s)
<1>. DEFINE E == (T + s) \div 2 ^ Precision
            h == s \div 2
            NE == (n + 1) * E
            middle == FloatAdd(a, h)
            t == FloatAdd(a, s)
<1>1. /\ T \in Nat /\ n \in Nat \ {0} /\ s \in Nat /\ E \in Nat /\ 2 <= s
      /\ 2 * NE < s
      /\ \A c \in Nat : c <= T + s => /\ FloatDiv(c, 1) \in Nat
                                      /\ Distance(FloatDiv(c, 1), c) <= E
  BY StepAndRounding
<1>2. h \in Nat /\ 2 * h <= s /\ s <= 2 * h + 1
  BY <1>1
<1>. HIDE DEF E, h
<1>3. 2 * E <= NE /\ NE \in Nat
  BY <1>1, SMT
<1>4. middle \in Nat /\ Distance(middle, a + h) <= E
  BY <1>1, <1>2 DEF FloatAdd
<1>5. t \in Nat /\ Distance(t, a + s) <= E
  BY <1>1 DEF FloatAdd
<1>. HIDE DEF middle, t, NE
<1>6. /\ Distance(middle, a + h) \in Nat /\ Distance(t, a + s) \in Nat
      /\ middle <= a + h + Distance(middle, a + h) /\ a + h <= middle + Distance(middle, a + h)
      /\ a + s <= t + Distance(t, a + s)
  <2>1. a + h \in Nat /\ a + s \in Nat
    BY <1>1, <1>2
  <2>. QED  BY <1>4, <1>5, <2>1, DistanceIs
<1>7. a < middle /\ middle < t
  BY <1>1, <1>2, <1>3, <1>4, <1>5, <1>6
<1>. QED  BY <1>7 DEF middle, t, h

-----------------------------------------------------------------------------
(* The times, by an invariant of their own.                                *)

\* main begins with nothing but the parameters of calc_data.
LEMMA ClockInitHolds == Init => ClockInv
<1>. SUFFICES ASSUME Init  PROVE ClockInv
  OBVIOUS
<1>1. /\ made["client"] = <<>> /\ at = "ref" /\ times = <<>> /\ steps = 0 /\ printer_from = TRUE
      /\ calc_data \in [time_end : TimeEnds, nstep : NSTEPs, step : {0}, curr_time : {0}]
  BY DEF Init, Processes
<1>2. StepIsSet
  BY <1>1 DEF StepIsSet
<1>3. LinesAreOnTime
  <2>1. calc_data.nstep \in NSTEPs /\ calc_data.time_end \in TimeEnds
    BY <1>1
  <2>2. calc_data.nstep \in Nat
    BY <2>1, StartupAssumption
  <2>. QED  BY <1>1, <2>2 DEF LinesAreOnTime
<1>4. StepsFollowLines
  BY <1>1 DEF StepsFollowLines
<1>. QED  BY <1>1, <1>2, <1>3, <1>4 DEF ClockInv, ClockWaits

\* Behind the barrier the step is set.
LEMMA RunsWithStep ==
  ASSUME IInv, ClockInv, ClientRuns
  PROVE  calc_data.step = FloatDiv(calc_data.time_end, calc_data.nstep)
<1>. DEFINE p == "client"
<1>0. TypeOK /\ MadeInOrder /\ (InFront(p) \/ Behind(p) \/ Ended(p)) /\ p \in Processes
  BY DEF IInv, Processes
<1>1. Behind(p)
  BY <1>0 DEF ClientRuns, InFront, Ended
<1>2. ~Globally(p)
  <2>1. Workers[p][1] \in WorkersOf(p) /\ Workers[p][1] \in Threads(p)
    BY <1>0, WorkersAreThreads
  <2>. QED  BY <1>0, <1>1, <2>1 DEF MadeInOrder, Behind
<1>3. Len(Globals[p]) = 13 /\ Globals[p][8] = "calc_data"
  BY DEF Globals
<1>4. Len(made[p]) \in Nat
  BY <1>0 DEF TypeOK
<1>5. 8 \in 1 .. Len(made[p])
  BY <1>2, <1>3, <1>4 DEF Globally
<1>. QED  BY <1>3, <1>5 DEF ClockInv, StepIsSet

\* Nothing but the client's main touches the clock.
LEMMA ClockStays ==
  ASSUME ClockInv, UNCHANGED clock, UNCHANGED made, ClientRuns => ClientRuns'
  PROVE  ClockInv'
BY DEF ClockInv, clock, StepIsSet, ClockWaits, LinesAreOnTime, StepsFollowLines, Rounding

\* init_calc_data divides the end by the number of the intervals.
LEMMA MakeGlobalKeepsClock ==
  ASSUME IInv, ClockInv, NEW p \in Processes, MakeGlobal(p)
  PROVE  ClockInv'
<1>. DEFINE next == Globals[p][Len(made[p]) + 1]
<1>0. TypeOK /\ MadeInOrder /\ Len(made[p]) \in Nat /\ Len(Globals[p]) \in Nat
  BY DEF IInv, TypeOK, Globals, Processes
<1>1. /\ Starting(p) /\ Len(made[p]) < Len(Globals[p])
      /\ made' = [made EXCEPT ![p] = Append(made[p], next)]
      /\ calc_data' = IF next # "calc_data" THEN calc_data
                      ELSE [calc_data EXCEPT !.step = FloatDiv(calc_data.time_end,
                                                               Intervals(calc_data.nstep))]
      /\ where' = where /\ status' = status /\ at' = at /\ steps' = steps
      /\ times' = times /\ printer_from' = printer_from
  BY DEF MakeGlobal, Globally
<1>2. made'[p] = Append(made[p], next) /\ \A q \in Processes \ {p} : made'[q] = made[q]
  BY <1>0, <1>1 DEF TypeOK
<1>3. Len(made'[p]) = Len(made[p]) + 1
  <2>1. made[p] \in Seq(Objects(p))
    BY <1>0 DEF TypeOK
  <2>. QED  BY <1>2, <2>1
<1>4. next = "calc_data" => p = "client"
  <2>. SUFFICES ASSUME p = "server"  PROVE next # "calc_data"
    BY DEF Processes
  <2>1. Len(Globals[p]) = 7 /\ \A i \in 1 .. 7 : Globals[p][i] # "calc_data"
    BY DEF Globals
  <2>2. Len(made[p]) + 1 \in 1 .. 7
    BY <1>0, <1>1, <2>1
  <2>. QED  BY <2>1, <2>2
<1>5. ClockWaits'
  BY <1>1 DEF ClockInv, ClockWaits, ClientRuns
<1>6. CASE next # "calc_data"
  <2>1. calc_data' = calc_data
    BY <1>1, <1>6
  <2>2. StepIsSet'
    <3>1. ASSUME NEW i \in 1 .. Len(made'["client"]), Globals["client"][i] = "calc_data"
          PROVE  i \in 1 .. Len(made["client"])
      <4>1. CASE p = "client"
        BY <1>0, <1>3, <1>6, <3>1, <4>1
      <4>2. CASE p # "client"
        BY <1>2, <3>1, <4>2 DEF Processes
      <4>. QED  BY <4>1, <4>2
    <3>. QED  BY <2>1, <3>1 DEF ClockInv, StepIsSet
  <2>3. LinesAreOnTime' /\ StepsFollowLines'
    BY <1>1, <2>1 DEF ClockInv, LinesAreOnTime, StepsFollowLines, Rounding
  <2>. QED  BY <1>5, <2>2, <2>3 DEF ClockInv
<1>7. CASE next = "calc_data"
  <2>1. times = <<>> /\ at = "ref" /\ steps = 0
    BY <1>1, <1>4, <1>7 DEF Starting, ClockInv, ClockWaits, ClientRuns
  <2>2. calc_data \in [time_end : TimeEnds, nstep : NSTEPs, step : Nat, curr_time : Nat]
    BY DEF ClockInv, StepIsSet
  <2>3. PICK T \in TimeEnds, n \in NSTEPs : T = calc_data.time_end /\ n = calc_data.nstep
    BY <2>2
  <2>4. FloatDiv(T, n) \in Nat /\ n \in Nat
    BY StepAndRounding
  <2>5. calc_data' = [calc_data EXCEPT !.step = FloatDiv(T, n)]
    BY <1>1, <1>7, <2>3 DEF Intervals
  <2>6. /\ calc_data' \in [time_end : TimeEnds, nstep : NSTEPs, step : Nat, curr_time : Nat]
        /\ calc_data'.time_end = T /\ calc_data'.nstep = n
        /\ calc_data'.step = FloatDiv(T, n) /\ calc_data'.curr_time = calc_data.curr_time
    BY <2>2, <2>3, <2>4, <2>5
  <2>7. StepIsSet'
    BY <2>6 DEF StepIsSet
  <2>8. LinesAreOnTime'
    BY <1>1, <2>1, <2>4, <2>6 DEF LinesAreOnTime
  <2>9. StepsFollowLines'
    BY <1>1, <2>1, <2>6 DEF ClockInv, StepsFollowLines
  <2>. QED  BY <1>5, <2>7, <2>8, <2>9 DEF ClockInv
<1>. QED  BY <1>6, <1>7

\* calc_ref writes a line more, or has come to the end with lines enough.
LEMMA WriteLineKeepsClock ==
  ASSUME IInv, ClockInv, WriteLine
  PROVE  ClockInv'
<1>0. ClientRuns /\ at = "ref" /\ StepIsSet /\ LinesAreOnTime /\ StepsFollowLines
  BY DEF WriteLine, ClockInv
<1>1. /\ calc_data' = calc_data /\ steps' = steps /\ printer_from' = printer_from
      /\ made' = made /\ status' = status
  BY DEF WriteLine
<1>2. calc_data.time_end \in TimeEnds /\ calc_data.nstep \in NSTEPs
  BY <1>0 DEF StepIsSet
<1>3. PICK T \in TimeEnds, n \in NSTEPs, s \in {calc_data.step}, E \in {Rounding} :
        T = calc_data.time_end /\ n = calc_data.nstep
  BY <1>2
<1>4. s = calc_data.step /\ E = Rounding
  OBVIOUS
<1>5. s = FloatDiv(T, n) /\ E = (T + s) \div 2 ^ Precision
  BY <1>0, <1>3, <1>4, RunsWithStep DEF Rounding
<1>6. /\ T \in Nat /\ n \in Nat \ {0} /\ s \in Nat /\ E \in Nat
  BY <1>5, StepAndRounding
<1>7. PICK lines \in Nat : lines = Len(times) /\ DOMAIN times = 1 .. lines
  BY <1>0 DEF LinesAreOnTime
<1>8. /\ times \in Seq(Nat)
      /\ lines <= n + 1
      /\ times # <<>> => times[1] = 0
      /\ \A i \in 1 .. lines - 1 : times[i + 1] = FloatAdd(times[i], s)
      /\ \A i \in 1 .. lines : /\ times[i] <= T
                               /\ Distance(times[i], (i - 1) * s) <= (i - 1) * E
  BY <1>0, <1>3, <1>4, <1>7 DEF LinesAreOnTime
<1>9. times # <<>> => lines # 0
  BY <1>7, <1>8
<1>10. PICK t \in {t_ref} : TRUE
  OBVIOUS
<1>11. t = t_ref
  OBVIOUS
<1>12. CASE times = <<>>
  <2>1. t = 0
    BY <1>11, <1>12 DEF t_ref
  <2>2. times' = <<0>> /\ at' = "ref"
    BY <1>0, <1>3, <1>6, <1>11, <1>12, <2>1 DEF WriteLine
  <2>3. Distance(0, (1 - 1) * s) <= (1 - 1) * E
    <3>1. (1 - 1) * s = 0 /\ (1 - 1) * E = 0
      BY <1>6
    <3>. QED  BY <3>1 DEF Distance
  <2>4. LinesAreOnTime'
    <3>1. calc_data'.nstep = n /\ calc_data'.step = s /\ calc_data'.time_end = T /\ Rounding' = E
      BY <1>1, <1>3, <1>4 DEF Rounding
    <3>2. Len(times') = 1 /\ times' \in Seq(Nat) /\ times'[1] = 0
      BY <2>2
    <3>. QED  BY <1>6, <2>3, <3>1, <3>2 DEF LinesAreOnTime
  <2>5. StepIsSet' /\ ClockWaits' /\ StepsFollowLines'
    BY <1>0, <1>1, <2>2 DEF StepIsSet, ClockWaits, ClientRuns, StepsFollowLines
  <2>. QED  BY <2>4, <2>5 DEF ClockInv
<1>13. CASE times # <<>>
  <2>. DEFINE a == times[lines]
  <2>1. lines \in Nat \ {0} /\ a \in Nat
    BY <1>7, <1>8, <1>9, <1>13
  <2>2. t = FloatAdd(a, s)
    BY <1>4, <1>7, <1>11, <1>13 DEF t_ref
  <2>3. a <= T /\ Distance(a, (lines - 1) * s) <= (lines - 1) * E
    BY <1>8, <2>1
  <2>4. PICK b \in Nat : b = a
    BY <2>1
  <2>5. /\ FloatAdd(b, s) \in Nat
        /\ Distance(FloatAdd(b, s), lines * s) <= lines * E
        /\ FloatAdd(b, s) <= T => lines <= n
        /\ T < FloatAdd(b, s) => n <= lines
    <3>1. b <= T /\ Distance(b, (lines - 1) * s) <= (lines - 1) * E
      BY <2>3, <2>4
    <3>. HIDE DEF a
    <3>. QED  BY <1>5, <1>8, <2>1, <3>1, NextLine
  <2>6. /\ t \in Nat
        /\ Distance(t, lines * s) <= lines * E
        /\ t <= T => lines <= n
        /\ T < t => n <= lines
    BY <2>2, <2>4, <2>5
  <2>7. CASE t <= T
    <3>1. times' = Append(times, t) /\ at' = "ref"
      BY <1>0, <1>3, <1>11, <2>7 DEF WriteLine
    <3>2. /\ Len(times') = lines + 1 /\ times' \in Seq(Nat)
          /\ \A i \in 1 .. lines : times'[i] = times[i]
          /\ times'[lines + 1] = t
      BY <1>7, <1>8, <2>6, <3>1
    <3>3. LinesAreOnTime'
      <4>1. calc_data'.nstep = n /\ calc_data'.step = s /\ calc_data'.time_end = T /\ Rounding' = E
        BY <1>1, <1>3, <1>4 DEF Rounding
      <4>2. Len(times') <= n + 1
        BY <1>6, <2>1, <2>6, <2>7, <3>2
      <4>3. times'[1] = 0
        BY <1>8, <1>13, <2>1, <3>2
      <4>4. ASSUME NEW i \in 1 .. Len(times') - 1
            PROVE  times'[i + 1] = FloatAdd(times'[i], s)
        <5>1. CASE i = lines
          BY <2>1, <2>2, <3>2, <5>1
        <5>2. CASE i # lines
          <6>1. i \in 1 .. lines - 1 /\ i + 1 \in 1 .. lines /\ i \in 1 .. lines
            BY <2>1, <3>2, <5>2
          <6>. QED  BY <1>8, <3>2, <6>1
        <5>. QED  BY <5>1, <5>2
      <4>5. ASSUME NEW i \in 1 .. Len(times')
            PROVE  /\ times'[i] <= T
                   /\ Distance(times'[i], (i - 1) * s) <= (i - 1) * E
        <5>1. CASE i = lines + 1
          <6>1. i - 1 = lines
            BY <2>1, <5>1
          <6>. QED  BY <2>6, <2>7, <3>2, <5>1, <6>1
        <5>2. CASE i # lines + 1
          <6>1. i \in 1 .. lines
            BY <2>1, <3>2, <5>2
          <6>. QED  BY <1>8, <3>2, <6>1
        <5>. QED  BY <5>1, <5>2
      <4>. QED  BY <3>2, <4>1, <4>2, <4>3, <4>4, <4>5 DEF LinesAreOnTime
    <3>4. StepIsSet' /\ ClockWaits' /\ StepsFollowLines'
      BY <1>0, <1>1, <3>1 DEF StepIsSet, ClockWaits, ClientRuns, StepsFollowLines
    <3>. QED  BY <3>3, <3>4 DEF ClockInv
  <2>8. CASE ~(t <= T)
    <3>1. times' = times /\ at' = "step" /\ n <= lines
      <4>1. T < t
        BY <1>6, <2>6, <2>8
      <4>. QED  BY <1>0, <1>3, <1>11, <2>6, <2>8, <4>1 DEF WriteLine
    <3>2. 2 <= lines
      <4>. SUFFICES ASSUME lines = 1  PROVE FALSE
        BY <2>1
      <4>1. n = 1 /\ a = 0
        BY <1>6, <1>8, <1>13, <3>1
      <4>2. s = T /\ 0 + s = T
        BY <1>5, <1>6, <4>1, StartupAssumption DEF IsFloat
      <4>3. t = FloatDiv(T, 1)
        BY <2>2, <4>1, <4>2 DEF FloatAdd
      <4>4. t = T
        BY <4>3, StartupAssumption DEF IsFloat
      <4>. QED  BY <1>6, <2>8, <4>4
    <3>3. LinesAreOnTime' /\ StepIsSet' /\ ClockWaits'
      BY <1>0, <1>1, <3>1 DEF LinesAreOnTime, Rounding, StepIsSet, ClockWaits, ClientRuns
    <3>4. StepsFollowLines'
      BY <1>0, <1>1, <1>3, <1>7, <3>1, <3>2 DEF StepsFollowLines
    <3>. QED  BY <3>3, <3>4 DEF ClockInv
  <2>. QED  BY <2>7, <2>8
<1>. QED  BY <1>12, <1>13

\* get_next_step begins and ends a step at two lines.
LEMMA GetNextStepKeepsClock ==
  ASSUME IInv, ClockInv, GetNextStep
  PROVE  ClockInv'
<1>0. /\ ClientRuns /\ at = "step" /\ calc_data.curr_time <= calc_data.time_end
      /\ StepIsSet /\ LinesAreOnTime /\ StepsFollowLines
  BY DEF GetNextStep, ClockInv, x
<1>1. /\ calc_data' = [calc_data EXCEPT !.curr_time = FloatAdd(calc_data.curr_time, calc_data.step)]
      /\ steps' = steps + 1 /\ at' = "print"
      /\ made' = made /\ status' = status /\ times' = times /\ printer_from' = printer_from
  BY DEF GetNextStep, EndOfStep, x
<1>2. calc_data \in [time_end : TimeEnds, nstep : NSTEPs, step : Nat, curr_time : Nat]
  BY <1>0 DEF StepIsSet
<1>3. FloatAdd(calc_data.curr_time, calc_data.step) \in Nat
  <2>1. PICK T \in TimeEnds, n \in NSTEPs, s \in Nat, now \in Nat :
          /\ T = calc_data.time_end /\ n = calc_data.nstep
          /\ s = calc_data.step /\ now = calc_data.curr_time
    BY <1>2
  <2>2. s = FloatDiv(T, n)
    BY <1>0, <2>1, RunsWithStep
  <2>3. T \in Nat /\ now <= T
    BY <1>0, <2>1, StartupAssumption
  <2>4. now + s \in Nat /\ now + s <= T + s
    BY <2>3
  <2>5. FloatDiv(now + s, 1) \in Nat
    BY <2>2, <2>4, StepAndRounding
  <2>. QED  BY <2>1, <2>5 DEF FloatAdd
<1>4. /\ calc_data' \in [time_end : TimeEnds, nstep : NSTEPs, step : Nat, curr_time : Nat]
      /\ calc_data'.time_end = calc_data.time_end /\ calc_data'.nstep = calc_data.nstep
      /\ calc_data'.step = calc_data.step
      /\ calc_data'.curr_time = FloatAdd(calc_data.curr_time, calc_data.step)
  BY <1>1, <1>2, <1>3
<1>5. StepIsSet' /\ LinesAreOnTime' /\ ClockWaits'
  BY <1>0, <1>1, <1>4 DEF StepIsSet, LinesAreOnTime, Rounding, ClockWaits, ClientRuns
<1>6. StepsFollowLines'
  <2>1. Len(times) \in Nat /\ Len(times) >= 2 /\ times # <<>>
    BY <1>0 DEF StepsFollowLines, LinesAreOnTime
  <2>2. 1 \in 1 .. Len(times) - 1
    BY <2>1
  <2>3. times[2] = FloatAdd(0, calc_data.step)
    BY <1>0, <2>1, <2>2 DEF LinesAreOnTime
  <2>4. CASE printer_from
    <3>1. steps = 0 /\ calc_data.curr_time = 0
      BY <1>0, <2>4 DEF StepsFollowLines
    <3>. QED  BY <1>0, <1>1, <1>4, <2>3, <2>4, <3>1 DEF StepsFollowLines
  <2>5. CASE ~printer_from
    <3>1. steps = 1
      BY <1>0, <2>5 DEF StepsFollowLines
    <3>. QED  BY <1>0, <1>1, <1>4, <2>5, <3>1 DEF StepsFollowLines
  <2>. QED  BY <2>4, <2>5
<1>. QED  BY <1>5, <1>6 DEF ClockInv

\* print_calc_data finds the signal once.
LEMMA PrintCalcDataKeepsClock ==
  ASSUME ClockInv, PrintCalcData
  PROVE  ClockInv'
<1>1. /\ at = "print" /\ printer_from /\ printer_from' = FALSE /\ at' = "step"
      /\ made' = made /\ status' = status /\ calc_data' = calc_data
      /\ steps' = steps /\ times' = times
  BY DEF PrintCalcData
<1>2. steps = 1
  BY <1>1 DEF ClockInv, StepsFollowLines
<1>. QED  BY <1>1, <1>2 DEF ClockInv, StepIsSet, ClockWaits, ClientRuns, LinesAreOnTime, Rounding,
                            StepsFollowLines

\* Every step of the start keeps both invariants.
LEMMA ClockNextKeeps == IInv /\ ClockInv /\ [Next]_vars => ClockInv'
<1>. SUFFICES ASSUME IInv, ClockInv, [Next]_vars  PROVE ClockInv'
  OBVIOUS
<1>0. TypeOK
  BY DEF IInv
<1>1. ASSUME NEW p \in Processes, CreateWorker(p) \/ MainArrives(p)  PROVE ClockInv'
  BY <1>1, ClockStays DEF CreateWorker, MainArrives, Arrive, ClientRuns
<1>2. ASSUME NEW p \in Processes, NEW t \in WorkersOf(p), WorkerArrives(p, t)  PROVE ClockInv'
  BY <1>2, ClockStays DEF WorkerArrives, Arrive, ClientRuns
<1>3. ASSUME NEW p \in Processes, Fail(p)  PROVE ClockInv'
  <2>1. ClientRuns => ClientRuns'
    BY <1>0, <1>3 DEF Fail, Starting, ClientRuns, TypeOK
  <2>. QED  BY <1>3, <2>1, ClockStays DEF Fail
<1>4. ASSUME NEW p \in Processes, NEW t \in Threads(p), Go(p, t)  PROVE ClockInv'
  <2>1. ClientRuns => ClientRuns'
    BY <1>0, <1>4 DEF Go, ClientRuns, TypeOK
  <2>. QED  BY <1>4, <2>1, ClockStays DEF Go
<1>5. CASE UNCHANGED vars
  BY <1>5, ClockStays DEF vars, ClientRuns
<1>. QED  BY <1>1, <1>2, <1>3, <1>4, <1>5, MakeGlobalKeepsClock, WriteLineKeepsClock,
             GetNextStepKeepsClock, PrintCalcDataKeepsClock DEF Next, MainStarts

\* In every state of a start the lines of ref.txt are as many roundings from their times as
\* there were additions, and the steps begin at their lines.
THEOREM ClockInvariantHolds == Spec => [](IInv /\ ClockInv)
BY InitHolds, NextKeeps, ClockInitHolds, ClockNextKeeps, PTL DEF Spec

\* calc_ref writes NSTEP or NSTEP + 1 lines, none of them half a step from its time, for any
\* end, any number of steps and any precision that StartupAssumption admits.
THEOREM ReferenceCovers == Spec => []ReferenceCoversFlight
<1>. SUFFICES ASSUME IInv, ClockInv  PROVE ReferenceCoversFlight
  BY ClockInvariantHolds, PTL
<1>. SUFFICES ASSUME at # "ref"
              PROVE  /\ Len(times) \in {calc_data.nstep, calc_data.nstep + 1}
                     /\ \A i \in DOMAIN times :
                          2 * Distance(times[i], (i - 1) * calc_data.step) < calc_data.step
  BY DEF ReferenceCoversFlight
<1>1. ClientRuns /\ StepIsSet /\ LinesAreOnTime /\ StepsFollowLines
  BY DEF ClockInv, ClockWaits
<1>2. PICK T \in TimeEnds, n \in NSTEPs, s \in {calc_data.step}, E \in {Rounding} :
        T = calc_data.time_end /\ n = calc_data.nstep
  BY <1>1 DEF StepIsSet
<1>3. s = calc_data.step /\ E = Rounding
  OBVIOUS
<1>4. s = FloatDiv(T, n) /\ E = (T + s) \div 2 ^ Precision
  BY <1>1, <1>2, <1>3, RunsWithStep DEF Rounding
<1>5. n \in Nat \ {0} /\ s \in Nat /\ E \in Nat /\ 2 * ((n + 1) * E) < s
  BY <1>4, StepAndRounding
<1>6. PICK lines \in Nat : lines = Len(times) /\ DOMAIN times = 1 .. lines
  BY <1>1 DEF LinesAreOnTime
<1>7. /\ n <= lines /\ lines <= n + 1
      /\ \A i \in 1 .. lines : /\ times[i] \in Nat
                               /\ Distance(times[i], (i - 1) * s) <= (i - 1) * E
  BY <1>1, <1>2, <1>3, <1>6 DEF LinesAreOnTime, StepsFollowLines
<1>8. ASSUME NEW i \in 1 .. lines
      PROVE  2 * Distance(times[i], (i - 1) * s) < s
  <2>. DEFINE k == i - 1
              far == Distance(times[i], k * s)
              kE == k * E
              NE == (n + 1) * E
  <2>1. k \in Nat /\ k <= n + 1
    BY <1>5, <1>7
  <2>. HIDE DEF k
  <2>2. k * s \in Nat /\ kE \in Nat /\ NE \in Nat /\ kE <= NE
    BY <1>5, <2>1, SMT
  <2>3. far \in Nat /\ far <= kE
    BY <1>7, <2>2, DistanceIs DEF k
  <2>4. 2 * NE < s
    BY <1>5
  <2>. HIDE DEF far, kE, NE
  <2>5. 2 * far < s
    BY <1>5, <2>2, <2>3, <2>4
  <2>. QED  BY <2>5 DEF far, k
<1>9. lines \in {n, n + 1}
  BY <1>5, <1>7
<1>. QED  BY <1>2, <1>3, <1>6, <1>8, <1>9

\* The three times that get_next_step sends follow each other in spite of rounding, and the
\* step begins and ends at its lines of ref.txt.
THEOREM StagesOnTime == Spec => []StagesAreOnTime
<1>. SUFFICES ASSUME IInv, ClockInv  PROVE StagesAreOnTime
  BY ClockInvariantHolds, PTL
<1>. SUFFICES ASSUME at = "step"
              PROVE  /\ x < xh /\ xh < EndOfStep
                     /\ times[steps + 1] = x
                     /\ steps + 2 \in DOMAIN times => times[steps + 2] = EndOfStep
  BY DEF StagesAreOnTime
<1>1. ClientRuns /\ StepIsSet /\ LinesAreOnTime /\ StepsFollowLines
  BY DEF ClockInv, ClockWaits
<1>2. Len(times) \in Nat /\ Len(times) >= 2 /\ DOMAIN times = 1 .. Len(times) /\ times # <<>>
  BY <1>1 DEF LinesAreOnTime, StepsFollowLines
<1>3. steps \in {0, 1} /\ calc_data.curr_time = times[steps + 1]
  <2>1. steps = 0 => calc_data.curr_time = times[1]
    BY <1>1, <1>2 DEF LinesAreOnTime, StepsFollowLines
  <2>2. steps = 1 => calc_data.curr_time = times[2]
    BY <1>1 DEF StepsFollowLines
  <2>3. steps = 0 \/ steps = 1
    BY <1>1 DEF StepsFollowLines
  <2>. QED  BY <2>1, <2>2, <2>3
<1>4. steps + 1 \in 1 .. Len(times)
  BY <1>2, <1>3
<1>5. PICK T \in TimeEnds, n \in NSTEPs, s \in Nat, now \in Nat :
        /\ T = calc_data.time_end /\ n = calc_data.nstep
        /\ s = calc_data.step /\ now = calc_data.curr_time
  BY <1>1 DEF StepIsSet
<1>6. now <= T
  BY <1>1, <1>3, <1>4, <1>5 DEF LinesAreOnTime
<1>7. s = FloatDiv(T, n)
  BY <1>1, <1>5, RunsWithStep
<1>8. now < FloatAdd(now, s \div 2) /\ FloatAdd(now, s \div 2) < FloatAdd(now, s)
  BY <1>6, <1>7, StagesFollow
<1>9. x < xh /\ xh < EndOfStep
  BY <1>5, <1>8 DEF x, xh, EndOfStep, HalfStep
<1>10. ASSUME steps + 2 \in DOMAIN times  PROVE times[steps + 2] = EndOfStep
  <2>1. steps + 1 \in 1 .. Len(times) - 1 /\ (steps + 1) + 1 = steps + 2
    BY <1>2, <1>3, <1>10
  <2>2. times[(steps + 1) + 1] = FloatAdd(times[steps + 1], calc_data.step)
    BY <1>1, <2>1 DEF LinesAreOnTime
  <2>. QED  BY <1>3, <2>1, <2>2 DEF EndOfStep, x
<1>. QED  BY <1>3, <1>9, <1>10 DEF x
=============================================================================

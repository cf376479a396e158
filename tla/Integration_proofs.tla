------------------------- MODULE Integration_proofs -------------------------
(***************************************************************************)
(* get_next_step is a Runge-Kutta step, for every state, every command,    *)
(* every step length and every mass and moment of inertia.                 *)
(***************************************************************************)
EXTENDS Integration, SequenceTheorems, TLAPS

Commands == [0 .. 3 -> Int]

LEMMA FieldsDiffer ==
  /\ \A i \in Indices : StateFields[i] # Time /\ StateFields[i] \in CalcFields
  /\ \A i, j \in Indices : StateFields[i] = StateFields[j] => i = j
<1>1. \A i \in Indices : StateFields[i] # Time
  BY SMT DEF StateFields, Time, Indices, NVAR
<1>2. \A i, j \in Indices : StateFields[i] = StateFields[j] => i = j
  BY SMT DEF StateFields, Indices, NVAR
<1>3. \A i \in Indices : StateFields[i] \in CalcFields
  BY DEF CalcFields
<1> QED BY <1>1, <1>2, <1>3

\* set_calc_data and the assignments at the head of get_next_step fit each other.
LEMMA VectorRoundTrip ==
  \A v, time : /\ \A i \in Indices : CalcData(v, time)[StateFields[i]] = v[i]
               /\ CalcData(v, time)[Time] = time
<1> SUFFICES ASSUME NEW v, NEW time
             PROVE  /\ \A i \in Indices : CalcData(v, time)[StateFields[i]] = v[i]
                    /\ CalcData(v, time)[Time] = time
  OBVIOUS
<1>1. ASSUME NEW i \in Indices
      PROVE  IndexOf(StateFields[i]) = i
  BY FieldsDiffer DEF IndexOf
<1>2. ASSUME NEW i \in Indices
      PROVE  CalcData(v, time)[StateFields[i]] = v[i]
  BY <1>1, FieldsDiffer DEF CalcData
<1>3. Time \in CalcFields
  BY DEF CalcFields
<1> QED BY <1>2, <1>3 DEF CalcData

LEMMA CalcDataType ==
  \A v \in Vectors, time \in Int : CalcData(v, time) \in [CalcFields -> Int]
<1> SUFFICES ASSUME NEW v \in Vectors, NEW time \in Int, NEW f \in CalcFields, f # Time
             PROVE  v[IndexOf(f)] \in Int
  BY DEF CalcData
<1>1. PICK i \in Indices : StateFields[i] = f
  BY DEF CalcFields
<1>2. IndexOf(f) \in Indices
  BY <1>1 DEF IndexOf
<1> QED BY <1>2 DEF Vectors

LEMMA DerivsType ==
  \A v \in Vectors, u \in Commands : Derivs(v, u) \in Vectors
BY IntegrationAssumption, SMTT(60) DEF Derivs, Vectors, Commands, Indices, NVAR

LEMMA PlusType ==
  \A v \in Vectors, factor \in Int, slope \in Vectors : Plus(v, factor, slope) \in Vectors
BY DEF Plus, Vectors

LEMMA Lengths == h \in Int /\ hh \in Int /\ H6 \in Int
BY IntegrationAssumption DEF h, hh

LEMMA NormalizeType ==
  \A v \in Vectors, time \in Int : normalize_vector(v, NVAR, time) \in [0 .. NVAR -> Int]
BY DEF normalize_vector, Vectors, Indices, NVAR

LEMMA PayloadIsNormalized ==
  \A cd \in [CalcFields -> Int] :
    get_payload_from_calc_data(cd)
      = normalize_vector([i \in Indices |-> cd[StateFields[i]]], NVAR, cd[Time])
BY DEF get_payload_from_calc_data, normalize_vector, Indices, NVAR

-----------------------------------------------------------------------------
LEMMA StateType == TypeOK => State \in Vectors /\ x \in Int
BY FieldsDiffer DEF TypeOK, State, Vectors, x, CalcFields

LEMMA ItemsAreCommands == \A u \in Seq(Commands) : \A i \in 1 .. Len(u) : u[i] \in Commands
OBVIOUS

LEMMA SlopesType ==
  \A v \in Vectors, u \in Seq(Commands) :
    /\ Len(u) >= 1 => k1(v, u) \in Vectors /\ Second(v, u) \in Vectors
    /\ Len(u) >= 2 => k2(v, u) \in Vectors /\ Third(v, u) \in Vectors
    /\ Len(u) >= 3 => k3(v, u) \in Vectors /\ Fourth(v, u) \in Vectors
    /\ Len(u) >= 4 => k4(v, u) \in Vectors
<1> SUFFICES ASSUME NEW v \in Vectors, NEW u \in Seq(Commands)
             PROVE  /\ Len(u) >= 1 => k1(v, u) \in Vectors /\ Second(v, u) \in Vectors
                    /\ Len(u) >= 2 => k2(v, u) \in Vectors /\ Third(v, u) \in Vectors
                    /\ Len(u) >= 3 => k3(v, u) \in Vectors /\ Fourth(v, u) \in Vectors
                    /\ Len(u) >= 4 => k4(v, u) \in Vectors
  OBVIOUS
<1>1. /\ Len(u) \in Nat
      /\ \A i \in 1 .. Len(u) : u[i] \in Commands
  OBVIOUS
<1>2. Len(u) >= 1 => k1(v, u) \in Vectors /\ Second(v, u) \in Vectors
  BY <1>1, DerivsType, PlusType, Lengths DEF k1, Second
<1>3. Len(u) >= 2 => k2(v, u) \in Vectors /\ Third(v, u) \in Vectors
  BY <1>1, <1>2, DerivsType, PlusType, Lengths DEF k2, Third
<1>4. Len(u) >= 3 => k3(v, u) \in Vectors /\ Fourth(v, u) \in Vectors
  BY <1>1, <1>3, DerivsType, PlusType, Lengths DEF k3, Fourth
<1>5. Len(u) >= 4 => k4(v, u) \in Vectors
  BY <1>1, <1>4, DerivsType DEF k4
<1> QED BY <1>2, <1>3, <1>4, <1>5

\* A command that get_u returns later does not change the slopes before it.
LEMMA SlopesStay ==
  \A v : \A u \in Seq(Commands) : \A c \in Commands :
    /\ Append(u, c) \in Seq(Commands)
    /\ Len(Append(u, c)) = Len(u) + 1
    /\ Len(u) >= 1 => k1(v, Append(u, c)) = k1(v, u) /\ Second(v, Append(u, c)) = Second(v, u)
    /\ Len(u) >= 2 => k2(v, Append(u, c)) = k2(v, u) /\ Third(v, Append(u, c)) = Third(v, u)
    /\ Len(u) >= 3 => k3(v, Append(u, c)) = k3(v, u) /\ Fourth(v, Append(u, c)) = Fourth(v, u)
    /\ Len(u) >= 3 => Middle(v, Append(u, c)) = Middle(v, u)
<1> SUFFICES ASSUME NEW v, NEW u \in Seq(Commands), NEW c \in Commands
             PROVE  LET w == Append(u, c)
                    IN  /\ w \in Seq(Commands)
                        /\ Len(w) = Len(u) + 1
                        /\ Len(u) >= 1 => k1(v, w) = k1(v, u) /\ Second(v, w) = Second(v, u)
                        /\ Len(u) >= 2 => k2(v, w) = k2(v, u) /\ Third(v, w) = Third(v, u)
                        /\ Len(u) >= 3 => k3(v, w) = k3(v, u) /\ Fourth(v, w) = Fourth(v, u)
                        /\ Len(u) >= 3 => Middle(v, w) = Middle(v, u)
  OBVIOUS
<1> DEFINE w == Append(u, c)
<1>1. /\ w \in Seq(Commands)
      /\ Len(w) = Len(u) + 1 /\ Len(u) \in Nat
      /\ Len(u) >= 1 => w[1] = u[1]
      /\ Len(u) >= 2 => w[2] = u[2]
      /\ Len(u) >= 3 => w[3] = u[3]
  OBVIOUS
<1> HIDE DEF w
<1>2. Len(u) >= 1 => k1(v, w) = k1(v, u) /\ Second(v, w) = Second(v, u)
  BY <1>1 DEF k1, Second
<1>3. Len(u) >= 2 => k2(v, w) = k2(v, u) /\ Third(v, w) = Third(v, u)
  BY <1>1, <1>2 DEF k2, Third
<1>4. Len(u) >= 3 => k3(v, w) = k3(v, u) /\ Fourth(v, w) = Fourth(v, u)
  BY <1>1, <1>3 DEF k3, Fourth
<1>5. Len(u) >= 3 => Middle(v, w) = Middle(v, u)
  BY <1>1, <1>3, <1>4 DEF Middle
<1> QED BY <1>1, <1>2, <1>3, <1>4, <1>5 DEF w

LEMMA AddedType ==
  \A v \in Vectors, sum \in Vectors : AddedTo(v, sum) \in Vectors
BY DEF AddedTo, Vectors

LEMMA InitInvariant == Init => IInv
<1> SUFFICES ASSUME Init PROVE IInv
  OBVIOUS
<1>1. PICK start \in Starts : calc_data = CalcData(start, 0)
  BY DEF Init
<1>2. calc_data \in [CalcFields -> Int]
  BY <1>1, CalcDataType, IntegrationAssumption DEF Vectors
<1>3. Zero \in Vectors
  BY DEF Zero, Vectors
<1>4. payload \in [0 .. NVAR -> Int]
  <2>1. [i \in Indices |-> calc_data[StateFields[i]]] \in Vectors /\ calc_data[Time] \in Int
    BY <1>2, FieldsDiffer DEF Vectors, CalcFields
  <2> QED BY <1>2, <2>1, PayloadIsNormalized, NormalizeType DEF Init
<1>5. us \in Seq([0 .. 3 -> Int]) /\ Len(us) <= 4
  BY DEF Init
<1>6. step \in 0 .. Steps
  BY IntegrationAssumption DEF Init
<1> QED BY <1>2, <1>3, <1>4, <1>5, <1>6 DEF Init, IInv, TypeOK, StepBegun, VectorsHoldSlopes, PayloadIsStage

\* The value of the vector at the end of the step.
yout == [i \in Indices |-> y[i] + H6 * (dydx[i] + Derivs(yt, us[4])[i] + 2 * dym[i])]

LEMMA FourthSlopeIsStep ==
  IInv /\ FourthSlope => /\ yout \in Vectors
                         /\ yout = RungeKutta(State, us)
                         /\ calc_data' = CalcData(yout, x + h)
<1> SUFFICES ASSUME IInv, FourthSlope
             PROVE  /\ yout \in Vectors
                    /\ yout = RungeKutta(State, us)
                    /\ calc_data' = CalcData(yout, x + h)
  OBVIOUS
<1>1. /\ at = "derivs" /\ Len(us) = 4 /\ us \in Seq(Commands)
      /\ y = State /\ Done = 3
  BY DEF IInv, TypeOK, VectorsHoldSlopes, FourthSlope, Stage, Done, Commands
<1>2. /\ dydx = k1(y, us)
      /\ dym = Middle(y, us)
      /\ yt = Fourth(y, us)
  BY <1>1 DEF IInv, VectorsHoldSlopes
<1>3. y \in Vectors
  BY DEF IInv, TypeOK
<1>4. /\ k1(y, us) \in Vectors /\ k2(y, us) \in Vectors
      /\ k3(y, us) \in Vectors /\ k4(y, us) \in Vectors
  BY <1>1, <1>3, SlopesType
<1>5. Derivs(yt, us[4]) = k4(y, us)
  BY <1>2 DEF k4
<1> DEFINE a == k1(y, us)
           b == k2(y, us)
           c == k3(y, us)
           d == k4(y, us)
<1>6. ASSUME NEW i \in Indices
      PROVE  /\ dydx[i] + Derivs(yt, us[4])[i] + 2 * dym[i]
                  = a[i] + 2 * b[i] + 2 * c[i] + d[i]
             /\ dydx[i] + Derivs(yt, us[4])[i] + 2 * dym[i] \in Int
  <2>1. dym[i] = c[i] + b[i]
    BY <1>2, <1>4 DEF Middle, Vectors
  <2>2. a[i] \in Int /\ b[i] \in Int /\ c[i] \in Int /\ d[i] \in Int
    BY <1>4 DEF Vectors
  <2> HIDE DEF a, b, c, d
  <2>3. a[i] + d[i] + 2 * (c[i] + b[i]) = a[i] + 2 * b[i] + 2 * c[i] + d[i]
    BY <2>2
  <2>4. a[i] + d[i] + 2 * (c[i] + b[i]) \in Int
    BY <2>2
  <2>5. dydx[i] = a[i] /\ Derivs(yt, us[4])[i] = d[i]
    BY <1>2, <1>5 DEF a, d
  <2> QED BY <2>1, <2>3, <2>4, <2>5
<1> HIDE DEF a, b, c, d
<1>7. yout = [i \in Indices |-> y[i] + H6 * (a[i] + 2 * b[i] + 2 * c[i] + d[i])]
  BY <1>6, Zenon DEF yout
<1>8. yout = RungeKutta(State, us)
  BY <1>1, <1>7, Zenon DEF RungeKutta, a, b, c, d
<1>9. yout \in Vectors
  <2>1. ASSUME NEW i \in Indices
        PROVE  y[i] + H6 * (dydx[i] + Derivs(yt, us[4])[i] + 2 * dym[i]) \in Int
    <3>1. y[i] \in Int
      BY <1>3 DEF Vectors
    <3> QED BY <1>6, <3>1, Lengths
  <2> QED BY <2>1 DEF yout, Vectors
<1>10. calc_data' = CalcData(yout, x + h)
  BY DEF FourthSlope, yout
<1> QED BY <1>8, <1>9, <1>10

-----------------------------------------------------------------------------
LEMMA StepInvariant == IInv /\ [Next]_vars => IInv'
<1> SUFFICES ASSUME IInv, [Next]_vars PROVE IInv'
  OBVIOUS
<1>0. /\ TypeOK /\ StepBegun /\ VectorsHoldSlopes
      /\ State \in Vectors /\ x \in Int
      /\ us \in Seq(Commands) /\ Len(us) \in Nat
      /\ y \in Vectors
      /\ PayloadIsStage
  BY StateType DEF IInv, TypeOK, Commands
<1>00. /\ Len(us) >= 1 => k1(y, us) \in Vectors /\ Second(y, us) \in Vectors
       /\ Len(us) >= 2 => k2(y, us) \in Vectors /\ Third(y, us) \in Vectors
       /\ Len(us) >= 3 => k3(y, us) \in Vectors /\ Fourth(y, us) \in Vectors
  BY <1>0, SlopesType
<1> SUFFICES TypeOK' /\ StepBegun' /\ VectorsHoldSlopes' /\ PayloadIsStage'
  BY DEF IInv
<1>1. CASE Begin
  <2>1. calc_data' = calc_data /\ State' = State
    BY <1>1 DEF Begin, State
  <2>2. y' = State'
    BY <1>1, <2>1 DEF Begin, State
  <2>3. payload' = normalize_vector(State, NVAR, x)
    BY <1>0, <1>1, PayloadIsNormalized DEF Begin, State, x, TypeOK
  <2>4. TypeOK'
    <3>1. payload' \in [0 .. NVAR -> Int]
      BY <1>0, <2>3, NormalizeType
    <3>2. y' \in Vectors
      BY <1>0, <2>1, <2>2
    <3>3. us' = <<>> /\ at' = "get_u" /\ UNCHANGED <<calc_data, yt, dydx, dym, dyt, step>>
      BY <1>1 DEF Begin
    <3>4. us' \in Seq([0 .. 3 -> Int]) /\ Len(us') <= 4
      BY <3>3
    <3> QED BY <1>0, <3>1, <3>2, <3>3, <3>4 DEF TypeOK
  <2>5. Done' = 0
    BY <1>1 DEF Begin, Done
  <2>6. VectorsHoldSlopes'
    BY <2>2, <2>5 DEF VectorsHoldSlopes
  <2>7. StepBegun'
    BY <1>1 DEF Begin, StepBegun
  <2>8. PayloadIsStage'
    <3>1. us' = <<>> /\ x' = x
      BY <1>1, <2>1 DEF Begin, x
    <3>2. Len(us') = 0
      BY <3>1
    <3> QED BY <2>1, <2>3, <3>1, <3>2 DEF PayloadIsStage
  <2> QED BY <2>4, <2>6, <2>7, <2>8
<1>2. CASE GetU
  <2>1. PICK u \in Controls : us' = Append(us, u)
    BY <1>2 DEF GetU
  <2>2. u \in Commands
    BY IntegrationAssumption DEF Commands
  <2>3. /\ at = "get_u" /\ at' = "derivs"
        /\ UNCHANGED <<calc_data, vectors, payload, step>>
        /\ State' = State
    BY <1>2 DEF GetU, State
  <2>4. Len(us) \in 0 .. 3 /\ Done = Len(us) /\ y = State
    BY <1>0, <2>3 DEF VectorsHoldSlopes, Done
  <2>5. /\ us' \in Seq(Commands) /\ Len(us') = Len(us) + 1
        /\ Done' = Done
    BY <1>0, <2>1, <2>2, <2>3, <2>4, SlopesStay DEF Done
  <2>6. TypeOK'
    <3>1. us' \in Seq([0 .. 3 -> Int])
      BY <2>5 DEF Commands
    <3>4. Len(us') <= 4
      BY <2>4, <2>5
    <3>2. at' = "derivs" /\ payload' = payload /\ calc_data' = calc_data /\ step' = step
      BY <2>3
    <3>3. y' = y /\ yt' = yt /\ dydx' = dydx /\ dym' = dym /\ dyt' = dyt
      BY <2>3 DEF vectors
    <3> QED BY <1>0, <3>1, <3>2, <3>3, <3>4 DEF TypeOK
  <2>7. /\ Done >= 1 => k1(y, us') = k1(y, us) /\ Second(y, us') = Second(y, us)
        /\ Done >= 2 => k2(y, us') = k2(y, us) /\ Third(y, us') = Third(y, us)
        /\ Done >= 3 => Middle(y, us') = Middle(y, us) /\ Fourth(y, us') = Fourth(y, us)
    BY <1>0, <2>1, <2>2, <2>4, SlopesStay
  <2>8. VectorsHoldSlopes'
    <3>1. /\ y' = y /\ yt' = yt /\ dydx' = dydx /\ dym' = dym /\ dyt' = dyt
      BY <2>3 DEF vectors
    <3> QED BY <1>0, <2>3, <2>4, <2>5, <2>7, <3>1 DEF VectorsHoldSlopes
  <2>9. StepBegun'
    BY <1>0, <2>3 DEF StepBegun
  <2>10. PayloadIsStage'
    BY <2>3 DEF PayloadIsStage
  <2> QED BY <2>6, <2>8, <2>9, <2>10
<1>3. CASE FirstSlope
  <2>1. /\ Len(us) = 1 /\ at = "derivs" /\ at' = "get_u" /\ us' = us /\ y' = y
        /\ UNCHANGED <<calc_data, dym, dyt, step>> /\ State' = State
        /\ y = State /\ y \in Vectors /\ Done' = 1
    BY <1>0, <1>3 DEF FirstSlope, Stage, NextCall, State, TypeOK, VectorsHoldSlopes, Done
  <2>2. dydx' = k1(y, us) /\ yt' = Second(y, us)
    BY <1>3 DEF FirstSlope, k1, Second
  <2>3. dydx' \in Vectors /\ yt' \in Vectors
    BY <1>00, <2>1, <2>2
  <2>4. payload' \in [0 .. NVAR -> Int]
    BY <1>0, <1>3, <2>3, NormalizeType, Lengths DEF FirstSlope, NextCall
  <2>5. TypeOK'
    BY <1>0, <2>1, <2>3, <2>4 DEF TypeOK
  <2>6. VectorsHoldSlopes'
    BY <2>1, <2>2 DEF VectorsHoldSlopes
  <2>7. StepBegun'
    BY <1>0, <2>1 DEF StepBegun
  <2>8. PayloadIsStage'
    <3>1. payload' = normalize_vector(Second(State, us), NVAR, x + hh)
      BY <1>3, <2>1, <2>2 DEF FirstSlope, NextCall
    <3>2. x' = x /\ us' = us /\ State' = State
      BY <2>1 DEF x
    <3>3. Len(us') = 1
      BY <2>1
    <3> QED BY <3>1, <3>2, <3>3 DEF PayloadIsStage, h, hh
  <2> QED BY <2>5, <2>6, <2>7, <2>8
<1>4. CASE SecondSlope
  <2>1. /\ Len(us) = 2 /\ at = "derivs" /\ at' = "get_u" /\ us' = us /\ y' = y
        /\ UNCHANGED <<calc_data, dydx, dym, step>> /\ State' = State
        /\ y = State /\ y \in Vectors /\ Done = 1 /\ Done' = 2
        /\ dydx = k1(y, us) /\ yt = Second(y, us)
    BY <1>0, <1>4 DEF SecondSlope, Stage, NextCall, State, TypeOK, VectorsHoldSlopes, Done
  <2>2. dyt' = k2(y, us) /\ yt' = Third(y, us)
    BY <1>4, <2>1 DEF SecondSlope, k2, Third
  <2>3. dyt' \in Vectors /\ yt' \in Vectors
    BY <1>00, <2>1, <2>2
  <2>4. payload' \in [0 .. NVAR -> Int]
    BY <1>0, <1>4, <2>3, NormalizeType, Lengths DEF SecondSlope, NextCall
  <2>5. TypeOK'
    BY <1>0, <2>1, <2>3, <2>4 DEF TypeOK
  <2>6. VectorsHoldSlopes'
    BY <2>1, <2>2 DEF VectorsHoldSlopes
  <2>7. StepBegun'
    BY <1>0, <2>1 DEF StepBegun
  <2>8. PayloadIsStage'
    <3>1. payload' = normalize_vector(Third(State, us), NVAR, x + hh)
      BY <1>4, <2>1, <2>2 DEF SecondSlope, NextCall
    <3>2. x' = x /\ us' = us /\ State' = State
      BY <2>1 DEF x
    <3>3. Len(us') = 2
      BY <2>1
    <3> QED BY <3>1, <3>2, <3>3 DEF PayloadIsStage, h, hh
  <2> QED BY <2>5, <2>6, <2>7, <2>8
<1>5. CASE ThirdSlope
  <2>1. /\ Len(us) = 3 /\ at = "derivs" /\ at' = "get_u" /\ us' = us /\ y' = y
        /\ UNCHANGED <<calc_data, dydx, dyt, step>> /\ State' = State
        /\ y = State /\ y \in Vectors /\ Done = 2 /\ Done' = 3
        /\ dydx = k1(y, us) /\ dyt = k2(y, us) /\ yt = Third(y, us)
    BY <1>0, <1>5 DEF ThirdSlope, Stage, NextCall, State, TypeOK, VectorsHoldSlopes, Done
  <2>2. dym' = AddedTo(k3(y, us), k2(y, us)) /\ yt' = Fourth(y, us)
    BY <1>5, <2>1 DEF ThirdSlope, k3, Fourth
  <2>3. dym' = Middle(y, us)
    BY <1>00, <2>1, <2>2 DEF AddedTo, Middle, Vectors
  <2>4. dym' \in Vectors /\ yt' \in Vectors
    BY <1>00, <2>1, <2>2, AddedType
  <2>5. payload' \in [0 .. NVAR -> Int]
    BY <1>0, <1>5, <2>4, NormalizeType, Lengths DEF ThirdSlope, NextCall, EndTime
  <2>6. TypeOK'
    BY <1>0, <2>1, <2>4, <2>5 DEF TypeOK
  <2>7. VectorsHoldSlopes'
    BY <2>1, <2>2, <2>3 DEF VectorsHoldSlopes
  <2>8. StepBegun'
    BY <1>0, <2>1 DEF StepBegun
  <2>9. PayloadIsStage'
    <3>1. payload' = normalize_vector(Fourth(State, us), NVAR, x + h)
      BY <1>5, <2>1, <2>2 DEF ThirdSlope, NextCall, EndTime
    <3>2. x' = x /\ us' = us /\ State' = State
      BY <2>1 DEF x
    <3>3. Len(us') = 3
      BY <2>1
    <3> QED BY <3>1, <3>2, <3>3 DEF PayloadIsStage, h, hh
  <2> QED BY <2>6, <2>7, <2>8, <2>9
<1>6. CASE FourthSlope
  <2>1. yout \in Vectors /\ calc_data' = CalcData(yout, x + h)
    BY <1>6, FourthSlopeIsStep
  <2>2. calc_data' \in [CalcFields -> Int]
    BY <1>0, <2>1, CalcDataType, Lengths
  <2>3. /\ Len(us) = 4 /\ at' = "loop" /\ step' = step + 1
        /\ UNCHANGED <<y, yt, dydx, dym, payload, us>>
    BY <1>6 DEF FourthSlope, Stage
  <2>4. dyt' \in Vectors
    <3>1. yt \in Vectors /\ us[4] \in Commands
      <4>1. us \in Seq(Commands) /\ Len(us) = 4
        BY <1>0, <2>3
      <4>2. us[4] \in Commands
        BY <4>1, ItemsAreCommands
      <4> QED BY <1>0, <4>2 DEF TypeOK
    <3>2. dyt' = Derivs(yt, us[4])
      BY <1>6 DEF FourthSlope
    <3> QED BY <3>1, <3>2, DerivsType
  <2>5. step < Steps
    BY <1>0, <1>6 DEF FourthSlope, Stage, StepBegun
  <2>6. TypeOK'
    <3>1. step' \in 0 .. Steps
      BY <1>0, <2>3, <2>5, IntegrationAssumption DEF TypeOK
    <3>2. y' = y /\ yt' = yt /\ dydx' = dydx /\ dym' = dym /\ payload' = payload /\ us' = us
      BY <2>3
    <3>3. at' = "loop"
      BY <2>3
    <3>4. /\ y \in Vectors /\ yt \in Vectors /\ dydx \in Vectors /\ dym \in Vectors
          /\ payload \in [0 .. NVAR -> Int]
          /\ us \in Seq([0 .. 3 -> Int]) /\ Len(us) <= 4
      BY <1>0 DEF TypeOK
    <3>5. /\ y' \in Vectors /\ yt' \in Vectors /\ dydx' \in Vectors /\ dym' \in Vectors
          /\ payload' \in [0 .. NVAR -> Int]
          /\ us' \in Seq([0 .. 3 -> Int]) /\ Len(us') <= 4
      BY <3>2, <3>4, Zenon
    <3> QED BY <2>2, <2>4, <3>1, <3>3, <3>5 DEF TypeOK
  <2> QED BY <2>3, <2>6 DEF StepBegun, VectorsHoldSlopes, PayloadIsStage
<1>7. CASE UNCHANGED vars
  <2>1. /\ State' = State /\ Done' = Done /\ x' = x
    BY <1>7 DEF vars, vectors, State, Done, x
  <2> QED BY <1>0, <1>7, <2>1
          DEF TypeOK, StepBegun, VectorsHoldSlopes, PayloadIsStage, vars, vectors
<1> QED BY <1>1, <1>2, <1>3, <1>4, <1>5, <1>6, <1>7 DEF Next

-----------------------------------------------------------------------------
\* The vectors of get_next_step hold, after each call of get_u, the slopes and the state
\* of the textbook's stages.
THEOREM InvariantHolds == Spec => []IInv
<1>1. Init => IInv
  BY InitInvariant
<1>2. IInv /\ [Next]_vars => IInv'
  BY StepInvariant
<1> QED BY <1>1, <1>2, PTL DEF Spec

\* The variables of get_next_step stay integers and vectors of NVAR of them.
THEOREM TypeCorrect == Spec => []TypeOK
<1>1. IInv => TypeOK
  BY DEF IInv
<1> QED BY <1>1, InvariantHolds, PTL

\* Each payload given to get_u is the state and the time of its stage.
THEOREM PayloadsAreStages == Spec => []PayloadIsStage
<1>1. IInv => PayloadIsStage
  BY DEF IInv
<1> QED BY <1>1, InvariantHolds, PTL

\* get_next_step moves the state by one Runge-Kutta step, whatever the commands are.
THEOREM StepIsRungeKuttaStep == Spec => StepIsRungeKutta
<1> DEFINE Moved == step' # step => /\ State' = RungeKutta(State, us)
                                    /\ calc_data'[Time] = calc_data[Time] + h
<1>1. IInv /\ [Next]_vars => [Moved]_vars
  <2> SUFFICES ASSUME IInv, [Next]_vars, step' # step
               PROVE  /\ State' = RungeKutta(State, us)
                      /\ calc_data'[Time] = calc_data[Time] + h
    OBVIOUS
  <2>1. FourthSlope
    BY DEF Next, Begin, GetU, FirstSlope, SecondSlope, ThirdSlope, vars
  <2>2. /\ yout \in Vectors /\ yout = RungeKutta(State, us)
        /\ calc_data' = CalcData(yout, x + h)
    BY <2>1, FourthSlopeIsStep
  <2>3. /\ \A i \in Indices : calc_data'[StateFields[i]] = yout[i]
        /\ calc_data'[Time] = x + h
    BY <2>2, VectorRoundTrip
  <2>4. State' = [i \in Indices |-> yout[i]]
    BY <2>3 DEF State
  <2>5. yout = [i \in Indices |-> yout[i]]
    BY DEF yout
  <2> QED BY <2>2, <2>3, <2>4, <2>5 DEF x
<1> QED BY <1>1, InvariantHolds, PTL DEF Spec, StepIsRungeKutta
=============================================================================

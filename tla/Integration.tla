---------------------------- MODULE Integration ----------------------------
(***************************************************************************)
(* get_next_step: one step of fourth-order Runge-Kutta with the buffers it *)
(* reuses - yt for three stages, dyt for two slopes, dym for a sum - and a *)
(* call of get_u, with a payload of its own, in each stage.  derivs is     *)
(* translated over integers: the reciprocals of the mass and the moments   *)
(* of inertia are constants, and so is a sixth of the step, so that the    *)
(* half, the sixth and the whole of it are exact.  What get_u returns is   *)
(* any of Controls; which request it answers is the business of Client.    *)
(*                                                                         *)
(* Definitions marked "Mistake:" are not the code's: PROJECT.json's        *)
(* mutants put them in the place of the definition that follows.           *)
(***************************************************************************)
EXTENDS CalcData

CONSTANTS H6,         \* h/6
          PerM, PerIx, PerIy, PerIz,  \* 1/m, 1/Ix, 1/Iy, 1/Iz
          G,
          Controls,   \* what get_u may return
          Starts,     \* states the simulation may begin with
          Steps       \* bound: iterations of do_client_calculations

ASSUME IntegrationAssumption ==
  /\ H6 \in Int /\ G \in Int
  /\ PerM \in Int /\ PerIx \in Int /\ PerIy \in Int /\ PerIz \in Int
  /\ Controls \subseteq [0 .. 3 -> Int]
  /\ Starts \subseteq [Indices -> Int]
  /\ Steps \in Nat

h == 6 * H6
hh == 3 * H6

VARIABLES calc_data,
          y, yt, dydx, dym, dyt,  \* the vectors; yout is calc_data at once
          payload,                \* the argument of get_u
          us,                     \* what the calls of this step have returned
          at,                     \* "loop", "get_u" or "derivs"
          step                    \* steps done

vectors == <<y, yt, dydx, dym, dyt>>
vars == <<calc_data, vectors, payload, us, at, step>>

Vectors == [Indices -> Int]
Zero == [i \in Indices |-> 0]

Init == /\ calc_data \in {CalcData(start, 0) : start \in Starts}
        /\ y = Zero /\ yt = Zero /\ dydx = Zero /\ dym = Zero /\ dyt = Zero
        /\ payload = get_payload_from_calc_data(calc_data)
        /\ us = <<>>
        /\ at = "loop"
        /\ step = 0

-----------------------------------------------------------------------------
\* derivs, with set_u: the slope of each variable.
Derivs(X, u) ==
  <<X[2],  X[7] * u[0] * PerM,       \* theta * U1/m
    X[4],  (-X[9]) * u[0] * PerM,    \* -phi * U1/m
    X[6],  u[0] * PerM - G,
    X[8],  u[1] * PerIx,
    X[10], u[2] * PerIy,
    X[12], u[3] * PerIz>>

Plus(v, factor, slope) == [i \in Indices |-> v[i] + factor * slope[i]]

x == calc_data[Time]

\* The head of get_next_step.
Begin ==
  /\ at = "loop"
  /\ step < Steps
  /\ y' = [i \in Indices |-> calc_data[StateFields[i]]]
  /\ payload' = get_payload_from_calc_data(calc_data)
  /\ us' = <<>>
  /\ at' = "get_u"
  /\ UNCHANGED <<calc_data, yt, dydx, dym, dyt, step>>

\* Client, the hand-shakes, the server and Payload.
GetU ==
  /\ at = "get_u"
  /\ \E u \in Controls : us' = Append(us, u)
  /\ at' = "derivs"
  /\ UNCHANGED <<calc_data, vectors, payload, step>>

Stage(n) == at = "derivs" /\ Len(us) = n

NextCall(time) == payload' = normalize_vector(yt', NVAR, time) /\ at' = "get_u"

FirstSlope ==
  /\ Stage(1)
  /\ dydx' = Derivs(y, us[1])
  /\ yt' = Plus(y, hh, dydx')
  /\ NextCall(x + hh)
  /\ UNCHANGED <<calc_data, y, dym, dyt, us, step>>

SecondSlope ==
  /\ Stage(2)
  /\ dyt' = Derivs(yt, us[2])
  /\ yt' = Plus(y, hh, dyt')
  /\ NextCall(x + hh)
  /\ UNCHANGED <<calc_data, y, dydx, dym, us, step>>

\* Mistake: the second slope is not added before dyt takes the fourth.
LastSlopeOnly(slope, sum) == slope
AddedTo(slope, sum) == [i \in Indices |-> slope[i] + sum[i]]

\* Mistake: the time of the middle of the step.
MiddleTime == x + hh
EndTime == x + h

\* The loop that moves yt to the end of the step also adds dyt to dym.
ThirdSlope ==
  /\ Stage(3)
  /\ LET slope == Derivs(yt, us[3])
     IN  /\ yt' = Plus(y, h, slope)
         /\ dym' = AddedTo(slope, dyt)
  /\ NextCall(EndTime)
  /\ UNCHANGED <<calc_data, y, dydx, dyt, us, step>>

\* yout, set_calc_data, and the time added by do_client_calculations.
FourthSlope ==
  /\ Stage(4)
  /\ dyt' = Derivs(yt, us[4])
  /\ LET yout == [i \in Indices |-> y[i] + H6 * (dydx[i] + dyt'[i] + 2 * dym[i])]
     IN  calc_data' = CalcData(yout, x + h)
  /\ step' = step + 1
  /\ at' = "loop"
  /\ UNCHANGED <<y, yt, dydx, dym, payload, us>>

Next == Begin \/ GetU \/ FirstSlope \/ SecondSlope \/ ThirdSlope \/ FourthSlope

Spec == Init /\ [][Next]_vars

-----------------------------------------------------------------------------
(* The method as a textbook has it: slopes k1 .. k4, each taken at the     *)
(* state the slope before leads to.                                        *)

State == [i \in Indices |-> calc_data[StateFields[i]]]

k1(v, u) == Derivs(v, u[1])
Second(v, u) == Plus(v, hh, k1(v, u))
k2(v, u) == Derivs(Second(v, u), u[2])
Third(v, u) == Plus(v, hh, k2(v, u))
k3(v, u) == Derivs(Third(v, u), u[3])
Fourth(v, u) == Plus(v, h, k3(v, u))
k4(v, u) == Derivs(Fourth(v, u), u[4])

RungeKutta(v, u) ==
  [i \in Indices |-> v[i] + H6 * (k1(v, u)[i] + 2 * k2(v, u)[i] + 2 * k3(v, u)[i] + k4(v, u)[i])]

-----------------------------------------------------------------------------
TypeOK == /\ calc_data \in [CalcFields -> Int]
          /\ y \in Vectors /\ yt \in Vectors /\ dydx \in Vectors
          /\ dym \in Vectors /\ dyt \in Vectors
          /\ payload \in [0 .. NVAR -> Int]
          /\ us \in Seq([0 .. 3 -> Int]) /\ Len(us) <= 4
          /\ at \in {"loop", "get_u", "derivs"}
          /\ step \in 0 .. Steps

\* Stages whose slope is known, and what the vectors hold after each.
Done == IF at = "derivs" THEN Len(us) - 1 ELSE Len(us)

Middle(v, u) == [i \in Indices |-> k2(v, u)[i] + k3(v, u)[i]]

VectorsHoldSlopes ==
  at # "loop" =>
    /\ y = State
    /\ Done \in 0 .. 3
    /\ Done >= 1 => dydx = k1(y, us)
    /\ Done = 1 => yt = Second(y, us)
    /\ Done = 2 => dyt = k2(y, us) /\ yt = Third(y, us)
    /\ Done = 3 => dym = Middle(y, us) /\ yt = Fourth(y, us)

StepBegun == at # "loop" => step < Steps

\* The call of a stage asks the server about the state and the time of this stage.
PayloadIsStage ==
  at = "get_u" =>
    /\ Len(us) = 0 => payload = normalize_vector(State, NVAR, x)
    /\ Len(us) = 1 => payload = normalize_vector(Second(State, us), NVAR, x + hh)
    /\ Len(us) = 2 => payload = normalize_vector(Third(State, us), NVAR, x + hh)
    /\ Len(us) = 3 => payload = normalize_vector(Fourth(State, us), NVAR, x + h)

\* The inductive invariant of Integration_proofs.
IInv == TypeOK /\ StepBegun /\ VectorsHoldSlopes /\ PayloadIsStage

\* Although its vectors are reused from stage to stage, get_next_step moves the state
\* by one Runge-Kutta step of the four commands it got.
StepIsRungeKutta ==
  [][step' # step => /\ State' = RungeKutta(State, us)
                     /\ calc_data'[Time] = calc_data[Time] + h]_vars
=============================================================================

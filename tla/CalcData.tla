------------------------------ MODULE CalcData ------------------------------
(***************************************************************************)
(* CalculatorData and the two forms its fields take: vectors with the      *)
(* indices 1 .. NVAR in get_next_step (Numerical Recipes count from 1) and *)
(* the thirteen floats 0 .. NVAR of a payload, the time behind the rest.   *)
(***************************************************************************)
EXTENDS Integers, Sequences

NVAR == 12
Indices == 1 .. NVAR

\* The field behind each index.
StateFields == <<"Vx", "VdotX", "Vy", "VdotY", "Vz", "VdotZ", "Vtheta", "VdotTheta",
                 "Vphi", "VdotPhi", "Vpsy", "VdotPsy">>
Time == "curr_time"
CalcFields == {StateFields[i] : i \in Indices} \cup {Time}
IndexOf(field) == CHOOSE i \in Indices : StateFields[i] = field

\* set_calc_data, and curr_time.
CalcData(y, time) == [f \in CalcFields |-> IF f = Time THEN time ELSE y[IndexOf(f)]]

get_payload_from_calc_data(calc_data) ==
  [i \in 0 .. NVAR |-> IF i < NVAR THEN calc_data[StateFields[i + 1]] ELSE calc_data[Time]]

normalize_vector(vec, len, cur_time) ==
  [i \in 0 .. len |-> IF i < len THEN vec[i + 1] ELSE cur_time]
=============================================================================

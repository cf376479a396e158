------------------------------ MODULE Control ------------------------------
(***************************************************************************)
(* The control law of the server (server_calculations), the reference it   *)
(* follows (tanRh), and the equations of the client's derivs it is to      *)
(* linearise.  Floats are elements of the field of the integers modulo P:  *)
(* the formulas only add, multiply and divide, so what they promise is an  *)
(* identity of rational functions, which holds of the reals only if it     *)
(* holds here.  Rounding is left out; tanh, which is no rational function, *)
(* is a parameter.                                                         *)
(*                                                                         *)
(* Definitions marked "Mistake:" are not the code's: PROJECT.json's        *)
(* mutants put them in the place of the definition that follows.           *)
(***************************************************************************)
EXTENDS Integers

CONSTANTS P,                                     \* a prime
          m, g, Ix, Iy, Iz,                      \* the quadrocopter
          LowVal, HighVal, sigma, TRaise,        \* the reference
          L0, L1, L2, L3, L0z, L1z, L0psy, L1psy,\* gains
          Tanh(_)                                \* math.h

Field == 0 .. P - 1

ASSUME ControlAssumption ==
  /\ P \in Nat /\ P > 5
  /\ \A a, b \in Field \ {0} : (a * b) % P # 0
  /\ {m, g, Ix, Iy, Iz, LowVal, HighVal, sigma, TRaise} \subseteq Field
  /\ {L0, L1, L2, L3, L0z, L1z, L0psy, L1psy} \subseteq Field
  /\ 0 \notin {m, Ix, Iy, Iz}
  /\ \A a \in Field : Tanh(a) \in Field

a \oplus b == (a + b) % P
a \ominus b == (a - b) % P
a \otimes b == (a * b) % P
Reciprocal == [a \in Field \ {0} |-> CHOOSE b \in Field : (a * b) % P = 1]
\* The code does not look whether it divides by zero; nothing is said of the result.
a \oslash b == IF b = 0 THEN 0 ELSE a \otimes Reciprocal[b]
Negative(a) == 0 \ominus a

-----------------------------------------------------------------------------
\* tanRh, in the variables that server_calculations copies res[1] .. res[5] to.
phiAt(t) == Tanh(sigma \otimes (t \ominus TRaise))
aR == (HighVal \ominus LowVal) \oslash 2

tanRh(t) ==
  LET phi == phiAt(t)
      phiSquared == phi \otimes phi
      phi2_1 == 1 \ominus phiSquared
      st2 == sigma \otimes sigma
      st3 == st2 \otimes sigma
      st4 == st3 \otimes sigma
  IN  [ref |-> (aR \otimes (1 \oplus phi)) \oplus LowVal,
       dotref |-> aR \otimes (sigma \otimes phi2_1),
       ddotref |-> 2 \otimes (aR \otimes (st2 \otimes (phi \otimes phi2_1))),
       d3dotref |-> Negative(2 \otimes (aR \otimes (st3 \otimes
                      (phi2_1 \otimes (1 \ominus (3 \otimes phiSquared)))))),
       d4dotref |-> 8 \otimes (aR \otimes (st4 \otimes (phi \otimes
                      ((3 \otimes (phiSquared \otimes phiSquared))
                         \ominus (5 \otimes phiSquared) \oplus 2))))]

-----------------------------------------------------------------------------
\* A polynomial, the errors of a variable and its derivatives weighted by the gains.
Weighted(gains, errors) ==
  LET sum[i \in 0 .. 4] == IF i = 0 THEN 0 ELSE sum[i - 1] \oplus (gains[i] \otimes errors[i])
  IN  sum[4]

\* V1 and V2: what the fourth derivative of x or y shall be.
Wanted(r, position, velocity, acceleration, jerk) ==
  r.d4dotref \ominus Weighted(<<L0, L1, L2, L3>>,
                              <<position \ominus r.ref, velocity \ominus r.dotref,
                                acceleration \ominus r.ddotref, jerk \ominus r.d3dotref>>)

\* Mistake: the mixed term of the product rule is taken once.
OnceTheRate(rate) == rate
TwiceTheRate(rate) == 2 \otimes rate

\* server_calculations; v holds its parameters by name, see Payload.
U1Of(V3) == m \otimes (g \oplus V3)

server_calculations(v) ==
  LET r == tanRh(v.t)
      ez == v.z \ominus r.ref
      dotEz == v.dotZ \ominus r.dotref
      V3 == r.ddotref \ominus (L0z \otimes ez) \ominus (L1z \otimes dotEz)
      U1 == U1Of(V3)
      ddotEz == (U1 \oslash m) \ominus g \ominus r.ddotref
      dotV3 == r.d3dotref \ominus (L0z \otimes dotEz) \ominus (L1z \otimes ddotEz)
      dotU1 == m \otimes dotV3
      ddotV3 == r.d4dotref \ominus (L0z \otimes ddotEz)
                  \ominus (L1z \otimes ((dotU1 \oslash m) \ominus r.d3dotref))
      ddotX == (v.theta \otimes U1) \oslash m
      d3dotX == ((v.dotTheta \otimes U1) \oplus (v.theta \otimes dotU1)) \oslash m
      V1 == Wanted(r, v.x, v.dotX, ddotX, d3dotX)
      U2 == (Ix \oslash (g \oplus V3)) \otimes
              (V1 \ominus (TwiceTheRate(v.dotTheta) \otimes dotV3) \ominus (v.theta \otimes ddotV3))
      ddotY == Negative((v.phi \otimes U1) \oslash m)
      d3dotY == Negative(((v.dotPhi \otimes U1) \oplus (v.phi \otimes dotU1)) \oslash m)
      V2 == Wanted(r, v.y, v.dotY, ddotY, d3dotY)
      U3 == Negative((Iy \oslash (g \oplus V3)) \otimes
              (V2 \oplus (TwiceTheRate(v.dotPhi) \otimes dotV3) \oplus (v.phi \otimes ddotV3)))
      V4 == r.ddotref \ominus (L0psy \otimes (v.psy \ominus r.ref))
                      \ominus (L1psy \otimes (v.dotPsy \ominus r.dotref))
      U4 == Iz \otimes V4
  IN  [i \in 0 .. 3 |-> <<U1, U2, U3, U4>>[i + 1]]

-----------------------------------------------------------------------------
\* The second derivatives of derivs.
Accelerations(theta, phi, U) ==
  [ddotX |-> (theta \otimes U.U1) \oslash m,
   ddotY |-> Negative((phi \otimes U.U1) \oslash m),
   ddotZ |-> (U.U1 \oslash m) \ominus g,
   ddotTheta |-> U.U2 \oslash Ix,
   ddotPhi |-> U.U3 \oslash Iy,
   ddotPsy |-> U.U4 \oslash Iz]

-----------------------------------------------------------------------------
(* What the two are to do together.                                        *)

\* The error of a variable of second order dies away as its two gains say.
SecondOrder(r, k0, k1, position, velocity, acceleration) ==
  (acceleration \ominus r.ddotref) \oplus (k1 \otimes (velocity \ominus r.dotref))
    \oplus (k0 \otimes (position \ominus r.ref)) = 0

\* The same of x and y, whose fourth derivative is an angle's acceleration times the
\* thrust, and what the thrust's own derivatives add.
FourthOrder(r, position, velocity, angle, rate, accel, a, dotA, ddotA) ==
  LET acceleration == angle \otimes a
      jerk == (rate \otimes a) \oplus (angle \otimes dotA)
      fourth == (accel \otimes a) \oplus (2 \otimes (rate \otimes dotA)) \oplus (angle \otimes ddotA)
  IN  (fourth \ominus r.d4dotref)
        \oplus (L3 \otimes (jerk \ominus r.d3dotref))
        \oplus (L2 \otimes (acceleration \ominus r.ddotref))
        \oplus (L1 \otimes (velocity \ominus r.dotref))
        \oplus (L0 \otimes (position \ominus r.ref)) = 0

\* Polynomials of phi, the coefficients from 0 to Degree, and their derivatives by the
\* time: phi is tanh(st * (t - tRaise)), so its own derivative is st * (1 - phi * phi).
Degree == 5
Linear(a0, a1) == [n \in 0 .. Degree |-> IF n = 0 THEN a0 ELSE IF n = 1 THEN a1 ELSE 0]
TimeDerivative(poly) ==
  [n \in 0 .. Degree |->
     sigma \otimes ((IF n < Degree THEN (n + 1) \otimes poly[n + 1] ELSE 0)
                    \ominus (IF n > 0 THEN (n - 1) \otimes poly[n - 1] ELSE 0))]
ValueAt(poly, z) ==
  LET horner[n \in 0 .. Degree + 1] ==
        IF n = Degree + 1 THEN 0 ELSE poly[n] \oplus (z \otimes horner[n + 1])
  IN  horner[0]
=============================================================================

----------------------------- MODULE Amplitudes -----------------------------
(***************************************************************************)
(* Amplitudes for TLC.  With all angles multiples of pi/4 the entries of    *)
(* every gate matrix lie in the ring generated by 1/2 and a primitive 16th  *)
(* root of unity; the ring maps onto the integers modulo 17, where 6 is     *)
(* such a root.  Two exact states that are equal have equal images, so a    *)
(* difference between images is a difference between the states.  Angles    *)
(* are counted in units of pi/4.                                            *)
(***************************************************************************)
EXTENDS Integers

P17 == 17
Amps == 0 .. P17 - 1

\* Powers of the root: Zeta[k] stands for e^(i k pi/8).
Zeta == [k \in 0 .. 15 |-> <<1, 6, 2, 12, 4, 7, 8, 14, 16, 11, 15, 5, 13, 10, 9, 3>>[k + 1]]

ImagUnit == Zeta[4]
Half == 9 \* 2 * 9 = 1 modulo 17

\* The image of e^(i t) and of e^(-i t/2) for the angle t, times a: phase().
RotateBy(t, a) == (Zeta[(2 * t) % 16] * a) % P17
HalfBackBy(t, a) == (Zeta[(-t) % 16] * a) % P17

\* cos(t/2) and sin(t/2).
CosHalf(t) == ((Zeta[t % 16] + Zeta[(-t) % 16]) * Half) % P17
SinHalf(t) == ((Zeta[(-t) % 16] - Zeta[t % 16]) * ImagUnit * Half) % P17

\* build_u3_matrix.
U3Matrix(theta, lambda, phi) ==
  [u00 |-> CosHalf(theta),
   u01 |-> (-RotateBy(lambda, SinHalf(theta))) % P17,
   u10 |-> RotateBy(phi, SinHalf(theta)),
   u11 |-> RotateBy(phi + lambda, CosHalf(theta))]

\* The matrix of an H or U3 gate; H is U3 with the constants H_U3_*.
MatrixOf(g) ==
  IF g.type = "H" THEN U3Matrix(2, 4, 0) ELSE U3Matrix(g.theta, g.lambda, g.phi)

Identity == [u00 |-> 1, u01 |-> 0, u10 |-> 0, u11 |-> 1]

\* left_multiply_u3: the matrix n applied after the matrix o.
LeftMultiply(n, o) ==
  [u00 |-> (n.u00 * o.u00 + n.u01 * o.u10) % P17,
   u01 |-> (n.u00 * o.u01 + n.u01 * o.u11) % P17,
   u10 |-> (n.u10 * o.u00 + n.u11 * o.u10) % P17,
   u11 |-> (n.u10 * o.u01 + n.u11 * o.u11) % P17]

\* The two amplitudes a kernel writes for a pair (even, odd).
EvenOf(u, even, odd) == (u.u00 * even + u.u01 * odd) % P17
OddOf(u, even, odd) == (u.u10 * even + u.u11 * odd) % P17

GateEven(g, even, odd) == EvenOf(MatrixOf(g), even, odd)
GateOdd(g, even, odd) == OddOf(MatrixOf(g), even, odd)
=============================================================================

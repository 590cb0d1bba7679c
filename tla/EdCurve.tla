------------------------------- MODULE EdCurve -------------------------------
(***************************************************************************)
(* Scalar multiplication and signature checking on the twisted Edwards     *)
(* curve (circuits/plonky2_ed25519): the native projective arithmetic that *)
(* computes constants and witnesses, and the circuits of gadgets/.         *)
(*                                                                         *)
(* The curve is a small one of the same shape: A is -1 and a square, D is  *)
(* not a square, and the base point generates a subgroup of prime order    *)
(* with a cofactor.  Coordinates are residues: that the limbs of a circuit *)
(* stand for them is the subject of NonNative.  A window has WindowBits    *)
(* bits (4 in the code) and a scalar Windows windows (64).  An encoded     *)
(* point is a number: CoordinateBits bits of y (255) below the sign of x.  *)
(***************************************************************************)
(* A signature's circuit ties the points it computes with to their         *)
(* encodings and to nothing else: it asserts neither that they are on the  *)
(* curve nor that their coordinates are reduced.  What is said about it    *)
(* here is said for reduced points of the curve, among them the one that   *)
(* its generator fills in; a prover with other points is not considered.   *)
(***************************************************************************)
EXTENDS Integers, SequencesExt

CONSTANTS
  Prime, CoefD, BasePoint, Order,   \* the curve
  StartScalar,                      \* hash_0_scalar, from Keccak of zero
  WindowBits, Windows,              \* the windows of a scalar
  CoordinateBits,                   \* bits of y in an encoding
  VerifyScalars                     \* values of s and of the hash in signatures

VARIABLE multiplied

FieldElements == 0 .. Prime - 1

CoefA == Prime - 1

Div(x, y) == (x * CHOOSE z \in FieldElements : (y * z) % Prime = 1) % Prime

\* is_valid, curve_assert_valid
OnCurve(p) ==
  (CoefA * p.x * p.x + p.y * p.y) % Prime
    = (1 + CoefD * ((p.x * p.x * p.y * p.y) % Prime)) % Prime

Points == {p \in [x : FieldElements, y : FieldElements] : OnCurve(p)}

Zero == [x |-> 0, y |-> 1]

Neg(p) == [x |-> (0 - p.x) % Prime, y |-> p.y]

\* curve_add, and the addition of affine points
CurveAdd(p, q) ==
  LET dxxyy == (CoefD * ((p.x * q.x * p.y * q.y) % Prime)) % Prime
  IN [x |-> Div((p.x * q.y + p.y * q.x) % Prime, (1 + dxxyy) % Prime),
      y |-> Div((p.y * q.y - CoefA * p.x * q.x) % Prime, (1 - dxxyy) % Prime)]

\* curve_double, and the doubling of affine points
CurveDouble(p) ==
  LET dxxyy == (CoefD * ((p.x * p.x * p.y * p.y) % Prime)) % Prime
  IN [x |-> Div((2 * p.x * p.y) % Prime, (1 + dxxyy) % Prime),
      y |-> Div((p.y * p.y - CoefA * p.x * p.x) % Prime, (1 - dxxyy) % Prime)]

\* curve_repeated_double
RepeatedDouble(p, n) == FoldLeft(LAMBDA q, k : CurveDouble(q), p, [k \in 1 .. n |-> k])

\* curve_conditional_add
ConditionalAdd(p, q, b) == IF b THEN CurveAdd(p, q) ELSE p

\* The reference: n additions of p.
Times(n, p) == FoldLeft(LAMBDA q, k : CurveAdd(q, p), Zero, [k \in 1 .. n |-> k])

(***************************************************************************)
(* Native arithmetic, in projective coordinates.                           *)
(***************************************************************************)
ToProjective(p) == [x |-> p.x, y |-> p.y, z |-> 1]

ToAffine(p) == [x |-> Div(p.x, p.z), y |-> Div(p.y, p.z)]

ProjectiveAdd(p, q) ==
  LET a == (p.z * q.z) % Prime
      b == (a * a) % Prime
      c == (p.x * q.x) % Prime
      d == (p.y * q.y) % Prime
      e == (CoefD * ((c * d) % Prime)) % Prime
      f == (b - e) % Prime
      g == (b + e) % Prime
  IN [x |-> (((a * f) % Prime) * (((p.x + p.y) * (q.x + q.y) - c - d) % Prime)) % Prime,
      y |-> (((a * g) % Prime) * ((d - CoefA * c) % Prime)) % Prime,
      z |-> (f * g) % Prime]

ProjectiveDouble(p) ==
  LET b == ((p.x + p.y) * (p.x + p.y)) % Prime
      c == (p.x * p.x) % Prime
      d == (p.y * p.y) % Prime
      e == (c * CoefA) % Prime
      f == (e + d) % Prime
      j == (f - 2 * p.z * p.z) % Prime
  IN [x |-> (((b - c - d) % Prime) * j) % Prime,
      y |-> (f * ((e - d) % Prime)) % Prime,
      z |-> (f * j) % Prime]

NumBits == WindowBits * Windows

Base == 2 ^ WindowBits

BitsOf(n) == [i \in 1 .. NumBits |-> (n \div 2 ^ (i - 1)) % 2]

\* split_nonnative_to_4_bit_limbs, to_digits
WindowsOf(n, count) == [i \in 1 .. count |-> (n \div Base ^ (i - 1)) % Base]

\* mul_naive: double and add from the lowest bit.
MulNaive(n, p) ==
  LET step(acc, bit) ==
        [sum |-> IF bit = 1 THEN ProjectiveAdd(acc.sum, acc.g) ELSE acc.sum,
         g |-> ProjectiveDouble(acc.g)]
  IN ToAffine(FoldLeft(step, [sum |-> ToProjective(Zero), g |-> ToProjective(p)], BitsOf(n)).sum)

\* mul_precompute: the powers Base^i of the point.
Powers(p) ==
  LET power[i \in 1 .. Windows] ==
        IF i = 1 THEN ToProjective(p)
        ELSE FoldLeft(LAMBDA q, k : ProjectiveDouble(q), power[i - 1], [k \in 1 .. WindowBits |-> k])
  IN power

\* mul_with_precomputation: the powers with equal digits are added first, and
\* the sum of the digits from j up is added j times.
MulYao(n, p) ==
  LET powers == Powers(p)
      digits == WindowsOf(n, Windows)
      sumOf(j) == FoldLeft(LAMBDA acc, i : IF digits[i] = j THEN ProjectiveAdd(acc, powers[i]) ELSE acc,
                           ToProjective(Zero), [i \in 1 .. Windows |-> i])
      step(acc, j) ==
        LET u == ProjectiveAdd(acc.u, sumOf(j)) IN [u |-> u, y |-> ProjectiveAdd(acc.y, u)]
  IN ToAffine(FoldLeft(step, [u |-> ToProjective(Zero), y |-> ToProjective(Zero)],
                       [k \in 1 .. Base - 1 |-> Base - k]).y)

(***************************************************************************)
(* The circuits.  Each starts from a fixed point, or a random one, and     *)
(* takes it off at the end.                                                *)
(***************************************************************************)

\* curve_scalar_mul: rando is a random multiple of the base point.
ScalarMul(n, p, rando) ==
  LET step(acc, bit) ==
        [result |-> ConditionalAdd(acc.result, acc.power, bit = 1),
         power |-> CurveDouble(acc.power)]
  IN CurveAdd(FoldLeft(step, [result |-> rando, power |-> p], BitsOf(n)).result, Neg(rando))

StartPoint == MulNaive(StartScalar, BasePoint)

\* precompute_window: the first entry keeps the start point, the others have
\* it taken off.
Precomputed(p) ==
  LET shifted[i \in 0 .. Base - 1] == IF i = 0 THEN StartPoint ELSE CurveAdd(p, shifted[i - 1])
  IN [i \in 0 .. Base - 1 |-> IF i = 0 THEN shifted[0] ELSE CurveAdd(Neg(StartPoint), shifted[i])]

\* Mutant of AddWindow: the entry of a zero window is added too.
AddWindowAlways(result, table, window) ==
  CurveAdd(RepeatedDouble(result, WindowBits), table[window])

AddWindow(result, table, window) ==
  ConditionalAdd(RepeatedDouble(result, WindowBits), table[window], window # 0)

\* curve_scalar_mul_windowed_part, from the highest of the count lowest
\* windows down.  qInit is doubled with the result.
WindowedPart(count, p, qInit, n) ==
  LET table == Precomputed(p)
      result == FoldRight(LAMBDA window, acc : AddWindow(acc, table, window),
                          WindowsOf(n, count), CurveAdd(StartPoint, qInit))
  IN CurveAdd(result, Neg(RepeatedDouble(StartPoint, count * WindowBits)))

\* curve_scalar_mul_windowed
Windowed(n, p) == WindowedPart(Windows, p, Zero, n)

\* The two halves of curve_windowed_mul_mt.rs: the proof of the high half is
\* the start of the proof of the low half.
WindowedHalves(n, p) ==
  LET half == Windows \div 2
      high == n \div Base ^ half
      low == n % Base ^ half
  IN WindowedPart(half, p, WindowedPart(half, p, Zero, high), low)

\* fixed_base_curve_mul_circuit
FixedBase(n, base) ==
  LET powers == [i \in 1 .. Windows |-> RepeatedDouble(base, WindowBits * (i - 1))]
      digits == WindowsOf(n, Windows)
      step(acc, i) == ConditionalAdd(acc, Times(digits[i], powers[i]), digits[i] # 0)
  IN CurveAdd(FoldLeft(step, StartPoint, [i \in 1 .. Windows |-> i]), Neg(StartPoint))

Scalars == 0 .. 2 ^ NumBits - 1

(***************************************************************************)
(* Encoded points and signatures.                                          *)
(***************************************************************************)
SignBit == 2 ^ CoordinateBits

Encodings == 0 .. 2 * SignBit - 1

\* point_compress: the highest bit is that of y or the lowest of x.
PointCompress(p) ==
  IF p.x % 2 = 1 /\ p.y < SignBit THEN p.y + SignBit ELSE p.y

\* The native point_decompress: it reduces y, and takes either sign of a zero
\* x; it panics where there is no such point.
PointDecompress(encoding) ==
  {p \in Points : /\ p.y = (encoding % SignBit) % Prime
                  /\ p.x = 0 \/ p.x % 2 = encoding \div SignBit}

\* The circuit's point_decompress: the point is a witness with this encoding.
Decompresses(encoding, p) == PointCompress(p) = encoding

\* make_verify_circuits: hash and s are reduced by the group order first.
VerifyCircuit(s, r, hash, pk, rPoint, pkPoint) ==
  /\ Decompresses(pk, pkPoint) /\ Decompresses(r, rPoint)
  /\ FixedBase(s % Order, BasePoint) = CurveAdd(rPoint, Windowed(hash % Order, pkPoint))

\* CurvePointDecompressionGenerator fills in what the native code computes.
VerifyGenerated(s, r, hash, pk) ==
  \E rPoint \in PointDecompress(r), pkPoint \in PointDecompress(pk) :
     VerifyCircuit(s, r, hash, pk, rPoint, pkPoint)

\* verify_message
VerifyNative(s, r, hash, pk) ==
  \E rPoint \in PointDecompress(r), pkPoint \in PointDecompress(pk) :
     /\ OnCurve(pkPoint)
     /\ MulNaive(s % Order, BasePoint) = CurveAdd(rPoint, MulNaive(hash % Order, pkPoint))

-----------------------------------------------------------------------------
ASSUME CurveAssumption ==
  /\ OnCurve(BasePoint) /\ Times(Order, BasePoint) = Zero
  /\ \A k \in 1 .. Order - 1 : Times(k, BasePoint) # Zero
  /\ Windows % 2 = 0
  /\ Order <= 2 ^ NumBits
  /\ Prime < 2 ^ CoordinateBits
  \* D is not a square and A is: no denominator is ever zero
  /\ \A x \in FieldElements : (x * x) % Prime # CoefD
  /\ \E x \in FieldElements : (x * x) % Prime = CoefA

CurveInit == multiplied = [algorithm |-> "none"]

Multiplied(algorithm, n, p, result) ==
  multiplied' = [algorithm |-> algorithm, n |-> n, p |-> p, result |-> result]

Multiply ==
  /\ multiplied.algorithm = "none"
  /\ \E n \in Scalars, p \in Points :
       \/ Multiplied("mul_naive", n, p, MulNaive(n, p))
       \/ Multiplied("mul_with_precomputation", n, p, MulYao(n, p))
       \/ \E k \in 1 .. Order - 1 :
            Multiplied("curve_scalar_mul", n, p, ScalarMul(n, p, Times(k, BasePoint)))
       \/ Multiplied("curve_scalar_mul_windowed", n, p, Windowed(n, p))
       \/ Multiplied("curve_scalar_mul_windowed_mt", n, p, WindowedHalves(n, p))
       \/ Multiplied("fixed_base_curve_mul", n, p, FixedBase(n, p))

\* Any encodings and scalars, with any points of the curve as the witness.
Verify ==
  /\ multiplied.algorithm = "none"
  /\ \E r, pk \in Encodings, h, s \in VerifyScalars :
       multiplied' = [algorithm |-> "verify", s |-> s, r |-> r, h |-> h, pk |-> pk,
                      circuit |-> \E rPoint, pkPoint \in Points :
                                    VerifyCircuit(s, r, h, pk, rPoint, pkPoint),
                      generated |-> VerifyGenerated(s, r, h, pk),
                      native |-> VerifyNative(s, r, h, pk)]

CurveNext == Multiply \/ Verify

\* The encoding of a point of the curve, with a reduced y and no sign of zero.
CanonicalEncoding(encoding) == \E p \in Points : PointCompress(p) = encoding

\* What the circuit accepts for points of the curve is what it accepts for the
\* points that its generator fills in, and this is what the native check
\* accepts, except that the native check also takes encodings that are not
\* canonical.  For the public key of a and the nonce k these are exactly the
\* signatures that a can make.
SignaturesAgree(m) ==
  /\ m.circuit = m.generated
  /\ m.generated = (m.native /\ CanonicalEncoding(m.r) /\ CanonicalEncoding(m.pk))
  /\ \A a, k \in 1 .. Order - 1 :
       /\ m.pk = PointCompress(Times(a, BasePoint))
       /\ m.r = PointCompress(Times(k, BasePoint))
       => m.generated = (m.s % Order = (k + m.h * a) % Order)

\* Every multiplication of the code computes the same multiple as repeated
\* addition, for every point of the curve and every scalar, zero windows and
\* points outside the base point's subgroup included; and the signature circuit
\* agrees with the native check, for points of the curve, on every encoding.
MultiplicationsAgree ==
  CASE multiplied.algorithm = "none" -> TRUE
    [] multiplied.algorithm = "verify" -> SignaturesAgree(multiplied)
    [] OTHER -> multiplied.result = Times(multiplied.n, multiplied.p)
=============================================================================

------------------------------- MODULE BigUint -------------------------------
(***************************************************************************)
(* Big unsigned integers of circuits/plonky2_ecdsa: a number is a sequence *)
(* of words, the lowest first.  Each operation is built from the rows of   *)
(* U32Gates; here a row stands for what U32Gates shows an accepted row to  *)
(* compute.                                                                *)
(***************************************************************************)
EXTENDS U32Gates

\* get_biguint_target
Value(limbs) ==
  LET value[i \in 0 .. Len(limbs)] ==
        IF i = 0 THEN 0 ELSE value[i - 1] + limbs[i] * Pow(B, i - 1)
  IN value[Len(limbs)]

\* to_u32_digits: no leading zeros, and no digits at all for zero.
NumDigits(v) ==
  CHOOSE n \in 0 .. v + 1 : v < Pow(B, n) /\ (n = 0 \/ v >= Pow(B, n - 1))

\* set_biguint_target: the digits with zeros up to n limbs.  It panics when
\* the value has more than n digits.
Fits(v, n) == NumDigits(v) <= n

Resized(v, n) == Digits(v, B, n)

ConstantBiguint(v) == Digits(v, B, NumDigits(v))

LimbAt(a, i) == IF i <= Len(a) THEN a[i] ELSE 0

MaxLen(a, b) == IF Len(a) > Len(b) THEN Len(a) ELSE Len(b)

\* The limbs both have are equal and the limbs only one has are zero.
ConnectBiguint(a, b) == \A i \in 1 .. MaxLen(a, b) : LimbAt(a, i) = LimbAt(b, i)

\* pad_biguints and list_le_circuit: from the lowest limb on, the result is
\* kept where the limbs are equal and replaced where they differ.
CmpBiguint(a, b) ==
  LET le(i) == LimbAt(a, i) <= LimbAt(b, i)
      ge(i) == LimbAt(b, i) <= LimbAt(a, i)
      result[i \in 0 .. MaxLen(a, b)] ==
        IF i = 0 THEN TRUE ELSE (le(i) /\ ge(i) /\ result[i - 1]) \/ ~ge(i)
  IN result[MaxLen(a, b)]

\* Mutant of AddColumns: the last carry is not pushed to the result.
AddColumnsTruncated(sums) ==
  LET carry[i \in 0 .. Len(sums)] == IF i = 0 THEN 0 ELSE (sums[i] + carry[i - 1]) \div B
  IN [i \in 1 .. Len(sums) |-> (sums[i] + carry[i - 1]) % B]

\* A carry moves up the sums of the columns; the last one is a limb of its own.
AddColumns(sums) ==
  LET carry[i \in 0 .. Len(sums)] == IF i = 0 THEN 0 ELSE (sums[i] + carry[i - 1]) \div B
  IN [i \in 1 .. Len(sums) + 1 |->
        IF i > Len(sums) THEN carry[Len(sums)] ELSE (sums[i] + carry[i - 1]) % B]

AddBiguint(a, b) == AddColumns([i \in 1 .. MaxLen(a, b) |-> LimbAt(a, i) + LimbAt(b, i)])

\* A borrow moves up the limbs; the last one is dropped.
SubBiguint(a, b) ==
  LET borrow[i \in 0 .. MaxLen(a, b)] ==
        IF i = 0 THEN 0 ELSE IF LimbAt(b, i) + borrow[i - 1] > LimbAt(a, i) THEN 1 ELSE 0
  IN [i \in 1 .. MaxLen(a, b) |-> (LimbAt(a, i) - LimbAt(b, i) - borrow[i - 1]) % B]

SumOf(words) ==
  LET sum[i \in 0 .. Len(words)] == IF i = 0 THEN 0 ELSE sum[i - 1] + words[i]
  IN sum[Len(words)]

\* What limb i of a adds to column k: the low word of the product that meets
\* in it and the high word of the one that meets below it.
ProductWords(a, b, i, k) ==
  (IF k - i + 1 \in 1 .. Len(b) THEN (a[i] * b[k - i + 1]) % B ELSE 0)
    + (IF k - i \in 1 .. Len(b) THEN (a[i] * b[k - i]) \div B ELSE 0)

MulBiguint(a, b) ==
  AddColumns([k \in 1 .. Len(a) + Len(b) |->
                SumOf([i \in 1 .. Len(a) |-> ProductWords(a, b, i, k)])])

\* mul_biguint_by_bool
Mask(a, bit) == [i \in 1 .. Len(a) |-> a[i] * bit]

\* div_rem_biguint: the limbs of the quotient, and the constraints on the
\* range-checked quotient and remainder.
DivLimbs(a, b) == IF Len(b) > Len(a) + 1 THEN 0 ELSE Len(a) + 1 - Len(b)

DivRemConstraints(a, b, div, rem) ==
  /\ ConnectBiguint(a, AddBiguint(MulBiguint(div, b), rem))
  /\ ~CmpBiguint(b, rem)

\* BigUintDivRemGenerator
DivRemGenerator(a, b) == <<Value(a) \div Value(b), Value(a) % Value(b)>>
=============================================================================

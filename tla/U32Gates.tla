------------------------------ MODULE U32Gates ------------------------------
(***************************************************************************)
(* The custom gates of circuits/plonky2_u32: one row of wires per          *)
(* operation, the polynomial constraints a verifier checks on the row      *)
(* (eval_unfiltered and its packed and recursive copies) and the generator *)
(* that fills the row from its inputs (run_once).                          *)
(*                                                                         *)
(* The circuit is scaled down, keeping the relation the gates rely on: a   *)
(* word has WordBits bits instead of 32, and the field has                 *)
(* B^2 - B + 1 elements, as Goldilocks has for B = 2^32.  A word is split  *)
(* into limbs of LimbBits bits (2 in the code).  One operation of a row is *)
(* modelled; a gate repeats it num_ops times over disjoint wires.          *)
(*                                                                         *)
(* A row is filled once: by the generator, or by any values that satisfy   *)
(* the constraints.  A wire that a constraint equates with other wires is  *)
(* given that value and a range-checked wire is drawn from the roots of    *)
(* its product, since any other row is rejected.                           *)
(***************************************************************************)
EXTENDS Integers, SequencesExt, Powers

CONSTANTS
  WordBits,     \* 32 in the code
  LimbBits,     \* limb_bits()
  NumAddends,   \* num_addends of U32AddManyGate
  CarryLimbs,   \* num_carry_limbs() of U32AddManyGate
  NumChunks,    \* num_chunks of ComparisonGate
  ChunkBits     \* chunk_bits() of ComparisonGate

VARIABLE row

(***************************************************************************)
(* The field.                                                              *)
(***************************************************************************)
B == Pow(2, WordBits)

P == B * B - B + 1

LimbBase == Pow(2, LimbBits)

CarryBase == Pow(LimbBase, CarryLimbs)

ChunkSize == Pow(2, ChunkBits)

F == 0 .. P - 1

Word == 0 .. B - 1

Bit == {0, 1}

Add(x, y) == (x + y) % P

Sub(x, y) == (x - y) % P

Mul(x, y) == (x * y) % P

Reciprocal(x) == CHOOSE y \in F : Mul(x, y) = 1

NumLimbs == WordBits \div LimbBits

ASSUME GatesAssumption ==
  /\ {WordBits, LimbBits, NumAddends, CarryLimbs, NumChunks, ChunkBits}
       \subseteq Nat \ {0}
  /\ WordBits = NumLimbs * LimbBits /\ WordBits >= 2
  \* a carry of every addend at its largest still fits its limbs
  /\ NumAddends <= CarryBase
  /\ B * CarryBase <= P
  \* num_bits < bits_u64(F::ORDER), and the difference of two chunks has a sign
  /\ Pow(ChunkSize, NumChunks) <= P
  /\ 2 * ChunkSize <= P
  \* the order of the field is a prime
  /\ \A x \in 1 .. P - 1 : \E y \in 1 .. P - 1 : Mul(x, y) = 1

\* reduce_with_powers, and the loops that combine limbs from the top.
Combine(limbs, base) ==
  LET acc[i \in 0 .. Len(limbs)] ==
        IF i = 0 THEN 0 ELSE Add(Mul(acc[i - 1], base), limbs[Len(limbs) + 1 - i])
  IN acc[Len(limbs)]

\* The unfold and scan loops of the generators: n digits of v, the lowest first.
Digits(v, base, n) == [i \in 1 .. n |-> (v \div Pow(base, i - 1)) % base]

\* (x - 0)(x - 1)...(x - (n - 1)), zero for the values below n only.
RangeProduct(x, n) ==
  LET product[k \in 0 .. n] == IF k = 0 THEN 1 ELSE Mul(product[k - 1], Sub(x, k - 1))
  IN product[n]

RangeChecked(n) == {x \in F : RangeProduct(x, n) = 0}

Limb == RangeChecked(LimbBase)

LowLimbs(limbs) == SubSeq(limbs, 1, NumLimbs)

HighLimbs(limbs) == SubSeq(limbs, NumLimbs + 1, Len(limbs))

Unfilled == [gate |-> "none"]

(***************************************************************************)
(* U32ArithmeticGate: x * y + z as a low and a high word.                  *)
(***************************************************************************)

\* Mutant of Canonical: the row is not checked for the canonical form.
CanonicalUnchecked(low, high, inverse) == inverse \in F /\ low \in F /\ high \in F

\* The comments on the constraint: either the high word is not u32::MAX, or
\* the low word is zero.  Without it a value v below B - 1 could be given as
\* v + P.
Canonical(low, high, inverse) ==
  Mul(Sub(Mul(inverse, Sub(B - 1, high)), 1), low) = 0

ArithmeticConstraints(r) ==
  /\ Canonical(r.low, r.high, r.inverse)
  /\ Add(Mul(r.high, B), r.low) = Add(Mul(r.x, r.y), r.z)
  /\ \A j \in 1 .. 2 * NumLimbs : RangeProduct(r.limbs[j], LimbBase) = 0
  /\ Combine(LowLimbs(r.limbs), LimbBase) = r.low
  /\ Combine(HighLimbs(r.limbs), LimbBase) = r.high

ArithmeticGenerator(x, y, z) ==
  LET output == Add(Mul(x, y), z)
      high == output \div B
      diff == B - 1 - high
  IN [gate |-> "arithmetic", by |-> "generator", x |-> x, y |-> y, z |-> z,
      low |-> output % B, high |-> high,
      inverse |-> IF diff = 0 THEN 0 ELSE Reciprocal(diff),
      limbs |-> Digits(output, LimbBase, 2 * NumLimbs)]

ArithmeticCorrect(r) == r.high * B + r.low = r.x * r.y + r.z

(***************************************************************************)
(* U32AddManyGate: the sum of the addends and a carry, as a word and a     *)
(* carry.                                                                  *)
(***************************************************************************)
SumWires(addends, carry) ==
  LET sum[i \in 0 .. NumAddends] == IF i = 0 THEN carry ELSE Add(sum[i - 1], addends[i])
  IN sum[NumAddends]

AddManyConstraints(r) ==
  /\ Add(Mul(r.carryOut, B), r.result) = SumWires(r.addends, r.carry)
  /\ \A j \in 1 .. NumLimbs + CarryLimbs : RangeProduct(r.limbs[j], LimbBase) = 0
  /\ Combine(LowLimbs(r.limbs), LimbBase) = r.result
  /\ Combine(HighLimbs(r.limbs), LimbBase) = r.carryOut

AddManyGenerator(addends, carry) ==
  LET output == SumWires(addends, carry)
  IN [gate |-> "add_many", by |-> "generator", addends |-> addends, carry |-> carry,
      result |-> output % B, carryOut |-> output \div B,
      limbs |-> Digits(output % B, LimbBase, NumLimbs)
                  \o Digits(output \div B, LimbBase, CarryLimbs)]

AddManyCorrect(r) ==
  LET sum[i \in 0 .. NumAddends] == IF i = 0 THEN r.carry ELSE sum[i - 1] + r.addends[i]
  IN r.carryOut * B + r.result = sum[NumAddends]

(***************************************************************************)
(* U32SubtractionGate: x - y - borrow, as a word and the borrow it needs.  *)
(***************************************************************************)
SubtractionConstraints(r) ==
  /\ r.result = Add(Sub(Sub(r.x, r.y), r.borrow), Mul(B, r.borrowOut))
  /\ \A j \in 1 .. NumLimbs : RangeProduct(r.limbs[j], LimbBase) = 0
  /\ Combine(r.limbs, LimbBase) = r.result
  /\ Mul(r.borrowOut, Sub(1, r.borrowOut)) = 0

SubtractionGenerator(x, y, borrow) ==
  LET initial == Sub(Sub(x, y), borrow)
      borrowOut == IF initial > B THEN 1 ELSE 0
      result == Add(initial, Mul(B, borrowOut))
  IN [gate |-> "subtraction", by |-> "generator", x |-> x, y |-> y, borrow |-> borrow,
      result |-> result, borrowOut |-> borrowOut,
      limbs |-> Digits(result, LimbBase, NumLimbs)]

SubtractionCorrect(r) ==
  /\ r.result - r.borrowOut * B = r.x - r.y - r.borrow
  /\ r.borrowOut = IF r.y + r.borrow > r.x THEN 1 ELSE 0

(***************************************************************************)
(* U32RangeCheckGate: the input is a word.  The generator truncates a      *)
(* wider input to a word, and its row is then rejected.                    *)
(***************************************************************************)
RangeCheckConstraints(r) ==
  /\ Combine(r.limbs, LimbBase) = r.input
  /\ \A j \in 1 .. NumLimbs : RangeProduct(r.limbs[j], LimbBase) = 0

RangeCheckGenerator(input) ==
  [gate |-> "range_check", by |-> "generator", input |-> input,
   limbs |-> Digits(input % B, LimbBase, NumLimbs)]

RangeCheckCorrect(r) == r.input \in Word

(***************************************************************************)
(* ComparisonGate: first <= second, decided by the most significant chunk  *)
(* in which they differ.                                                   *)
(***************************************************************************)
\* most_significant_diff_so_far before chunk i + 1, for the wires of a row.
DiffSoFar(r, i) ==
  IF i = 0 THEN 0
  ELSE Add(r.mid[i], Mul(Sub(1, r.equal[i]), Sub(r.seconds[i], r.firsts[i])))

ComparisonConstraints(r) ==
  /\ Combine(r.firsts, ChunkSize) = r.first
  /\ Combine(r.seconds, ChunkSize) = r.second
  /\ \A i \in 1 .. NumChunks :
       LET difference == Sub(r.seconds[i], r.firsts[i]) IN
       /\ RangeProduct(r.firsts[i], ChunkSize) = 0
       /\ RangeProduct(r.seconds[i], ChunkSize) = 0
       /\ Mul(difference, r.dummy[i]) = Sub(1, r.equal[i])
       /\ Mul(r.equal[i], difference) = 0
       /\ r.mid[i] = Mul(r.equal[i], DiffSoFar(r, i - 1))
  /\ r.diff = DiffSoFar(r, NumChunks)
  /\ \A i \in 1 .. ChunkBits + 1 : Mul(r.bits[i], Sub(1, r.bits[i])) = 0
  /\ Add(ChunkSize, r.diff) = Combine(r.bits, 2)
  /\ r.result = r.bits[ChunkBits + 1]

\* The chunks in which the inputs differ, among the lowest i.
Differing(firsts, seconds, i) == {k \in 1 .. i : firsts[k] # seconds[k]}

\* Mutant of MostSignificantDiff: the first differing chunk decides.
LeastSignificantDiff(firsts, seconds, i) ==
  LET differing == Differing(firsts, seconds, i)
      bottom == CHOOSE k \in differing : \A l \in differing : k <= l
  IN IF differing = {} THEN 0 ELSE Sub(seconds[bottom], firsts[bottom])

\* The generator's loop: the difference of the highest differing chunk of
\* the lowest i, zero if there is none.
MostSignificantDiff(firsts, seconds, i) ==
  LET differing == Differing(firsts, seconds, i)
      top == CHOOSE k \in differing : \A l \in differing : l <= k
  IN IF differing = {} THEN 0 ELSE Sub(seconds[top], firsts[top])

ComparisonGenerator(first, second) ==
  LET firsts == Digits(first, ChunkSize, NumChunks)
      seconds == Digits(second, ChunkSize, NumChunks)
      same(i) == firsts[i] = seconds[i]
      diff == MostSignificantDiff(firsts, seconds, NumChunks)
  IN [gate |-> "comparison", by |-> "generator", first |-> first, second |-> second,
      firsts |-> firsts, seconds |-> seconds,
      equal |-> [i \in 1 .. NumChunks |-> IF same(i) THEN 1 ELSE 0],
      dummy |-> [i \in 1 .. NumChunks |->
                   IF same(i) THEN 1 ELSE Reciprocal(Sub(seconds[i], firsts[i]))],
      mid |-> [i \in 1 .. NumChunks |->
                 IF same(i) THEN MostSignificantDiff(firsts, seconds, i - 1) ELSE 0],
      diff |-> diff,
      bits |-> Digits(Add(ChunkSize, diff), 2, ChunkBits + 1),
      result |-> IF first <= second THEN 1 ELSE 0]

ComparisonCorrect(r) == r.result = IF r.first <= r.second THEN 1 ELSE 0

-----------------------------------------------------------------------------
(***************************************************************************)
(* Filling a row.                                                          *)
(***************************************************************************)
GatesInit == row = Unfilled

\* The carry into a sum is the carry out of the sum of the limbs below it.
Carry == 0 .. CarryBase - 1

Generate ==
  /\ row = Unfilled
  /\ \/ \E x, y, z \in Word : row' = ArithmeticGenerator(x, y, z)
     \/ \E addends \in [1 .. NumAddends -> Word], carry \in Carry :
          row' = AddManyGenerator(addends, carry)
     \/ \E x, y \in Word, borrow \in Bit : row' = SubtractionGenerator(x, y, borrow)
     \/ \E input \in F : row' = RangeCheckGenerator(input)
     \/ \E first, second \in 0 .. Pow(ChunkSize, NumChunks) - 1 :
          row' = ComparisonGenerator(first, second)

ChooseArithmetic ==
  /\ row = Unfilled
  /\ \E x, y, z \in Word, limbs \in [1 .. 2 * NumLimbs -> Limb], inverse \in F :
       LET r == [gate |-> "arithmetic", by |-> "any", x |-> x, y |-> y, z |-> z,
                 low |-> Combine(LowLimbs(limbs), LimbBase),
                 high |-> Combine(HighLimbs(limbs), LimbBase),
                 inverse |-> inverse, limbs |-> limbs]
       IN ArithmeticConstraints(r) /\ row' = r

ChooseAddMany ==
  /\ row = Unfilled
  /\ \E addends \in [1 .. NumAddends -> Word], carry \in Carry,
        limbs \in [1 .. NumLimbs + CarryLimbs -> Limb] :
       LET r == [gate |-> "add_many", by |-> "any", addends |-> addends, carry |-> carry,
                 result |-> Combine(LowLimbs(limbs), LimbBase),
                 carryOut |-> Combine(HighLimbs(limbs), LimbBase), limbs |-> limbs]
       IN AddManyConstraints(r) /\ row' = r

ChooseSubtraction ==
  /\ row = Unfilled
  /\ \E x, y \in Word, borrow \in Bit, borrowOut \in F, limbs \in [1 .. NumLimbs -> Limb] :
       LET r == [gate |-> "subtraction", by |-> "any", x |-> x, y |-> y, borrow |-> borrow,
                 result |-> Combine(limbs, LimbBase), borrowOut |-> borrowOut,
                 limbs |-> limbs]
       IN SubtractionConstraints(r) /\ row' = r

ChooseRangeCheck ==
  /\ row = Unfilled
  /\ \E input \in F, limbs \in [1 .. NumLimbs -> Limb] :
       LET r == [gate |-> "range_check", by |-> "any", input |-> input, limbs |-> limbs]
       IN RangeCheckConstraints(r) /\ row' = r

\* The wires that the constraints determine from the chunks and the dummies.
EqualWires(firsts, seconds, dummy) ==
  [i \in 1 .. NumChunks |-> Sub(1, Mul(Sub(seconds[i], firsts[i]), dummy[i]))]

MidWires(firsts, seconds, equal) ==
  LET mid[i \in 1 .. NumChunks] ==
        IF i = 1 THEN 0
        ELSE Mul(equal[i], Add(mid[i - 1], Mul(Sub(1, equal[i - 1]),
                                               Sub(seconds[i - 1], firsts[i - 1]))))
  IN mid

ComparisonOf(firsts, seconds, dummy, bits) ==
  LET equal == EqualWires(firsts, seconds, dummy)
  IN [gate |-> "comparison", by |-> "any",
      first |-> Combine(firsts, ChunkSize), second |-> Combine(seconds, ChunkSize),
      firsts |-> firsts, seconds |-> seconds, equal |-> equal, dummy |-> dummy,
      mid |-> MidWires(firsts, seconds, equal),
      diff |-> Sub(Combine(bits, 2), ChunkSize), bits |-> bits,
      result |-> bits[ChunkBits + 1]]

ChooseComparison ==
  /\ row = Unfilled
  /\ \E firsts, seconds \in [1 .. NumChunks -> RangeChecked(ChunkSize)] :
     \E dummy \in [1 .. NumChunks -> F] :
       /\ \A i \in 1 .. NumChunks :
            Mul(EqualWires(firsts, seconds, dummy)[i], Sub(seconds[i], firsts[i])) = 0
       /\ \E bits \in [1 .. ChunkBits + 1 -> Bit] :
            /\ ComparisonConstraints(ComparisonOf(firsts, seconds, dummy, bits))
            /\ row' = ComparisonOf(firsts, seconds, dummy, bits)

GatesNext ==
  \/ Generate
  \/ ChooseArithmetic
  \/ ChooseAddMany
  \/ ChooseSubtraction
  \/ ChooseRangeCheck
  \/ ChooseComparison

GatesSpec == GatesInit /\ [][GatesNext]_row

Accepted(r) ==
  CASE r.gate = "arithmetic" -> ArithmeticConstraints(r)
    [] r.gate = "add_many" -> AddManyConstraints(r)
    [] r.gate = "subtraction" -> SubtractionConstraints(r)
    [] r.gate = "range_check" -> RangeCheckConstraints(r)
    [] r.gate = "comparison" -> ComparisonConstraints(r)

Correct(r) ==
  CASE r.gate = "arithmetic" -> ArithmeticCorrect(r)
    [] r.gate = "add_many" -> AddManyCorrect(r)
    [] r.gate = "subtraction" -> SubtractionCorrect(r)
    [] r.gate = "range_check" -> RangeCheckCorrect(r)
    [] r.gate = "comparison" -> ComparisonCorrect(r)

\* Whatever values fill a row, if the constraints accept it its outputs are
\* the integers the operation names: no value of the field that wraps around
\* its order, and no auxiliary wire, makes another output acceptable.
AcceptedRowsCorrect == row # Unfilled => (Accepted(row) => Correct(row))

\* The generator fills a row that the constraints accept, for every input
\* that is in range.
GeneratedRowsAccepted ==
  (row # Unfilled /\ row.by = "generator" /\ (row.gate = "range_check" => row.input \in Word))
    => Accepted(row)
=============================================================================

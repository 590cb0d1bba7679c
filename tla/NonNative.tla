------------------------------ MODULE NonNative ------------------------------
(***************************************************************************)
(* Arithmetic modulo the prime of another field                            *)
(* (circuits/plonky2_ed25519, gadgets/nonnative.rs): a chain of operations *)
(* whose result is an operand of the next one.  The result of a row is a   *)
(* witness: the row's generator computes it, and the constraints only      *)
(* relate it to the operands.  As in U32Gates a row is filled by the       *)
(* generator or by any values that satisfy the constraints.                *)
(*                                                                         *)
(* An element is held as limbs and is not always reduced: an addition lets *)
(* its sum be the modulus itself, and the constraints of the other         *)
(* operations do not compare their results with the modulus.  The          *)
(* generators reduce their operands, the constraints do not.               *)
(***************************************************************************)
EXTENDS BigUint

CONSTANTS
  Modulus,     \* FF::order()
  MaxOps       \* bound on the length of a chain

VARIABLES
  operand,     \* limbs of the result of the chain so far
  residue,     \* what the chain computes in the field
  ops,         \* operations done
  filled       \* how the last row was filled and what became of it

nnVars == <<operand, residue, ops, filled>>

ASSUME NonNativeAssumption ==
  /\ Modulus \in Nat \ {0, 1}
  /\ MaxOps \in Nat
  \* FF is a field
  /\ \A x \in 1 .. Modulus - 1 : \E y \in 1 .. Modulus - 1 : (x * y) % Modulus = 1

\* num_nonnative_limbs
NNLimbs == NumDigits(Modulus)

ModulusLimbs == ConstantBiguint(Modulus)

Elements == 0 .. Modulus - 1

AllLimbs(n) == [1 .. n -> Word]

\* The value the generators read: from_noncanonical_biguint reduces it.
Reduced(a) == Value(a) % Modulus

FieldInverse(x) == CHOOSE y \in Elements : (x * y) % Modulus = 1

(***************************************************************************)
(* The constraints, on operands, result and auxiliary witness.             *)
(***************************************************************************)
AddNonnative(a, b, sum, overflow) ==
  /\ ConnectBiguint(AddBiguint(a, b), AddBiguint(sum, Mask(ModulusLimbs, overflow)))
  /\ CmpBiguint(sum, ModulusLimbs)

\* The sum of the summands, one after the other.
AddAll(summands) ==
  LET sum[i \in 0 .. Len(summands)] ==
        IF i = 0 THEN <<>> ELSE AddBiguint(sum[i - 1], summands[i])
  IN sum[Len(summands)]

AddManyNonnative(summands, sum, overflow) ==
  /\ ConnectBiguint(AddAll(summands),
                    AddBiguint(sum, MulBiguint(ModulusLimbs, <<overflow>>)))
  /\ CmpBiguint(sum, ModulusLimbs)

SubNonnative(a, b, diff, overflow) ==
  ConnectBiguint(a, SubBiguint(AddBiguint(diff, b), Mask(ModulusLimbs, overflow)))

MulNonnative(a, b, prod, overflow) ==
  ConnectBiguint(MulBiguint(a, b), AddBiguint(prod, MulBiguint(ModulusLimbs, overflow)))

InvNonnative(x, inv, div) ==
  ConnectBiguint(MulBiguint(x, inv),
                 AddBiguint(MulBiguint(ModulusLimbs, div), ConstantBiguint(1)))

(***************************************************************************)
(* The generators: a result and an auxiliary value, as numbers.            *)
(***************************************************************************)

\* A sum equal to the modulus is left as it is.
AddGenerator(a, b) ==
  LET sum == Reduced(a) + Reduced(b)
  IN IF sum > Modulus THEN <<sum - Modulus, 1>> ELSE <<sum, 0>>

SumReduced(summands) == SumOf([i \in 1 .. Len(summands) |-> Reduced(summands[i])])

MultipleAddsGenerator(summands) ==
  <<SumReduced(summands) % Modulus, SumReduced(summands) \div Modulus>>

\* Mutant of SubGenerator: the operands of the borrowed difference are swapped.
SubGeneratorSwapped(a, b) ==
  IF Reduced(a) >= Reduced(b) THEN <<Reduced(a) - Reduced(b), 0>>
  ELSE <<Modulus + Reduced(b) - Reduced(a), 1>>

SubGenerator(a, b) ==
  IF Reduced(a) >= Reduced(b) THEN <<Reduced(a) - Reduced(b), 0>>
  ELSE <<Modulus + Reduced(a) - Reduced(b), 1>>

MulGenerator(a, b) ==
  <<(Reduced(a) * Reduced(b)) % Modulus, (Reduced(a) * Reduced(b)) \div Modulus>>

InvGenerator(x) ==
  LET inv == FieldInverse(Reduced(x)) IN <<inv, (Reduced(x) * inv) \div Modulus>>

-----------------------------------------------------------------------------
(***************************************************************************)
(* One operation of the chain.  "panic" is a generator that does not end:  *)
(* the inverse of zero, and add_many_nonnative, which takes the first      *)
(* digit of an overflow that has none when the sum is below the modulus.   *)
(***************************************************************************)
NNInit ==
  /\ \E v \in Elements : operand = Resized(v, NNLimbs) /\ residue = v
  /\ ops = 0
  /\ filled = [by |-> "none", outcome |-> "accepted", unreduced |-> FALSE]

Ready == ops < MaxOps /\ filled.outcome = "accepted"

Fill(by, outcome, result, value, unreduced) ==
  /\ operand' = result
  /\ residue' = value % Modulus
  /\ ops' = ops + 1
  /\ filled' = [by |-> by, outcome |-> outcome, unreduced |-> unreduced]

\* A generated row: result and auxiliary value are written to their limbs,
\* and the constraints accept the row or the proof fails.
Generated(result, accepted, value, used) ==
  Fill("generator", IF accepted THEN "accepted" ELSE "rejected", result, value,
       \E a \in used : Value(a) >= Modulus)

Panics == Fill("generator", "panic", operand, residue, FALSE)

\* The second operand: an element in all its limbs, or a constant in as many
\* as its digits need.
Constants == {Resized(v, NNLimbs) : v \in Elements} \cup {ConstantBiguint(v) : v \in Elements}

MulOverflowLimbs(a, b) == Len(a) + Len(b) - NNLimbs

GenerateRow ==
  /\ Ready
  /\ \E b \in Constants :
       \/ LET g == AddGenerator(operand, b) r == Resized(g[1], NNLimbs)
          IN Generated(r, AddNonnative(operand, b, r, g[2]), residue + Value(b), {operand})
       \/ LET g == SubGenerator(operand, b) r == Resized(g[1], NNLimbs)
          IN Generated(r, SubNonnative(operand, b, r, g[2]), residue - Value(b), {operand})
       \/ LET g == MulGenerator(operand, b) r == Resized(g[1], NNLimbs)
          IN Generated(r, MulNonnative(operand, b, r, Resized(g[2], MulOverflowLimbs(operand, b))),
                       residue * Value(b), {operand})
       \/ \E bit \in Bit :   \* if_nonnative
            LET x == Mask(operand, bit) y == Mask(b, 1 - bit)
                g == AddGenerator(x, y) r == Resized(g[1], NNLimbs)
            IN Generated(r, AddNonnative(x, y, r, g[2]),
                         IF bit = 1 THEN residue ELSE Value(b), {x})
       \/ LET s == <<operand, b, b>> g == MultipleAddsGenerator(s) r == Resized(g[1], NNLimbs)
          IN IF g[2] = 0 THEN Panics
             ELSE Generated(r, AddManyNonnative(s, r, g[2]), residue + 2 * Value(b), {operand})

GenerateUnaryRow ==
  /\ Ready
  /\ \/ LET g == SubGenerator(<<>>, operand) r == Resized(g[1], NNLimbs)   \* neg_nonnative
        IN Generated(r, SubNonnative(<<>>, operand, r, g[2]), 0 - residue, {operand})
     \/ IF Reduced(operand) = 0 THEN Panics
        ELSE LET g == InvGenerator(operand) n == Len(operand) r == Resized(g[1], n)
             IN Generated(r, InvNonnative(operand, r, Resized(g[2], n)),
                          FieldInverse(residue), {operand})
     \/ LET g == DivRemGenerator(operand, ModulusLimbs)                     \* reduce
            r == Resized(g[2], NNLimbs)
        IN Generated(r, DivRemConstraints(operand, ModulusLimbs,
                                          Resized(g[1], DivLimbs(operand, ModulusLimbs)), r),
                     residue, {})

Chosen(result, value) == Fill("any", "accepted", result, value, FALSE)

ChooseRow ==
  /\ Ready
  /\ \E b \in AllLimbs(NNLimbs), result \in AllLimbs(NNLimbs) :
       \/ \E overflow \in Bit :
            /\ AddNonnative(operand, b, result, overflow)
            /\ Chosen(result, residue + Value(b))
       \/ \E overflow \in Bit :
            /\ SubNonnative(operand, b, result, overflow)
            /\ Chosen(result, residue - Value(b))
       \/ \E overflow \in AllLimbs(MulOverflowLimbs(operand, b)) :
            /\ MulNonnative(operand, b, result, overflow)
            /\ Chosen(result, residue * Value(b))
       \/ \E overflow \in Word :
            /\ AddManyNonnative(<<operand, b, b>>, result, overflow)
            /\ Chosen(result, residue + 2 * Value(b))

ChooseUnaryRow ==
  /\ Ready
  /\ \E result \in AllLimbs(NNLimbs) :
       \/ \E overflow \in Bit :
            /\ SubNonnative(<<>>, operand, result, overflow)
            /\ Chosen(result, 0 - residue)
       \/ \E div \in AllLimbs(Len(operand)) :
            /\ InvNonnative(operand, result, div)
            /\ Chosen(result, FieldInverse(residue))
       \/ \E div \in AllLimbs(DivLimbs(operand, ModulusLimbs)) :
            /\ DivRemConstraints(operand, ModulusLimbs, div, result)
            /\ Chosen(result, residue)

NNNext == GenerateRow \/ GenerateUnaryRow \/ ChooseRow \/ ChooseUnaryRow

NNSpec == NNInit /\ [][NNNext]_nnVars

\* Along any chain of accepted rows, reduced or not, the limbs stand for the
\* residue the operations compute in the field.
ChainComputesResidue == filled.outcome = "accepted" => Value(operand) % Modulus = residue

\* The constraints accept what the generators write unless an operand is a
\* sum that was left equal to the modulus (or was not reduced by whoever
\* filled an earlier row): generators reduce operands, constraints do not.
RejectedOnlyUnreduced == filled.outcome = "rejected" => filled.unreduced
=============================================================================

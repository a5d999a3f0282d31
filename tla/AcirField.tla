------------------------------ MODULE AcirField ------------------------------
(***************************************************************************)
(* The prime field F of ACIR (acvm's AcirField) scaled down so that TLC   *)
(* can enumerate it, and the value-level view of an AcirVar that the      *)
(* integer layer of acir_context/mod.rs works on.                          *)
(*                                                                         *)
(* The real field has max_num_bits() = 254 and the code compares against  *)
(* the u128 width (128 bits, halves of 64).  Here P is a small prime and  *)
(* U128Bits plays the role of 128; the relations the code relies on are   *)
(* stated as ASSUMEs so that the same branches are taken as in the real   *)
(* configuration (see README, "Scaling").                                  *)
(***************************************************************************)
EXTENDS Integers

CONSTANTS
    P,          \* the field modulus (a prime)
    U128Bits    \* the width the code treats natively as u128

\* F::num_bits(): the number of significant bits of a canonical element.
RECURSIVE NumBits(_)
NumBits(x) == IF x = 0 THEN 0 ELSE 1 + NumBits(x \div 2)

\* F::max_num_bits(): the bit length of the modulus.
MaxNumBits == NumBits(P)

\* The half width used to split u128 products (power_of_two(64)).
HalfBits == U128Bits \div 2

ASSUME /\ P > 2
       /\ \A d \in 2..P-1 : P % d # 0
       \* a division by a constant of its own width needs no overflow guard
       \* (real field: 128 + 1 < 253) ...
       /\ U128Bits + 1 < MaxNumBits - 1
       \* ... while a u128 division by a witness does (128 + 128 >= 253)
       /\ 2 * U128Bits >= MaxNumBits - 1
       \* splitting q and b at HalfBits keeps q*b + r below the modulus
       /\ 2^(U128Bits + HalfBits) + 2^U128Bits <= P

FieldElements == 0..(P - 1)

FAdd(a, b) == (a + b) % P
FSub(a, b) == (a - b) % P
FMul(a, b) == (a * b) % P

\* F::inverse(), which returns zero for zero.
FInverse(a) ==
    IF a = 0 THEN 0 ELSE CHOOSE i \in FieldElements : FMul(a, i) = 1

\* power_of_two::<F>(power): 2^power as a field element; the code panics
\* when power >= max_num_bits (callers are checked for that separately).
PowerOfTwo(power) == 2^power % P

(***************************************************************************)
(* An AcirVar seen by its value: `v` is the field element it takes at     *)
(* solving time and `c` records whether AcirContext holds it as           *)
(* AcirVarData::Const (known at compile time) or as a witness/expression. *)
(* Every branch of the integer layer on `to_const()` / `is_constant_one`  *)
(* is a branch on `c`.                                                     *)
(***************************************************************************)
Const(x) == [v |-> x % P, c |-> TRUE]
Wit(x)   == [v |-> x % P, c |-> FALSE]
Zero == Const(0)
One  == Const(1)

Operands == [v : FieldElements, c : BOOLEAN]

IsConstantOne(x) == x.c /\ x.v = 1

\* add_var / sub_var: the sum of two constants folds to a constant.
AddVar(a, b) == [v |-> FAdd(a.v, b.v), c |-> a.c /\ b.c]
SubVar(a, b) == [v |-> FSub(a.v, b.v), c |-> a.c /\ b.c]

\* mul_var: constant when both are, or when either is the constant zero.
MulVar(a, b) ==
    [v |-> FMul(a.v, b.v),
     c |-> (a.c /\ b.c) \/ (a.c /\ a.v = 0) \/ (b.c /\ b.v = 0)]

\* eq_var: a constant when the difference is, else the is-equal witness,
\* which the emitted constraints pin to 1 or 0.
EqVar(a, b) == [v |-> IF a.v = b.v THEN 1 ELSE 0, c |-> a.c /\ b.c]
=============================================================================

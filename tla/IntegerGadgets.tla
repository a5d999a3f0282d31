---------------------------- MODULE IntegerGadgets ----------------------------
(***************************************************************************)
(* The bounded-integer layer of AcirContext (acir_context/mod.rs): range   *)
(* checks, bound_constraint_with_offset and euclidean_division_var.        *)
(*                                                                         *)
(* Each gadget is split the way the code is: the compile-time part (which *)
(* branch is taken, which bit sizes are used, whether the compiler        *)
(* panics) depends only on the operands' values and on which of them are  *)
(* constants; the run-time part says which values the emitted opcodes     *)
(* accept.  A Brillig call is an unconstrained oracle: when the predicate *)
(* holds the prover may return any field element, when it does not the    *)
(* call is skipped and returns zero.                                       *)
(***************************************************************************)
EXTENDS AcirField, Bitwise, SequencesExt

(***************************************************************************)
(* range_constrain_var(variable, Unsigned{bits}, None, predicate): a      *)
(* constant that fits needs no opcode; otherwise variable * predicate is  *)
(* witnessed and range checked.  TRUE iff the emitted opcodes hold.       *)
(***************************************************************************)
RangeConstrainVar(x, bits, predicate) ==
    IF x.c /\ NumBits(x.v) <= bits
    THEN TRUE
    ELSE NumBits(MulVar(x, predicate).v) <= bits

\* Mutant: r computed as 2^bit_size - rhs_offset (off by one).
BoundConstraintWithOffsetOffByOne(lhs, rhs, offset, bits, predicate) ==
    LET optimisable == rhs.c /\ NumBits(rhs.v) <= U128Bits /\ rhs.v # 0
        moveOffset  == optimisable /\ IsConstantOne(offset) /\ rhs.v >= 1
        lhsOffset   == IF moveOffset THEN lhs ELSE AddVar(lhs, offset)
        rhsOffset   == IF moveOffset THEN rhs.v - 1 ELSE rhs.v
        bitSize     == NumBits(rhsOffset)
        r           == 2^bitSize - rhsOffset
    IN IF optimisable /\ bits + NumBits(r) < MaxNumBits
       THEN RangeConstrainVar(AddVar(lhsOffset, Const(r)), bitSize, predicate)
       ELSE RangeConstrainVar(SubVar(rhs, lhsOffset), bits, predicate)

(***************************************************************************)
(* bound_constraint_with_offset(lhs, rhs, offset, bits, predicate): the   *)
(* opcodes meant to hold iff lhs + offset <= rhs (when predicate is 1).   *)
(* The optimised branch applies to a non-zero constant rhs of at most     *)
(* u128 width and moves a constant-one offset onto rhs (lhs_offset is     *)
(* reassigned to lhs).  When lhs_offset + r could overflow it falls back  *)
(* to the general branch, which uses that reassigned lhs_offset.          *)
(***************************************************************************)
BoundConstraintWithOffset(lhs, rhs, offset, bits, predicate) ==
    LET optimisable == rhs.c /\ NumBits(rhs.v) <= U128Bits /\ rhs.v # 0
        moveOffset  == optimisable /\ IsConstantOne(offset) /\ rhs.v >= 1
        lhsOffset   == IF moveOffset THEN lhs ELSE AddVar(lhs, offset)
        rhsOffset   == IF moveOffset THEN rhs.v - 1 ELSE rhs.v
        bitSize     == NumBits(rhsOffset)
        r           == (2^bitSize - 1) - rhsOffset
    IN IF optimisable /\ bits + NumBits(r) < MaxNumBits
       THEN RangeConstrainVar(AddVar(lhsOffset, Const(r)), bitSize, predicate)
       ELSE RangeConstrainVar(SubVar(rhs, lhsOffset), bits, predicate)

\* Mutant: the assertion the doc comment asks for (bits + 1 < max_num_bits).
BoundConstraintPanicsStrict(bits) == ~(bits + 1 < MaxNumBits)

\* The `assert!(bits < F::max_num_bits())` at the head of the function.
BoundConstraintPanics(bits) == ~(bits < MaxNumBits)

(***************************************************************************)
(* euclidean_division_var, compile time.  The branch taken:               *)
(*   "zero"     constant predicate 0: returns (0, 0)                      *)
(*   "fold"     both operands constant, rhs non-zero: folded              *)
(*   "noop"     constant rhs 1: returns (lhs, 0)                          *)
(*   "toolarge" constant rhs wider than bit_size: failing assert_eq,      *)
(*              returns (0, 0)                                            *)
(*   "gadget"   Brillig quotient plus constraints, no overflow guard      *)
(*   "q0"       ... plus the guard for a constant rhs                     *)
(*   "split"    ... plus the u128 guard (recursive divisions by 2^64)     *)
(*   "panic"    `unreachable!("overflow in unbounded division")`, or the  *)
(*              BigUint division by a zero constant rhs in the q0 guard   *)
(***************************************************************************)
DivisionBits(rhs, bitSize) ==
    IF rhs.c THEN <<bitSize - NumBits(rhs.v) + 1, NumBits(rhs.v)>>
             ELSE <<bitSize, bitSize>>

\* Mutant: the overflow test off by one (max_q + max_r >= max_num_bits - 2).
EuclidBranchOffByOne(lhs, rhs, bitSize, predicate) ==
    LET maxQ == DivisionBits(rhs, bitSize)[1]
        maxR == DivisionBits(rhs, bitSize)[2]
    IN CASE predicate.c /\ predicate.v = 0             -> "zero"
         [] lhs.c /\ rhs.c /\ rhs.v # 0                 -> "fold"
         [] rhs.c /\ rhs.v = 1                          -> "noop"
         [] rhs.c /\ NumBits(rhs.v) > bitSize           -> "toolarge"
         [] maxQ + maxR < MaxNumBits - 2                -> "gadget"
         [] rhs.c /\ rhs.v # 0                          -> "q0"
         [] ~rhs.c /\ bitSize = U128Bits                -> "split"
         [] OTHER                                       -> "panic"

EuclidBranch(lhs, rhs, bitSize, predicate) ==
    LET maxQ == DivisionBits(rhs, bitSize)[1]
        maxR == DivisionBits(rhs, bitSize)[2]
    IN CASE predicate.c /\ predicate.v = 0             -> "zero"
         [] lhs.c /\ rhs.c /\ rhs.v # 0                 -> "fold"
         [] rhs.c /\ rhs.v = 1                          -> "noop"
         [] rhs.c /\ NumBits(rhs.v) > bitSize           -> "toolarge"
         [] maxQ + maxR < MaxNumBits - 1                -> "gadget"
         [] rhs.c /\ rhs.v # 0                          -> "q0"
         [] ~rhs.c /\ bitSize = U128Bits                -> "split"
         [] OTHER                                       -> "panic"

(***************************************************************************)
(* The Brillig `Quotient` call.  With the predicate set, the prover picks *)
(* q freely; any r other than lhs - rhs*q is refused by the identity      *)
(* constraint (rhs*q + r)*predicate == lhs*predicate, so only those pairs *)
(* are enumerated.  With the predicate unset the call returns zeros.      *)
(***************************************************************************)
BrilligQuotient(lhs, rhs, predicate) ==
    IF predicate.v = 1
    THEN {<<q, FSub(lhs.v, FMul(rhs.v, q))>> : q \in FieldElements}
    ELSE {<<0, 0>>}

(***************************************************************************)
(* euclidean_division_var, run time: the (q, r) pairs the emitted circuit *)
(* accepts.  Recursive because the u128 overflow guard divides q and rhs  *)
(* by 2^64 with the same routine and constrains the product of the two    *)
(* upper halves to be zero.                                               *)
(***************************************************************************)
RECURSIVE EuclideanDivisionVar(_, _, _, _)

\* Mutant: the constant-rhs overflow guard left out.
Q0GuardDropped(rhs, bitSize, predicate, q, r) == TRUE

\* The guard for a constant rhs when q*rhs + r could reach the modulus:
\* q <= q0 = p / rhs, and when q = q0 also r < p - q0*rhs.
Q0Guard(rhs, bitSize, predicate, q, r) ==
    LET maxQ   == DivisionBits(rhs, bitSize)[1]
        q0     == P \div rhs.v
        maxRem == P - q0 * rhs.v
    IN /\ BoundConstraintWithOffset(Wit(q), Const(q0), Zero, maxQ, One)
       /\ BoundConstraintWithOffset(Wit(r), Const(maxRem), One,
              NumBits(rhs.v), MulVar(EqVar(Const(q0), Wit(q)), predicate))

\* Mutant: the u128 overflow guard left out.
SplitGuardDropped(rhs, bitSize, predicate, q) == TRUE

\* The u128 guard: q and rhs are each divided by 2^64 with this same
\* routine, and the product of the two upper halves must be zero.
SplitGuard(rhs, bitSize, predicate, q) ==
    LET two64    == Const(PowerOfTwo(HalfBits))
        qUpper   == {x[1] : x \in EuclideanDivisionVar(Wit(q), two64, bitSize, predicate)}
        rhsUpper == {x[1] : x \in EuclideanDivisionVar(rhs, two64, bitSize, predicate)}
    IN \E qu \in qUpper, ru \in rhsUpper : FMul(qu, ru) = 0

\* The constraints laid down after the Brillig call, for outputs q and r.
EuclidConstraints(lhs, rhs, bitSize, predicate, q, r) ==
    LET maxR   == DivisionBits(rhs, bitSize)[2]
        branch == EuclidBranch(lhs, rhs, bitSize, predicate)
    IN /\ RangeConstrainVar(Wit(q), DivisionBits(rhs, bitSize)[1], One)
       /\ RangeConstrainVar(Wit(r), maxR, One)
       /\ BoundConstraintWithOffset(Wit(r), rhs, predicate, maxR, One)
       /\ FMul(FAdd(FMul(rhs.v, q), r), predicate.v) = FMul(lhs.v, predicate.v)
       /\ branch = "q0" => Q0Guard(rhs, bitSize, predicate, q, r)
       /\ branch = "split" => SplitGuard(rhs, bitSize, predicate, q)

\* Mutant: rhs == 0 asserted false without the predicate factor.
DivisionByZeroGuardUnpredicated(rhs, predicate) ==
    IF IsConstantOne(predicate)
    THEN FMul(FInverse(rhs.v), rhs.v) = 1
    ELSE EqVar(rhs, Zero).v = 0

\* The division-by-zero guard emitted before the Brillig call: inv_var(rhs)
\* when the predicate is the constant one, else (rhs == 0) * predicate == 0.
DivisionByZeroGuard(rhs, predicate) ==
    IF IsConstantOne(predicate)
    THEN FMul(FInverse(rhs.v), rhs.v) = 1
    ELSE FMul(EqVar(rhs, Zero).v, predicate.v) = 0

\* Both operands constant: folded in u128 (or BigUint) arithmetic, the
\* remainder computed as lhs - quotient * rhs.
\* Mutant: the subtraction in the remainder swapped.
FoldDivisionSwapped(lhs, rhs) ==
    LET q == lhs.v \div rhs.v IN <<q, q * rhs.v - lhs.v>>

FoldDivision(lhs, rhs) ==
    LET q == lhs.v \div rhs.v IN <<q, lhs.v - q * rhs.v>>

EuclideanDivisionVar(lhs, rhs, bitSize, predicate) ==
    LET branch == EuclidBranch(lhs, rhs, bitSize, predicate)
    IN CASE branch = "zero" -> {<<0, 0>>}
         [] branch = "fold" -> {FoldDivision(lhs, rhs)}
         [] branch = "noop" -> {<<lhs.v, 0>>}
         [] branch \in {"toolarge", "panic"} -> {}
         [] OTHER ->
              IF DivisionByZeroGuard(rhs, predicate)
              THEN {qr \in BrilligQuotient(lhs, rhs, predicate) :
                      EuclidConstraints(lhs, rhs, bitSize, predicate, qr[1], qr[2])}
              ELSE {}

\* Whether compiling the division makes the compiler panic, including the
\* assertion inside every bound_constraint_with_offset it calls.
EuclideanDivisionPanics(lhs, rhs, bitSize, predicate) ==
    LET branch == EuclidBranch(lhs, rhs, bitSize, predicate)
        maxQ   == DivisionBits(rhs, bitSize)[1]
        maxR   == DivisionBits(rhs, bitSize)[2]
    IN \/ branch = "panic"
       \/ branch \in {"gadget", "q0", "split"} /\ BoundConstraintPanics(maxR)
       \/ branch = "q0" /\ BoundConstraintPanics(maxQ)

(***************************************************************************)
(* signed_division_var and its helpers.  The results of a division are    *)
(* used as operands again, so DivisionOperands gives each accepted pair   *)
(* as two operands: constants exactly when the division folded, returned *)
(* zeros, or (for rhs 1) returned lhs itself.                             *)
(***************************************************************************)
QuotientIsConst(branch, lhs) ==
    branch \in {"zero", "fold"} \/ (branch = "noop" /\ lhs.c)

DivisionOperandsOf(branch, lhs, qrs) ==
    {<<[v |-> qr[1], c |-> QuotientIsConst(branch, lhs)],
       [v |-> qr[2], c |-> branch \in {"zero", "fold", "noop"}]>> : qr \in qrs}

DivisionOperands(lhs, rhs, bitSize, predicate) ==
    DivisionOperandsOf(EuclidBranch(lhs, rhs, bitSize, predicate), lhs,
                       EuclideanDivisionVar(lhs, rhs, bitSize, predicate))

\* add_mul_var(lhs, k, rhs): add_var(lhs, mul_var(k, rhs)).
AddMulVar(lhs, k, rhs) == AddVar(lhs, MulVar(Const(k), rhs))

\* two_complement(lhs, leading, max_bit_size):
\* lhs + 2 * (2^(max_bit_size-1) - lhs) * leading.
TwoComplement(lhs, leading, maxBitSize) ==
    AddMulVar(lhs, 2, MulVar(SubVar(Const(PowerOfTwo(maxBitSize - 1)), lhs), leading))

\* xor_var on the u1 type: the shortcuts on equal or zero expressions (an
\* expression is zero only as the constant zero, and two constants are
\* equal expressions exactly when their values are), else a + b - 2ab.
XorVarBit(a, b) ==
    CASE a.c /\ b.c /\ a.v = b.v -> Zero
      [] a.c /\ a.v = 0          -> b
      [] b.c /\ b.v = 0          -> a
      [] OTHER                   -> AddMulVar(AddVar(a, b), P - 2, MulVar(a, b))

\* not_var(x, u1): (2^1 - 1) - x.
NotVarBit(x) == SubVar(Const(1), x)

\* Mutant: the issue #5129 correction left out (multiplying by one).
NegativeZeroFixDropped(x) == One

\* Issue #5129: not_var(eq_var(x, 0)), the factor that forces the result to
\* zero when the unsigned q1 or r1 it was built from is zero, since
\* two_complement(0, 1) would be 2^bit_size.
NegativeZeroFix(x) == NotVarBit(EqVar(x, Zero))

\* Unsigned q1, r1 back to signed: the quotient's sign bit is the xor of
\* the operands', the remainder takes lhs's.
SignedResult(ld, rd, n, qr) ==
    <<MulVar(TwoComplement(qr[1], XorVarBit(ld, rd), n), NegativeZeroFix(qr[1])).v,
      MulVar(TwoComplement(qr[2], ld, n), NegativeZeroFix(qr[2])).v>>

\* The unsigned division of the two's complements, for given sign bits.
SignedFromLeads(lhs, rhs, n, predicate, ld, rd) ==
    {SignedResult(ld, rd, n, qr) :
        qr \in DivisionOperands(TwoComplement(lhs, ld, n), TwoComplement(rhs, rd, n),
                                n, predicate)}

\* The sign bits: the quotients of lhs and rhs by 2^(n-1), predicate one.
SignBits(x, n) == {qr[1] : qr \in DivisionOperands(x, Const(PowerOfTwo(n - 1)), n, One)}

(***************************************************************************)
(* signed_division_var(lhs, rhs, bit_size, predicate), run time: the      *)
(* (quotient, remainder) pairs the circuit accepts, over every sign bit   *)
(* and unsigned result the prover may supply.                             *)
(***************************************************************************)
SignedDivisionVar(lhs, rhs, n, predicate) ==
    UNION {SignedFromLeads(lhs, rhs, n, predicate, ld, rd) :
              ld \in SignBits(lhs, n), rd \in SignBits(rhs, n)}

\* Compile time: the assert_ne!(bit_size, 0), or a panic in one of the
\* divisions (the two sign bits, then the unsigned one).
SignedDivisionPanics(lhs, rhs, n, predicate) ==
    \/ n = 0
    \/ EuclideanDivisionPanics(rhs, Const(PowerOfTwo(n - 1)), n, One)
    \/ EuclideanDivisionPanics(lhs, Const(PowerOfTwo(n - 1)), n, One)
    \/ \E ld \in SignBits(lhs, n), rd \in SignBits(rhs, n) :
          EuclideanDivisionPanics(TwoComplement(lhs, ld, n), TwoComplement(rhs, rd, n),
                                  n, predicate)

(***************************************************************************)
(* The comparisons.  more_than_eq_var(lhs, rhs, max_bits) takes the       *)
(* quotient of 2^max_bits + lhs - rhs by 2^max_bits, a division of        *)
(* max_bits + 1 bits with the constant predicate one.                     *)
(***************************************************************************)
MoreThanEqOf(evaluation, maxBits) ==
    {qr[1] : qr \in DivisionOperands(evaluation, Const(PowerOfTwo(maxBits)), maxBits + 1, One)}

MoreThanEqVar(lhs, rhs, maxBits) ==
    MoreThanEqOf(AddVar(SubVar(lhs, rhs), Const(PowerOfTwo(maxBits))), maxBits)

\* Its `assert!(max_bits + 1 < F::max_num_bits())`, then the division's.
MoreThanEqPanicsOf(evaluation, maxBits) ==
    \/ ~(maxBits + 1 < MaxNumBits)
    \/ EuclideanDivisionPanics(evaluation, Const(PowerOfTwo(maxBits)), maxBits + 1, One)

MoreThanEqPanics(lhs, rhs, maxBits) ==
    MoreThanEqPanicsOf(AddVar(SubVar(lhs, rhs), Const(PowerOfTwo(maxBits))), maxBits)

\* less_than_var: 1 - more_than_eq_var.
LessThanVar(lhs, rhs, bitSize) == {SubVar(One, c) : c \in MoreThanEqVar(lhs, rhs, bitSize)}

\* `1_u128 << k`: a shift of the u128 width or more panics in a debug
\* build and is taken modulo the width in a release build.
ShlU128(k) == 2^(k % U128Bits)
ShlOverflows(k) == k >= U128Bits

\* Mutant: the result taken from the difference's sign alone.
SignedLessFromPartsNoSignXor(diffSign, ls, rs) == diffSign

\* diff_sign xor (lhs_sign xor rhs_sign), both xors on one bit.
SignedLessFromParts(diffSign, ls, rs) == XorVarBit(diffSign, XorVarBit(ls, rs))

\* less_than_signed after its constants: the sign bits by div_var on
\* Unsigned{bit_count} (the sign-bit divisions of signed_division_var),
\* then diff = lhs + pow - rhs compared with pow on bit_count + 1 bits.
LessThanSignedOf(lhs, rhs, n, pow) ==
    UNION {{SignedLessFromParts(ds, ls, rs) :
               ds \in LessThanVar(SubVar(AddVar(lhs, pow), rhs), pow, n + 1)} :
             ls \in SignBits(lhs, n), rs \in SignBits(rhs, n)}

(***************************************************************************)
(* less_than_signed(lhs, rhs, bit_count): pow_last = 1 << (bit_count-1)   *)
(* and pow = 1 << bit_count as u128 shifts, so pow is 1 for bit_count =   *)
(* 128 in a release build.  `release` picks the build.                    *)
(***************************************************************************)
LessThanSigned(lhs, rhs, n) == LessThanSignedOf(lhs, rhs, n, Const(ShlU128(n)))

LessThanSignedPanicsOf(lhs, rhs, n, pow, release) ==
    \/ ShlOverflows(n) /\ ~release
    \/ EuclideanDivisionPanics(lhs, Const(PowerOfTwo(n - 1)), n, One)
    \/ EuclideanDivisionPanics(rhs, Const(PowerOfTwo(n - 1)), n, One)
    \/ MoreThanEqPanics(SubVar(AddVar(lhs, pow), rhs), pow, n + 1)

LessThanSignedPanics(lhs, rhs, n, release) ==
    LessThanSignedPanicsOf(lhs, rhs, n, Const(ShlU128(n)), release)

(***************************************************************************)
(* The bitwise operations.  An expression is zero only when it is the     *)
(* constant zero, and two constants are equal expressions exactly when    *)
(* their values are; two witnesses that are the same variable give the    *)
(* same value by the shortcut as by the general case, so only the         *)
(* constant shortcuts are distinguished.                                   *)
(***************************************************************************)

\* Mutant: max taken as 2^bit_size instead of 2^bit_size - 1.
NotVarOffByOne(x, n) == SubVar(Const(PowerOfTwo(n)), x)

\* not_var(x, typ): max = 2^bit_size - 1 added as a constant, then max - x.
NotVar(x, n) == SubVar(Const(PowerOfTwo(n) - 1), x)

\* The AND and XOR black boxes (acvm, outside this crate): the output
\* witness the solver assigns is the bitwise result of the two inputs.
BlackBoxAnd(a, b) == Wit(a.v & b.v)
BlackBoxXor(a, b) == Wit(a.v ^^ b.v)

\* and_var: x & x == x, x & 0 == 0, a product on u1, else the black box.
AndVar(a, b, n) ==
    CASE a.c /\ b.c /\ a.v = b.v                -> a
      [] (a.c /\ a.v = 0) \/ (b.c /\ b.v = 0)   -> Zero
      [] n = 1                                  -> MulVar(a, b)
      [] OTHER                                  -> BlackBoxAnd(a, b)

\* xor_var: on u1 the shortcuts and a + b - 2ab (XorVarBit); wider types
\* take the same shortcuts, then the black box.
XorVar(a, b, n) ==
    CASE n = 1                                  -> XorVarBit(a, b)
      [] a.c /\ b.c /\ a.v = b.v                -> Zero
      [] a.c /\ a.v = 0                         -> b
      [] b.c /\ b.v = 0                         -> a
      [] OTHER                                  -> BlackBoxXor(a, b)

\* or_var: 0 | x == x, x | 0 == x, a + b - ab on u1, else
\* not_var(and_var(not_var(a), not_var(b))).
OrVar(a, b, n) ==
    CASE a.c /\ a.v = 0                         -> b
      [] b.c /\ b.v = 0                         -> a
      [] n = 1                                  -> SubVar(AddVar(a, b), MulVar(a, b))
      [] OTHER                                  -> NotVar(AndVar(NotVar(a, n), NotVar(b, n), n), n)

(***************************************************************************)
(* radix_decompose and bit_decompose.  The limb sequences are given       *)
(* least significant first, as radix_le_decompose returns them.           *)
(***************************************************************************)

\* The value of little-endian limbs in the given radix.
RECURSIVE LimbsValue(_, _)
LimbsValue(limbs, radix) ==
    IF limbs = <<>> THEN 0 ELSE Head(limbs) + radix * LimbsValue(Tail(limbs), radix)

\* The container's radix_le_decompose (outside this crate): a Brillig
\* oracle supplies the limbs, each is range checked to bit_size bits and
\* their value in the radix must equal the input in the field.
RadixLeDecompose(x, radix, limbCount, bitSize) ==
    {l \in [1..limbCount -> 0..(2^bitSize - 1)] : LimbsValue(l, radix) % P = x.v}

\* Mutant: the bit size taken from radix instead of radix - 1.
RadixBitSizeOffByOne(radix) == NumBits(radix)

\* u32::BITS - (radix - 1).leading_zeros(): the bits of radix - 1.
RadixBitSize(radix) == NumBits(radix - 1)

(***************************************************************************)
(* radix_decompose(endian, input, radix, limb_count): the radix must be a *)
(* constant (else the NotAConstant internal error, which valid SSA never  *)
(* raises); the limbs are added as witnesses and reversed for Big.        *)
(* The limb sequences the emitted circuit accepts.                        *)
(***************************************************************************)
RadixDecompose(endian, x, radix, limbCount) ==
    {IF endian = "big" THEN Reverse(l) ELSE l :
        l \in RadixLeDecompose(x, radix.v, limbCount, RadixBitSize(radix.v))}

\* bit_decompose: radix_decompose with the constant 2.
BitDecompose(endian, x, limbCount) == RadixDecompose(endian, x, Const(2), limbCount)

=============================================================================

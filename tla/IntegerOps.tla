------------------------------ MODULE IntegerOps ------------------------------
(***************************************************************************)
(* The integer operations SSA lowering calls on AcirContext, one call per *)
(* step.  `call` records the last call: its arguments, the results the    *)
(* emitted circuit accepts (see IntegerGadgets) and whether compiling it  *)
(* panicked.  The operands are chosen from what SSA can hand the context: *)
(* values of the operation's type, constant or not, and a predicate that  *)
(* is 0 or 1, constant or not.                                             *)
(***************************************************************************)
EXTENDS IntegerGadgets

CONSTANTS
    UnsignedBitSizes,   \* bit sizes of the Unsigned types divided
    SignedBitSizes,     \* bit sizes of the Signed types divided
    ComparedBitSizes,   \* bit sizes of the Unsigned types compared
    SignedComparedBitSizes, \* bit sizes of the Signed types compared
    ReleaseBuilds,      \* {TRUE}: release build, {FALSE}: debug (overflow checks on)
    TruncateBitSizes,   \* max_bit_size arguments of truncate_var
    BoundBitSizes,      \* `bits` arguments of bound_constraint_with_offset
    BoundOffsets,       \* offsets passed to it directly
    RhsOutOfRange,      \* TRUE: a constant rhs may exceed its type (see README)
    BitwiseBitSizes,    \* bit sizes of the types of and/or/xor/not
    Radices,            \* constant radices passed to radix_decompose
    LimbCounts          \* limb counts passed to radix/bit_decompose

VARIABLES
    call,       \* the last call made on the context
    method      \* the method SSA lowering calls (one per behaviour)

\* The AcirContext methods the integer layer offers its caller.
Methods == {"bound", "truncate", "bitwise", "decompose", "div", "compare", "sdiv"}

\* Only u128 reaches the unbounded-division overflow path: every other
\* width w has 2w < max_num_bits - 1 (real field: 2 * 64 < 253).
ASSUME \A w \in UnsignedBitSizes : w = U128Bits \/ 2 * w < MaxNumBits - 1

\* Values of an integer type of the given width (all of F when wider).
TypedValues(bits) == {x \in FieldElements : NumBits(x) <= bits}
TypedOperands(bits) == {Const(x) : x \in TypedValues(bits)}
                        \cup {Wit(x) : x \in TypedValues(bits)}
Predicates == {Zero, One, Wit(0), Wit(1)}

\* A constant rhs that overflowed its type: constant folding of an
\* unchecked multiplication can produce one (comment at mod.rs:853).
RhsOperands(bits) ==
    TypedOperands(bits)
      \cup (IF RhsOutOfRange THEN {Const(2^bits)} ELSE {})

NoCall == [op |-> "none", lhs |-> Zero, rhs |-> Zero, offset |-> Zero,
           bits |-> 0, predicate |-> Zero, results |-> {}, panics |-> FALSE]

Init == call = NoCall /\ method \in Methods

(***************************************************************************)
(* div_var / modulo_var on an Unsigned type: euclidean_division_var; the  *)
(* quotient and the remainder are the two components of each result.     *)
(***************************************************************************)
EuclideanDivision ==
    \E bitSize \in UnsignedBitSizes, predicate \in Predicates :
    \E lhs \in TypedOperands(bitSize), rhs \in RhsOperands(bitSize) :
        call' = [op |-> "div", lhs |-> lhs, rhs |-> rhs, offset |-> Zero,
                 bits |-> bitSize, predicate |-> predicate,
                 results |-> EuclideanDivisionVar(lhs, rhs, bitSize, predicate),
                 panics |-> EuclideanDivisionPanics(lhs, rhs, bitSize, predicate)]

(***************************************************************************)
(* div_var / modulo_var on a Signed type: signed_division_var.  Operands  *)
(* are the two's-complement bit patterns of the type, as SSA holds them.  *)
(***************************************************************************)
SignedDivision ==
    \E bitSize \in SignedBitSizes, predicate \in Predicates :
    \E lhs, rhs \in TypedOperands(bitSize) :
        call' = [op |-> "sdiv", lhs |-> lhs, rhs |-> rhs, offset |-> Zero,
                 bits |-> bitSize, predicate |-> predicate,
                 results |-> SignedDivisionVar(lhs, rhs, bitSize, predicate),
                 panics |-> SignedDivisionPanics(lhs, rhs, bitSize, predicate)]

(***************************************************************************)
(* The comparisons of two values of a type: more_than_eq_var and          *)
(* less_than_var on Unsigned{n} (max_bits n), less_than_signed on         *)
(* Signed{n}.  The results are the values the circuit accepts for the     *)
(* 0/1 variable returned.  For less_than_signed the build may be a debug  *)
(* or a release one (see ShlU128), as ReleaseBuilds says.                  *)
(***************************************************************************)
CompareCall(op, n, lhs, rhs, results, panics) ==
    call' = [op |-> op, lhs |-> lhs, rhs |-> rhs, offset |-> Zero, bits |-> n,
             predicate |-> One, results |-> {c.v : c \in results}, panics |-> panics]

Compare ==
    \/ \E n \in SignedComparedBitSizes, release \in ReleaseBuilds : \E lhs, rhs \in TypedOperands(n) :
          CompareCall("slt", n, lhs, rhs, LessThanSigned(lhs, rhs, n),
                      LessThanSignedPanics(lhs, rhs, n, release))
    \/ \E n \in ComparedBitSizes : \E lhs, rhs \in TypedOperands(n) :
          \/ CompareCall("ge", n, lhs, rhs, MoreThanEqVar(lhs, rhs, n), MoreThanEqPanics(lhs, rhs, n))
          \/ CompareCall("lt", n, lhs, rhs, LessThanVar(lhs, rhs, n), MoreThanEqPanics(lhs, rhs, n))

(***************************************************************************)
(* truncate_var(lhs, rhs, max_bit_size): the remainder of the division of *)
(* lhs by 2^rhs, with the constant predicate one.  `rhs` is kept in       *)
(* `offset`; it is the width of an integer type, so at most u128.         *)
(***************************************************************************)
\* Mutant: the divisor one power short (2^{rhs-1}).
TruncateDivisorOffByOne(k) == Const(PowerOfTwo(k - 1))

\* The divisor 2^{rhs}, added as a constant.
TruncateDivisor(k) == Const(PowerOfTwo(k))

TruncateVar ==
    \E maxBitSize \in TruncateBitSizes :
    \E k \in {b \in 1..U128Bits : b < maxBitSize}, lhs \in TypedOperands(maxBitSize) :
        LET divisor == TruncateDivisor(k)
        IN call' = [op |-> "truncate", lhs |-> lhs, rhs |-> divisor,
                    offset |-> Const(k), bits |-> maxBitSize, predicate |-> One,
                    results |-> {qr[2] : qr \in EuclideanDivisionVar(lhs, divisor, maxBitSize, One)},
                    panics |-> EuclideanDivisionPanics(lhs, divisor, maxBitSize, One)]

(***************************************************************************)
(* bound_constraint_with_offset called directly (as the array and         *)
(* division code does), with an offset of 0, 1 or a predicate witness.    *)
(***************************************************************************)
BoundConstraint ==
    \E bits \in BoundBitSizes, predicate \in Predicates :
    \E lhs, rhs \in TypedOperands(bits), offset \in BoundOffsets :
        call' = [op |-> "bound", lhs |-> lhs, rhs |-> rhs, offset |-> offset,
                 bits |-> bits, predicate |-> predicate,
                 results |-> IF BoundConstraintWithOffset(lhs, rhs, offset, bits, predicate)
                             THEN {TRUE} ELSE {},
                 panics |-> BoundConstraintPanics(bits)]

(***************************************************************************)
(* and_var, or_var, xor_var and not_var on values of a type.  The result *)
(* is the value the returned variable takes.                              *)
(***************************************************************************)
BitwiseCall(op, n, lhs, rhs, result) ==
    call' = [op |-> op, lhs |-> lhs, rhs |-> rhs, offset |-> Zero, bits |-> n,
             predicate |-> One, results |-> {result.v}, panics |-> FALSE]

BitwiseOp ==
    \E n \in BitwiseBitSizes : \E lhs, rhs \in TypedOperands(n) :
        \/ BitwiseCall("and", n, lhs, rhs, AndVar(lhs, rhs, n))
        \/ BitwiseCall("or", n, lhs, rhs, OrVar(lhs, rhs, n))
        \/ BitwiseCall("xor", n, lhs, rhs, XorVar(lhs, rhs, n))
        \/ BitwiseCall("not", n, lhs, Zero, NotVar(lhs, n))

(***************************************************************************)
(* radix_decompose with a constant radix, and bit_decompose, of a field   *)
(* element in either endianness.  `rhs` is the radix and `bits` the limb  *)
(* count; the results are the limb sequences the circuit accepts.         *)
(***************************************************************************)
DecomposeCall(endian, x, radix, limbCount, results) ==
    call' = [op |-> IF endian = "big" THEN "radix_be" ELSE "radix_le", lhs |-> x,
             rhs |-> radix, offset |-> Zero, bits |-> limbCount, predicate |-> One,
             results |-> results, panics |-> FALSE]

Decompose ==
    \E endian \in {"little", "big"}, limbCount \in LimbCounts :
    \E x \in TypedOperands(MaxNumBits) :
        \/ \E r \in Radices :
              DecomposeCall(endian, x, Const(r), limbCount,
                            RadixDecompose(endian, x, Const(r), limbCount))
        \/ DecomposeCall(endian, x, Const(2), limbCount, BitDecompose(endian, x, limbCount))

(***************************************************************************)
(* At this level the calls share no state (each lays down its own         *)
(* opcodes over its own operands), so a behaviour is one call of the      *)
(* method the caller picked; the context then stops, as it does once     *)
(* finish() consumes it.                                                  *)
(***************************************************************************)
Next ==
    /\ call.op = "none"
    /\ \/ method = "bound"     /\ BoundConstraint
       \/ method = "truncate"  /\ TruncateVar
       \/ method = "bitwise"   /\ BitwiseOp
       \/ method = "decompose" /\ Decompose
       \/ method = "div"       /\ EuclideanDivision
       \/ method = "compare"   /\ Compare
       \/ method = "sdiv"      /\ SignedDivision
    /\ UNCHANGED method

Spec == Init /\ [][Next]_<<call, method>>

-----------------------------------------------------------------------------
TypeOK ==
    /\ method \in Methods
    /\ call.op \in {"none", "div", "sdiv", "truncate", "bound", "ge", "lt", "slt",
                    "and", "or", "xor", "not", "radix_le", "radix_be"}
    /\ {call.lhs, call.rhs, call.offset, call.predicate} \subseteq Operands
    /\ call.bits \in Nat
    /\ call.panics \in BOOLEAN
    /\ call.op \in {"div", "sdiv"} => call.results \subseteq FieldElements \X FieldElements
    /\ call.op = "truncate" => call.results \subseteq FieldElements
    /\ call.op = "bound" => call.results \subseteq {TRUE}
    /\ call.op \in {"ge", "lt", "slt", "and", "or", "xor", "not"} => call.results \subseteq FieldElements
    /\ call.op \in {"radix_le", "radix_be"} => call.results \subseteq Seq(Nat)

(***************************************************************************)
(* Unsigned division is exact: when it compiles, with the predicate set   *)
(* and operands of the type, the circuit accepts exactly                  *)
(* (lhs / rhs, lhs % rhs), and nothing when rhs is zero, whatever the     *)
(* prover returns from the Brillig quotient (euclidean_division_var, all  *)
(* branches, including both overflow guards).                             *)
(***************************************************************************)
EuclideanDivisionCorrect ==
    (/\ call.op = "div" /\ ~call.panics
     /\ call.predicate.v = 1 /\ NumBits(call.rhs.v) <= call.bits)
    => call.results = IF call.rhs.v = 0 THEN {}
                      ELSE {<<call.lhs.v \div call.rhs.v, call.lhs.v % call.rhs.v>>}

(***************************************************************************)
(* Under a false predicate a division never makes the circuit fail: the   *)
(* zeros Brillig returns satisfy every constraint euclidean_division_var  *)
(* emits (spec: "predicate-zero invariant").                              *)
(***************************************************************************)
PredicateZeroNeverFails ==
    call.op = "div" /\ ~call.panics /\ call.predicate.v = 0 => call.results # {}

\* The integer a bit pattern of Signed{n} stands for, and back.
SignedValue(x, n) == IF x >= 2^(n - 1) THEN x - 2^n ELSE x
Encode(i, n) == i % 2^n
AbsInt(i) == IF i < 0 THEN -i ELSE i
\* Division rounding toward zero, as for Rust's signed integers.
TruncQuotient(a, b) ==
    IF (a < 0) = (b < 0) THEN AbsInt(a) \div AbsInt(b) ELSE -(AbsInt(a) \div AbsInt(b))
SignedQuotRem(a, b, n) ==
    <<Encode(TruncQuotient(a, b), n), Encode(a - b * TruncQuotient(a, b), n)>>

(***************************************************************************)
(* Signed division (spec 4.6): with the predicate set, whatever the       *)
(* prover returns from the three Brillig quotients, the circuit accepts   *)
(* exactly the quotient rounded toward zero and the remainder with lhs's  *)
(* sign, as bit patterns of the type (MIN / -1 wraps to MIN), and nothing *)
(* for a zero divisor; under a false predicate it never fails.  This      *)
(* covers the sign bits, both two_complement conversions and the          *)
(* negative-zero correction of signed_division_var.                       *)
(***************************************************************************)
SignedDivisionCorrect ==
    call.op = "sdiv" /\ ~call.panics =>
        /\ call.predicate.v = 1 =>
              call.results =
                  IF call.rhs.v = 0 THEN {}
                  ELSE {SignedQuotRem(SignedValue(call.lhs.v, call.bits),
                                      SignedValue(call.rhs.v, call.bits), call.bits)}
        /\ call.predicate.v = 0 => call.results # {}

(***************************************************************************)
(* The spec's predicate-zero law for division (4.5: "(q, r) = (0, 0) when *)
(* predicate = 0", the predicate-zero invariant: an operation under a     *)
(* false predicate never fails; round-trip law for signed division:       *)
(* "(0, 0) whenever predicate = 0"): an unsigned or signed division under *)
(* a false predicate is satisfiable and yields only zeros.                *)
(***************************************************************************)
PredicateZeroYieldsZero ==
    call.op \in {"div", "sdiv"} /\ ~call.panics /\ call.predicate.v = 0 =>
        call.results = {<<0, 0>>}

(***************************************************************************)
(* The comparisons are exact: whatever the prover returns from the        *)
(* Brillig quotients (of the comparison itself and, for signed values, of *)
(* both sign bits), the circuit accepts exactly 1 when the relation holds *)
(* and 0 otherwise, signed values read as two's complement               *)
(* (more_than_eq_var, less_than_var, less_than_signed).                   *)
(***************************************************************************)
Holds(b) == IF b THEN 1 ELSE 0

ComparisonCorrect ==
    call.op \in {"ge", "lt", "slt"} /\ ~call.panics =>
        call.results =
            CASE call.op = "ge" -> {Holds(call.lhs.v >= call.rhs.v)}
              [] call.op = "lt" -> {Holds(call.lhs.v < call.rhs.v)}
              [] OTHER -> {Holds(SignedValue(call.lhs.v, call.bits) < SignedValue(call.rhs.v, call.bits))}

(***************************************************************************)
(* truncate_var(x, k, n) is x mod 2^k for every x below 2^n, including    *)
(* the overflow guard taken when n is close to the field size.            *)
(***************************************************************************)
TruncateCorrect ==
    call.op = "truncate" => call.results = {call.lhs.v % 2^(call.offset.v)}

(***************************************************************************)
(* bound_constraint_with_offset holds exactly when lhs + offset <= rhs    *)
(* under a set predicate, and always under an unset one, on both its     *)
(* optimised constant-rhs branch and its general branch.                  *)
(***************************************************************************)
BoundConstraintCorrect ==
    call.op = "bound" =>
        ((call.results = {TRUE}) <=>
            (call.predicate.v = 0 \/ call.lhs.v + call.offset.v <= call.rhs.v))

(***************************************************************************)
(* The bitwise operations are exact on values of their type: whichever of *)
(* the shortcuts, the u1 arithmetic, the black boxes or (for or_var on    *)
(* wider types) the De Morgan rewrite through not_var and and_var is      *)
(* taken, the result is the bitwise AND, OR, XOR or complement.           *)
(***************************************************************************)
BitwiseCorrect ==
    call.op \in {"and", "or", "xor", "not"} =>
        call.results =
            CASE call.op = "and" -> {call.lhs.v & call.rhs.v}
              [] call.op = "or"  -> {call.lhs.v | call.rhs.v}
              [] call.op = "xor" -> {call.lhs.v ^^ call.rhs.v}
              [] OTHER           -> {2^call.bits - 1 - call.lhs.v}

\* The first `count` digits of x in the radix, least significant first.
RECURSIVE Digits(_, _, _)
Digits(x, radix, count) ==
    IF count = 0 THEN <<>> ELSE <<x % radix>> \o Digits(x \div radix, radix, count - 1)

(***************************************************************************)
(* Decomposition is exact (spec 4.8 and the law "bit_decompose(Little, x, *)
(* L) reconstructs x"): for a power-of-two radix whose limbs cannot wrap  *)
(* the field (radix^L <= p), the circuit accepts exactly the L digits of  *)
(* x, least significant first for Little and reversed for Big, and        *)
(* nothing when x does not fit in L digits.                               *)
(***************************************************************************)
IsPowerOfTwo(r) == \E k \in 0..NumBits(r) : r = 2^k

DecompositionCorrect ==
    (call.op \in {"radix_le", "radix_be"} /\ IsPowerOfTwo(call.rhs.v)
     /\ call.rhs.v^call.bits <= P)
    => call.results =
          IF call.lhs.v >= call.rhs.v^call.bits THEN {}
          ELSE LET d == Digits(call.lhs.v, call.rhs.v, call.bits)
               IN {IF call.op = "radix_be" THEN Reverse(d) ELSE d}

(***************************************************************************)
(* Compiling these operations never panics: the `unreachable!` for an     *)
(* unbounded division and the bit-size assertion of                        *)
(* bound_constraint_with_offset are never hit.                            *)
(***************************************************************************)
NoCompilerPanic == ~call.panics
=============================================================================

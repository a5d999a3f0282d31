---------------------------- MODULE MC_IntegerOps ----------------------------
(***************************************************************************)
(* Model-checking instances of IntegerOps.  Each configuration picks a    *)
(* prime P and a u128 analogue U128Bits that keep, between them, the      *)
(* inequalities on max_num_bits() that decide the branches the real       *)
(* field (254 bits, u128) takes for the operations that run checks; the   *)
(* ASSUMEs of AcirField and IntegerOps state them and the README lists    *)
(* which configuration keeps which.                                       *)
(***************************************************************************)
EXTENDS IntegerOps

\* Division: the unsigned widths 1..4; 4 is the u128 analogue.
MC_UnsignedBitSizes == 1..4

\* Division of u128 only.
MC_U128BitSizes == {U128Bits}

\* Truncation: max_bit_size of an n-bit sum (n+1), of a product (2n) and
\* of a Field (max_num_bits).
MC_TruncateBitSizes == {n + 1 : n \in 1..U128Bits} \cup {2 * n : n \in 1..U128Bits - 1}
                        \cup {MaxNumBits}

\* Truncation widths just below the field size.
MC_TruncateNearFieldBitSizes == {MaxNumBits - 2, MaxNumBits - 1}

\* Bound constraint: every `bits` with bits + 1 < max_num_bits.
MC_BoundBitSizes == 1..(MaxNumBits - 2)

\* Offsets of bound_constraint_with_offset: zero and a predicate witness.
\* The division code also passes the constant one (mod.rs 932, 970); with
\* it the optimised branch moves the offset onto rhs and the overflow
\* fallback at 1073 drops it (finding 3, run div_wide_const), so it is
\* left out here.
MC_BoundOffsets == {Zero, Wit(0), Wit(1)}

\* The truncation widths up to the field's edge (max_num_bits - 2, -1 and
\* the Field itself), which truncate_near_field checks.
MC_TruncateEdgeBitSizes == MC_TruncateNearFieldBitSizes \cup {MaxNumBits}

\* The truncation widths below that edge: at these scaled primes the
\* product width of a 3-bit type reaches max_num_bits - 2, which the real
\* field (2 * 64 < 252) never does.
MC_TruncateBitSizesBelowEdge == MC_TruncateBitSizes \ MC_TruncateEdgeBitSizes

MC_None == {}

\* Radices 1, 2, 4 and 3: powers of two (1 = 2^0) and one that is not;
\* limb counts up to 3, so 4^3 = 64 stays below every P used and 2^3
\* covers inputs that do and do not fit.
MC_Radices == {1, 2, 3, 4}
MC_LimbCounts == 1..3
=============================================================================

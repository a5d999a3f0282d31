# TLA+ models of the ACIR construction context

This directory holds TLA+ models of parts of the Noir compiler in `src/`. They are checked with TLC.
The centre is `AcirContext`, the ACIR construction context in
`compiler/noirc_evaluator/src/acir/acir_context/mod.rs`. It lowers SSA
operations into polynomial constraints over a prime field. The repository
also contains the Brillig `BlockVariables` register bookkeeping, the SSA
`FunctionBuilder` and the HIR trait definitions.

## 1. The system

| Part | Source | State | Operations |
|---|---|---|---|
| Value table | mod.rs 116-260, 1482-1486, 1668-1734 | `vars: AcirVar -> Const/Witness/Expr`, `constant_witnesses: F -> Witness`, the witness counter of the opcode container | add_constant, add_variable, add_data, var_to_witness, get_or_create_witness_var, mark_variables_equivalent |
| Affine arithmetic | mod.rs 269-358, 462-548, 606-771 | the value table and the opcode list | neg/add/sub/mul_var under the expression-width budget, eq_var, inv_var, assert_eq_var, assert_neq_var (payload locations) |
| Bounded integers | mod.rs 774-1433 | the same | euclidean_division_var, signed_division_var, truncate_var, range_constrain_var, bound_constraint_with_offset, comparisons, radix/bit decomposition, xor/and/or/not |
| Memory | mod.rs 1438-1603 | memory blocks in the container | initialize_array, read/write_to_memory, initialize_return_data |
| Finalisation | mod.rs 1465-1475, 1605-1629 | the container | finish, call_acir_function |
| BlockVariables | brillig_block_variables.rs | available set per block, function-wide allocation cache, register allocator | define_variable, remove_variable, get_allocation |
| FunctionBuilder | ssa/function_builder/mod.rs | current function and block, finished functions, call stack | new_function, insert_instruction, terminate_with_*, set_runtime, RC instructions, finish |
| Traits | hir_def/traits.rs | plain data | setters, find_method |

How the parts interact:
- SSA lowering (not in `src/`) calls the arithmetic and integer operations.
- Every integer operation is built from `add_var`/`mul_var`, range checks, and a
  Brillig oracle (`Quotient`, `Inverse`) whose outputs are unconstrained and are
  pinned down by the constraints around the call.
- A *predicate* variable gates each fallible operation. When the predicate is 0,
  the operation must never make the circuit fail.
- `AcirContext` is single threaded: each call runs to completion and nothing
  runs concurrently. So the hard behaviours are not interleavings. They are
  the numeric edges of the field, a prover who chooses the Brillig outputs,
  and long sequences of calls on the value table.

## 2. Modules

- **AcirField**: the field, scaled down (see Scaling), and the value-level
  view of an `AcirVar`. An operand is `[v, c]`: its value and whether the
  context holds it as `Const`. `AddVar`, `SubVar`, `MulVar` and `EqVar` give
  the value and the constness that `add_var`, `sub_var`, `mul_var` and
  `eq_var` produce.
- **IntegerGadgets**: `range_constrain_var`, `bound_constraint_with_offset`
  and `euclidean_division_var`.
  - Each gadget is a pair. The compile-time part (`EuclidBranch`,
    `DivisionBits`, `...Panics`) says which branch is taken and whether the
    compiler panics.
  - The run-time part is the set of outputs the emitted circuit accepts.
    `EuclideanDivisionVar` enumerates every quotient an adversarial prover
    may return from Brillig (`BrilligQuotient`) and keeps the ones that pass
    the constraints (`EuclidConstraints`).
  - That set includes the two overflow guards (`Q0Guard`; `SplitGuard`,
    which recurses into the division itself).
  - A correct gadget accepts exactly one pair; an empty set is an
    unsatisfiable circuit.
  - `signed_division_var` is built from the same parts. `SignBits`
    divides each operand by 2^(n−1). `TwoComplement` goes through
    `AddMulVar`. `DivisionOperands` gives each accepted pair with the
    constness that decides the next division's branch (a folded or noop
    division returns constants or lhs itself). `SignedResult` applies
    `XorVarBit` (xor_var on u1 with its shortcuts), `two_complement` and
    `NegativeZeroFix` (`not_var(eq_var(x, 0))`, issue #5129).
    `SignedDivisionVar` is the union over every sign bit and unsigned
    result the prover may supply.
  - The comparisons are built the same way. `MoreThanEqVar` is the set
    of quotient bits of `(lhs − rhs + 2^max_bits) / 2^max_bits` over
    max_bits + 1 bits, and `LessThanVar` is `1 − ge`. `LessThanSigned`
    combines the two sign bits (`SignBits`), the n+1-bit `less_than_var`
    of `lhs + pow − rhs` against `pow`, and the two u1 xors
    (`SignedLessFromParts`). `pow` is `1_u128 << bit_count`
    (`ShlU128`): a release build masks the shift amount, and a build with
    overflow checks panics when it reaches 128 (`ShlOverflows`).
  - The bitwise operations: `NotVar` is `(2^n − 1) − x`; `AndVar`,
    `XorVar` and `OrVar` take the code's shortcuts (equal constants, the
    constant zero), the u1 arithmetic, and otherwise the AND/XOR black
    boxes (`BlackBoxAnd`, `BlackBoxXor`, acvm, modelled from the spec as
    the solver's bitwise result) or, for `or_var`, the rewrite
    `not(and(not a, not b))`. Two witnesses that are the same variable
    give the same value by the shortcut as by the black box, so only the
    constant shortcuts are told apart.
  - `RadixDecompose`: the constant radix, `RadixBitSize` (the bits of
    radix − 1), the container's `radix_le_decompose` (`RadixLeDecompose`,
    from the spec: limbs from a Brillig oracle, each range checked to
    bit_size bits, and their value in the radix equal to the input in the
    field), then the reversal for Big. `BitDecompose` is radix 2.
- **IntegerOps**: two variables: `call` records the last operation, its
  operands, the accepted results and whether compiling panicked; `method`,
  chosen in `Init` and never changed, names the one context method the
  behaviour calls. It only splits the initial states per method, so that a
  violation of one method's property is reported without expanding the
  calls of all the others.
  - Actions: `EuclideanDivision` (div_var/modulo_var on unsigned types),
    `SignedDivision` (the same on signed types),
    `TruncateVar`, `BoundConstraint`, and `Compare` (more_than_eq_var,
    less_than_var and less_than_signed), `BitwiseOp` (and_var, or_var,
    xor_var, not_var on values of widths `BitwiseBitSizes`) and
    `Decompose` (radix_decompose for each of `Radices`, and
    bit_decompose, with `LimbCounts` limbs, little or big endian).
    `ReleaseBuilds` says which build the compiler is: {TRUE} for release,
    {FALSE} for overflow checks.
  - Calls at this level share no state, so a behaviour is a single call.
    This is why the cfgs say CHECK_DEADLOCK FALSE: the context stops after
    it, as it does once `finish` consumes it.
- **MC_IntegerOps**: the sets of widths and offsets the cfgs use.
- **AcirExpr**: what the context relies on from acvm, outside this
  repository, modelled from the spec: a normalised `Expression` (a
  coefficient per witness, per unordered witness pair, and a constant),
  `width()`, `to_witness()`, `is_degree_one_univariate()`, evaluation under
  a witness assignment, and the opcodes the context emits (`AssertZero`,
  the two identities of `is_equal`, an unconstrained Brillig call). It
  also gives the memory opcodes their meaning: `MemoryInit` sets a block
  to the values of its witnesses, and a `MemoryOp` read or write at an
  index witness fails when the index is out of bounds. `MemoryRun` runs
  them in order, and a witness assignment satisfies a circuit only if
  every opcode holds and no memory op fails.
- **AcirVars**: the value table itself. The state is one record `ctx`
  mirroring `AcirContext`:
  - `vars`, the table, as a sequence whose length is `add_data`'s next id;
    a form `[kind, e]` keeps the `AcirVarData` variant apart from its
    expression (`neg_var` stores `Expr(-w)`, which is not a `Witness`);
  - `cw` (constant_witnesses), `next` (the container's witness counter),
    `opcodes`, `payloads` (assertion_payloads), `warnings`.

  Every method is an operator from a context to `[ctx, result]`, so a
  method that calls others (`add_var` promoting through
  `get_or_create_witness_var`, which calls `var_to_witness` and
  `mark_variables_equivalent`; `mul_var` recursing; `assert_neq_var` →
  `sub_var` → `inv_var` → `mul_var` → `maybe_eq_predicate` →
  `assert_eq_var`) is their composition in the code's order, and one step
  of the state machine is one whole call. Where the code uses an
  intermediate result several times (the promoted variable in `add_var`,
  the difference in `assert_neq_var`), the model passes it to a small
  helper operator (`AddVarRetry`, `AddVarLast`, `WitnessVar`, ...) rather
  than naming it in a LET. Each helper is one step of the method and is
  mapped to its lines. Actions: one per public method, over every declared
  variable as operand or predicate, every constant in `Constants`, and
  payload `None` or `m1`. History variables: `inputs` (witnesses of
  `add_variable`, the circuit's free inputs) and `calls`.

  The memory layer follows the same pattern. `ReadFromMemory` runs
  get_or_create_witness_var and var_to_witness on the index, then
  add_variable and var_to_witness for the value read, then pushes the
  `MemoryOp`. `WriteToMemory` witnesses the index, then the value.
  `InitializeArray` writes zeros (one `add_constant(0)` witness, `len`
  times) or the witnesses of an Array value (`InitializeArrayInner`: a
  Var is promoted, a DynamicArray is read element by element through
  `ReadRange`). `Flatten` does the same reads and returns variables.
  An AcirValue is `[kind |-> "var"]`, `"array"` or `"dyn"` (a block
  already in memory, with its length). Element types are left out. The
  caller picks a block not yet initialised for `initialize_array` and
  `initialize_return_data`, and an initialised one for reads, writes and
  DynamicArray values. A value holds at most `MaxArrayLen` elements once
  flattened (`Bounded`). The history variable `memLog` records what each
  init and write meant to store: items that are variables, zeros,
  witnesses or cells of a block as it stands. `AbsMem` replays it into the
  abstract contents of each block under a witness assignment.
- **MC_AcirVars**: the method sets each run calls and `ContextView`, the
  VIEW that ignores `last` (which only names the call that led to a state).
  `MemoryOps` is the set for the memory run.

- **BlockVariables** (brillig_block_variables.rs): one block's
  `available` set, the function-wide `allocations` cache (value →
  `[kind, reg]`), the registers the allocator has handed out (`allocated`),
  and `phase`, which becomes "panicked" at any `assert!`, `expect`,
  `unreachable!` or `panic!`. `Init` is `BlockVariables::new(live_in)`, with
  the live-in values already cached on distinct registers. The caller is
  arbitrary: any method on any value, in any order. Actions:
  - `DefineVariable` and `DefineSingleAddrVariable`, both through
    `DefineThen`. The register is allocated and the cache entry
    overwritten before the `unreachable!` for a value already cached, and
    `extract_single_addr` panics afterwards for an array or a vector;
  - `RemoveVariable`, with its assert and its expect, which gives the
    register back;
  - `GetAllocation` and `GetAvailableVariables`, which change nothing or
    panic.

  The register allocator is outside `src/`. It is abstracted to "some
  register not in use" (`FreeRegisters`). `is_allocated` only reads
  `available`.
- **MC_BlockVariables**: four values, one each of numeric, array, slice
  and reference type.
- **FunctionBuilder** (ssa/function_builder/mod.rs): the builder's state.
  - `current` is the function being built: runtime, blocks (parameters,
    instructions, terminator), values, globals and purities.
  - `currentBlock` is the current block; `finished` holds the finished
    functions, in order.
  - `globals`, `purities` and `errorTypes` are the builder's own copies.
  - `phase` is building, finished or panicked.

  There is one action per public method that changes state: new and
  from_existing (Init), `new_function`/`new_brillig_function`,
  `set_runtime` (it panics once a function is finished), `set_globals`
  with `apply_globals`, `set_purities`, `finish`, `add_parameter`,
  `numeric_constant` with `validate_numeric_type`, `insert_block`,
  `switch_to_block`, every `insert_*` wrapper through `insert_instruction`
  (`InsertWrapped`), `insert_cast`, `insert_make_array` with its panics,
  inc/dec_rc, the four `terminate_with_*` through
  `terminate_block_with`, `increment/decrement_array_reference_count`
  and `record_error_type`. Value numbering and simplification in the
  data-flow graph are outside `src/`. They are abstracted to appending
  one result value.
- **SsaFunctions**: the abstract specification of what the builder
  promises its callers. A list of functions, each a runtime and one
  terminator slot per block. Only the last function changes. A block keeps
  its first terminator, blocks are only added, and the runtime changes
  only while no function is finished. FunctionBuilder implements it
  through `Abstract == INSTANCE SsaFunctions WITH fns <- BuiltFunctions,
  closed <- phase # "building"`. `BuiltFunctions` projects every function
  built so far, the current one included, to its runtime and terminators.
  `Refinement == Abstract!Spec` is checked as a PROPERTY.
- **MC_FunctionBuilder**: small numeric types (u8 and i1, which
  `validate_numeric_type` rejects), one globals graph, one purity table,
  and `BuilderView`. The view leaves out `calls`, a counter that only
  bounds the depth. BFS reaches every state of depth ≤ MaxCalls first, so
  the view loses no behaviour, and no property reads `calls`.

### Scaling

The real field has 254 bits, and the code compares against the u128 width,
whose halves are 64 bits. Here `P` is a small prime and `U128Bits` plays the
role of 128. The branch structure depends only on inequalities between
`max_num_bits`, the operand widths and 128. The ASSUMEs in AcirField and
IntegerOps keep those inequalities true:
- a typed constant divisor needs no overflow guard (128+1 < 253);
- a u128 witness divisor does (256 >= 253);
- narrower types never do (2·64 < 253);
- the u128 split keeps `q*b+r` below the modulus.

| cfg | P (max_num_bits) | U128Bits | also keeps |
|---|---|---|---|
| division (also signed division and the bound constraint) | 139 (8) | 4 | q·rhs + r can exceed P, so the guards matter; bits up to max_num_bits − 2 = 6 are enumerable |
| truncate_near_field | 233 (8) | 4 | P/2^max_num_bits ≈ 0.91, like the real field's 0.76 above 2/3, so `q0 − q` never wraps inside max_q_bits; 233 mod 16 = 9 needs 4 bits, like p mod 2^128 (126 bits), so the q0 guard's remainder check takes the fallback for k = U128Bits as it does for k = 128 |
| pred_zero | 139 (8) | 4 | only unsigned divisions of operands of their type |
| wide_rhs_pred_zero | 139 (8) | 4 | the same, and RhsOutOfRange adds the constant 2^bits, wider than the type |
| slt_i128_debug | 139 (8) | 4 | only the i128 analogue is compared |
| div_wide_const | 101 (7) | 4 | 2·U128Bits − 1 >= max_num_bits (real: 128+127 >= 254) |

The division run's truncations stop below max_num_bits − 2. At P=139,
P/2^8 ≈ 0.54, and the q0 guard's range check of `q0 − q` can wrap for a
Field-width truncation with k = 1, which the real field (ratio 0.76) never
allows. The widths at the edge (max_num_bits − 2, −1 and the Field) are
checked at P=233 in truncate_near_field instead.

The division run uses P=139, where 2·U128Bits − 1 < max_num_bits. With that
choice the remainder bound of a u128 division by a constant always takes the
optimised branch. The div_wide_const run uses P=101, which keeps the real
relation, and shows what the code does then (finding 3).

The bitwise operations use widths 1..4, which cover the u1 arithmetic
and the black-box and De Morgan paths with every pair of values. The
decompositions use radices 1, 2, 3 and 4 and up to 3 limbs: 4^3 = 64 < 139,
so no limb sequence wraps the field, and inputs up to p − 1 include values
that fit and values that do not.

## 3. Runs

| run | expect | what it shows |
|---|---|---|
| division | pass | One run for the integer layer at P = 139. Unsigned division: for widths 1..4, constant or witness operands and predicates {0, 1, w0, w1}, the circuit accepts exactly `(lhs / rhs, lhs % rhs)`, and nothing for rhs = 0 (EuclideanDivisionCorrect). Signed division: for widths 1..4 (4 plays i128) with the predicate set, it accepts exactly the quotient rounded toward zero and the remainder with lhs's sign, as bit patterns, and nothing for a zero divisor. MIN / −1 wraps to MIN (SignedDivisionCorrect). Neither kind fails under a false predicate (PredicateZeroNeverFails, SignedDivisionCorrect). `bound_constraint_with_offset` with offset 0 or a predicate witness holds iff `lhs + offset <= rhs`, for every bits up to max_num_bits − 2, on both branches (BoundConstraintCorrect). The constant offset 1 that the division code also passes (mod.rs 932, 970) is left out: with it the check fails at the 1073 fallback, which is finding 3 (run div_wide_const). `truncate_var(x, k, n)` accepts exactly `x mod 2^k` for n in {k+1, 2k} below the edge (TruncateCorrect). `more_than_eq_var`, `less_than_var` (widths 1..4) and `less_than_signed` (widths 1..4, 4 playing i128, release build) return exactly the comparison, with signed operands read as two's complement (ComparisonCorrect). So the masked shift of the i128 case gives the right answer: `pow` cancels in more_than_eq_var. `and_var`, `or_var`, `xor_var` and `not_var` on constants and witnesses of widths 1..4 return exactly the bitwise AND, OR, XOR and complement (BitwiseCorrect). `radix_decompose` for radices 1, 2 and 4 and `bit_decompose`, with 1..3 limbs and either endianness, accept exactly the digits of x (most significant first for Big) and nothing when x does not fit (DecompositionCorrect); radix 3 is enumerated too, but exactness is claimed only for powers of two (see section 5). Compiling never panics (NoCompilerPanic). 288245 states, about 60 s. |
| pred_zero | violation | finding 5 |
| wide_rhs_pred_zero | violation | finding 2 |
| acir_arith | pass | Up to 5 calls of add_constant, add_variable, neg_var, add_var, mul_var, get_or_create_witness_var (F_3, 3 witnesses, width 2). Every result means what its method promises in every witness assignment the circuit accepts (ResultCorrect), and no call changes what an existing variable means (ValuesPreserved), through every mul_var arm including the promote-and-recurse one, and add_var's promotions. 21995 states, about 30 s. |
| acir_assert | pass | Up to 4 calls including sub_var, var_to_witness, eq_var, inv_var, assert_eq_var and assert_neq_var, with every variable as predicate and payload None or m1. Each call changes the set of accepted inputs by exactly its assertion (CircuitMeaning): an assertion under a false predicate rejects nothing, an ordinary method rejects nothing, and nothing lost in a merge. Cached constant witnesses hold their constants (ConstantWitnessesSound), and a payload only ever labels the last opcode of its own call (PayloadOnOwnOpcode). 38026 states, about 2 min. |
| acir_memory | pass | Up to 4 calls of add_constant, add_variable, initialize_array, initialize_return_data, read_from_memory, write_to_memory and flatten, on blocks {0, 1} with arrays of up to 2 elements (F_3, 4 witnesses, width 2). In every witness assignment the circuit accepts, running its memory opcodes leaves each block holding exactly what the calls stored: zeros, the flattened value with DynamicArrays copied, return-data witnesses, then each write (MemoryAgrees). Every read returns the value last stored at its index, and every flatten returns the value's elements in order (MemoryResultsCorrect). This goes through the index and value promotions of get_or_create_witness_var and the constant-witness cache. 75443 states, about 1 min 30 s. |
| add_width | violation | finding 4 |
| builder_refines | pass | Every sequence of up to 4 builder calls, with at most 2 functions, 2 blocks and 2 values, refines SsaFunctions (Refinement). Finished functions never change, a block keeps its first terminator, blocks are only added, and the runtime changes only before a function is finished. About 630k states, 1 min. |
| block_registers | pass | Any sequence of BlockVariables calls on 4 values and 3 registers, starting from live-in {v1}. While nothing has panicked, available values sit on distinct registers that are in use (NoRegisterAliasing), and every register taken belongs to an available value (NoRegisterLeak). 4332 states. |
| truncate_near_field | violation | findings 1 and 6 |
| slt_i128_debug | violation | finding 7 |
| div_wide_const | violation | finding 3 |

Every property of a passing run has a mutant in PROJECT.json. Each mutant
is a plausible bug in the mapped definition (a dropped guard, an
off-by-one, a swapped subtraction, a missing predicate factor), and TLC
finds the property violated under it.

## 4. Findings

1. **truncate near the field size.** With n = max_num_bits−2 or −1,
   `truncate_var` reaches the q0 guard with q0 ≥ 2^max_q_bits. The circuit is
   then unsatisfiable for every x (mod.rs:958). The spec says truncation
   works for all x < 2^n. TLC at max_num_bits 8: x = 0, k = 1, n = 6 or 7.
2. **Out-of-range constant divisor under a false predicate.** Line 868
   asserts `0 == 1` without the predicate. A division in a branch not taken
   therefore fails the circuit, which contradicts the spec's predicate-zero
   invariant. The wide_rhs_pred_zero run enumerates these divisors
   (RhsOutOfRange) and finds PredicateZeroNeverFails violated: u1
   `Wit(0) / Const(2)` under predicate `Wit(0)` accepts no result.
3. **Dropped offset in bound_constraint_with_offset.** When the offset has
   been moved onto rhs (line 1041) and the optimised branch is then
   abandoned (line 1057), the general branch checks `rhs - lhs`, which is
   `lhs <= rhs` instead of `lhs < rhs` (line 1073). For a u128 divided by a
   constant in (2^127, 2^128−2^125] with predicate 1, the remainder check
   then admits r = rhs, so `x / rhs` may be proven one too small.

4. **add_var's second promotion keeps a stale operand.** When neither the
   sum nor the first promotion fits, add_var promotes the other operand
   too, but adds that witness to the *original* expression of the first
   (mod.rs:717, and :731 in the Less branch) instead of to its witness.
   TLC (width 2, seven calls): `add_var(a² + ab + a, a + b + 1)` stores
   `a² + ab + a + w` with two mul terms, where `w1 + w2` would have fit.
   The value is right, but the spec says "convert the other side as well"
   and that every expression fits one identity (AddVarFits).

5. **Division under a witness predicate of 0 is not (0, 0).**
   `euclidean_division_var` (mod.rs:790, 822) returns zeros only for a
   *constant* zero predicate. With a witness predicate it still folds two
   constants and returns `(lhs, 0)` for a constant rhs of 1.
   `signed_division_var` turns a constant rhs of −1 into the unsigned
   divisor 1. So a signed division by −1 in a branch not taken yields
   `(−lhs, 0)`; this signed form follows from the code (the complement
   of −1 is the constant 1) and no run shows a trace of it. The pred_zero
   run shows the unsigned form: u1 `1 / 1` with a witness lhs, a constant
   divisor 1 and predicate witness 0 gives (1, 0)
   (PredicateZeroYieldsZero). The spec's interface says
   `(q, r) = (0, 0)` when predicate = 0, and its round-trip law says the
   same for signed division. The circuit does not fail, so the divergence
   matters only to a caller that relies on the zeros.

6. **A Field truncated to u128 can be proven to the wrapped value.**
   For `truncate_var(x, k, n)` with n = max_num_bits (a Field cast to an
   integer type), the q0 guard bounds the remainder by `p − q0·2^k` through
   `bound_constraint_with_offset(r, max_r, one, k + 1, ...)` (mod.rs:968).
   On BN254 with k = 128, `max_r = p mod 2^128` has 126 bits, so
   129 + 125 ≥ 254 and the check takes the fallback of finding 3. That
   fallback asserts `r <= max_r`, so q = q0, r = p mod 2^128 is also
   accepted, and `0` truncates to `p mod 2^128`. TLC at P = 233 (k = 4):
   x = 0 accepts 0 and 9 = 233 mod 16. With the offset kept in the
   fallback, the Field widths pass.
7. **i128 comparison panics with overflow checks.** `less_than_signed`
   computes `1_u128 << bit_count` (mod.rs:1257). `validate_numeric_type`
   accepts i128, and for bit_count = 128 a debug build panics with "attempt
   to shift left with overflow". A release build shifts by 0, and the
   division run shows that the comparison is still correct then.
8. **Big-endian decomposition order.** `radix_decompose` reverses the
   little-endian limbs of `radix_le_decompose` for Big (mod.rs:1416), so
   the most significant limb comes first: 19 in radix 10 with 3 limbs is
   [9, 1, 0] little endian and [0, 1, 9] big endian. The spec's scenario 6
   says [1, 9, 0], which is neither order of the digits, and its 4.8 calls
   the container's decomposition big-endian. The division run checks the
   code's order (DecompositionCorrect) for the power-of-two radices.

## 5. Not modelled

The bitwise black boxes and `radix_le_decompose` are outside `src/`; they
are modelled from the spec (see IntegerGadgets). Three things about
decomposition are left to code outside `src/` and have no property:
- For a radix that is not a power of two, the limbs are range checked to
  bit_size bits only. So limbs at or above the radix are accepted: 3 in
  radix 3 is both [0, 1] and [3, 0]. Whether limb < radix is enforced is
  up to the container or the SSA caller.
- When radix^limbs exceeds p, the reconstruction holds only modulo p, so x
  and x + p both decompose. Callers that need the canonical limbs compare
  against the modulus in the standard library. DecompositionCorrect is
  stated for radix^L <= p.
- The radix is cast with `to_u128() as u32`, and `radix − 1` underflows
  for radix 0. Both values come from standard-library callers; the model
  enumerates radices 1 to 4.
The `NotAConstant` error for a witness radix is not enumerated, because
valid SSA always passes a constant.

AcirVars and IntegerGadgets are not composed: the integer layer works on
values (AcirField), and its constraints are the set of outputs they accept.
Composing them would rebuild the division gadgets on the value table, at a
cost TLC cannot afford with the field sizes the division needs.

Memory: the `unreachable!` for a DynamicArray given to
`initialize_array` is not called. The model's caller passes
`initialize_array` the flattened length; the code ignores `len` when a
value is given. Reads and writes carry predicate None. An out-of-bounds
index therefore fails the circuit even in a branch that is not taken.
Guarding that is the SSA-to-ACIR caller's job, and that caller is not
modelled. `finish` only stamps witness lists onto the GeneratedAcir.

Not modelled in AcirVars: the `UndeclaredAcirVar` error paths (the model
only calls methods on declared variables), `add_mul_var` and `not_var`
on the value table (compositions of modelled methods; IntegerGadgets
models their values), call stacks and warning texts. The
`Expression` stays normalised, so a zero term that `mul_var` pushes (the
`q_c` of a Wit×Expr product) does not count towards the width.

Out of scope:
- The opcode container, Brillig and the black-box solvers live outside
  `src/` and appear only as oracles.
- Trait definitions (hir_def/traits.rs) are plain data. Their state
  changes are whole-field setters. The one lookup that can fail,
  `find_method`, panics on `method_ids.get(name).unwrap()`, and
  `method_ids` is filled by the definition collector outside `src/`. So
  whether the two maps agree is decided outside `src/`. The other
  methods (`get_generics`, `as_constraint`, the `TraitFunction`
  accessors) read types only. A module for this would have nothing to
  check but the setters.
- BlockVariables across blocks: the live-in sets come from the liveness
  analysis outside `src/`. The model covers one block over the shared
  cache.

### AcirVars bounds

P = 3 is the smallest field where negation, inverses and the 0/1 of
`eq_var` are all distinct. Width 2 is the smallest budget in which two
promoted witnesses fit together, so add_var's promise can be kept. Three
witnesses allow two inputs plus one promotion, or an input, a Brillig
inverse and a promotion; five calls reach `mul_var`'s last arm
(`a`, `b`, `a+b`, `(a+b)·(a+b)` promotes and recurses) and add_var's
promotion (`a·a + a·b`). The width violation needs four witnesses and
seven calls, one of them `add_constant(1)`. Its operand of width three
can only be built as `a·(a+b+1)`, so `Constants = {1}` there; the passing
runs add every constant of F. `CircuitMeaning` quantifies over all assignments of the
inputs, and `ValuesPreserved` and `ResultCorrect` over all witness
assignments that satisfy the opcodes, so each is exact within the bounds.

The memory run uses two blocks and arrays of up to two elements. That is
enough for a block built from a DynamicArray of the other, a write
followed by a read or flatten of the same block, and a constant index
whose witness the cache already holds. Four witnesses and five opcodes
allow a read from an initialised block with an index that is a fresh
input. Four calls reach init, write, read in sequence after a constant.
Values flattening to more than two elements are left out. Each element
costs several nested calls, and TLC's evaluation stack cannot hold a
two-by-two copy.

### FunctionBuilder and BlockVariables bounds

`MaxCalls = 4` reaches a second function started after the first was
given blocks and instructions, a set_runtime before and after a function
is finished, and a second terminator on a block.
`MaxFunctions`, `MaxBlocks` and `MaxValues` (2 each) keep the function,
block and value tables within what four calls can fill.

BlockVariables has 3 registers and 4 values, so the allocator can run out.
A value can be removed and its register handed to another value, and a
removed value can be defined again, which hits the `unreachable!`. The
depth is not bounded. The state space is finite because each value is
defined at most once before a panic.

Fairness: none is assumed, and no liveness property is stated. All of this
code is single-threaded. Each method runs to completion or panics, and
what is called next is decided by the caller outside `src/`. The code
therefore promises nothing about what eventually happens. The runs are
safety checks, and the builder's promise is a refinement of safety.

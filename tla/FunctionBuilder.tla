--------------------------- MODULE FunctionBuilder ---------------------------
(***************************************************************************)
(* FunctionBuilder (ssa/function_builder/mod.rs): builds SSA functions one *)
(* at a time.  The data-flow graph it writes into (dfg.rs) is outside this *)
(* repository; what the builder does with it is kept at the level of a     *)
(* function record:                                                        *)
(*   runtime   "acir" | "brillig" (RuntimeType without its InlineType)     *)
(*   blocks    per block its parameters, instructions and terminator       *)
(*   values    the type of each value id (ids count from 1)               *)
(*   globals, purities   the globals graph and the purity table it uses   *)
(* An instruction is [op, arg]: the insert_* method that made it and, for *)
(* the reference-count instructions, the array value it counts.  Other    *)
(* operands and the call stack are not modelled.                           *)
(***************************************************************************)
EXTENDS Naturals, Sequences, SequencesExt, FiniteSets

CONSTANTS
    Runtimes,         \* {"acir", "brillig"}
    NumericTypes,     \* NumericType arguments: [sign, bits]
    GlobalGraphs,     \* globals graphs, as the sequence of their value types
    PurityTables,     \* FunctionPurities tables
    DefaultPurities,  \* FunctionPurities::default()
    ErrorSelectors,   \* ErrorSelector arguments of record_error_type
    Terminators,      \* {"jmp", "jmpif", "return", "unreachable"}
    NoTerminator,
    MaxCalls, MaxFunctions, MaxBlocks, MaxValues

\* Value types, up to what the builder tells apart: Array and Slice are
\* "array"; Numeric "numeric"; Reference "reference" (Function behaves as
\* Numeric everywhere here and is folded into it).
ValueTypes == {"numeric", "reference", "array"}

VARIABLES current, currentBlock, finished, globals, purities, errorTypes,
          phase, calls
vars == <<current, currentBlock, finished, globals, purities, errorTypes,
          phase, calls>>

EmptyBlock == [params |-> <<>>, instrs |-> <<>>, term |-> NoTerminator]

\* Function::new: one (entry) block, the default runtime Acir(Inline),
\* default globals and purities.
FunctionNew == [runtime |-> "acir", blocks |-> <<EmptyBlock>>, values |-> <<>>,
                globals |-> <<>>, purities |-> DefaultPurities]

\* apply_globals: one dfg value per global, then the graph itself.
ApplyGlobals(f, g) == [f EXCEPT !.values = @ \o g, !.globals = g]

\* validate_numeric_type: the bit sizes a Signed or Unsigned type may have.
ValidNumericType(nt) ==
    CASE nt.sign = "signed" -> nt.bits \in {8, 16, 32, 64, 128}
      [] nt.sign = "unsigned" -> nt.bits \in {1, 8, 16, 32, 64, 128}
      [] OTHER -> TRUE

\* The insert_* methods that add one instruction to the current block and
\* the type of its result: "none", a type, or "ctrl" for the ctrl_typevars
\* the caller supplies (allocate's result is a reference).
Wrappers ==
    {[op |-> "allocate", result |-> "reference"], [op |-> "load", result |-> "ctrl"],
     [op |-> "store", result |-> "none"], [op |-> "binary", result |-> "numeric"],
     [op |-> "not", result |-> "numeric"], [op |-> "truncate", result |-> "numeric"],
     [op |-> "constrain", result |-> "none"], [op |-> "range_check", result |-> "none"],
     [op |-> "call", result |-> "ctrl"], [op |-> "array_get", result |-> "ctrl"],
     [op |-> "array_set", result |-> "array"],
     [op |-> "enable_side_effects_if", result |-> "none"]}

\* Mutant: a result value made even for an instruction without results.
InsertInstructionAlwaysResult(f, b, instr, t) ==
    [f EXCEPT !.blocks[b].instrs = Append(@, instr), !.values = Append(@, t)]

\* insert_instruction: append to the current block (whatever its
\* terminator) and make a result value of type t ("none": no result).
InsertInstruction(f, b, instr, t) ==
    LET withInstr == [f EXCEPT !.blocks[b].instrs = Append(@, instr)]
    IN IF t = "none" THEN withInstr ELSE [withInstr EXCEPT !.values = Append(@, t)]

\* Mutant: the is_none() check dropped.
TerminateBlockWithOverwrites(f, b, t) == [f EXCEPT !.blocks[b].term = t]

\* terminate_block_with: only a block without a terminator gets one.
TerminateBlockWith(f, b, t) ==
    IF f.blocks[b].term = NoTerminator THEN [f EXCEPT !.blocks[b].term = t] ELSE f

Init ==
    /\ \/ /\ current = FunctionNew                     \* FunctionBuilder::new
          /\ globals = <<>>
          /\ purities = DefaultPurities
       \/ \E rt \in Runtimes, g \in GlobalGraphs, p \in PurityTables :
             \* from_existing: new, set_globals, the purities, set_runtime
             /\ current = [ApplyGlobals(FunctionNew, g) EXCEPT !.runtime = rt, !.purities = p]
             /\ globals = g
             /\ purities = p
    /\ currentBlock = 1
    /\ finished = <<>>
    /\ errorTypes = {}
    /\ phase = "building"
    /\ calls = 0

\* One call on a builder still in use, within the bounds.
Step == /\ phase = "building"
        /\ calls < MaxCalls
        /\ calls' = calls + 1

Within(f) == Len(f.values) <= MaxValues /\ Len(f.blocks) <= MaxBlocks

\* A call that leaves everything but the current function and `calls` alone.
Edit(f) == /\ Step
           /\ Within(f)
           /\ current' = f
           /\ UNCHANGED <<currentBlock, finished, globals, purities, errorTypes, phase>>

\* A panic (assert or panic!) ends the builder.
Panic == /\ Step
         /\ phase' = "panicked"
         /\ UNCHANGED <<current, currentBlock, finished, globals, purities, errorTypes>>

-----------------------------------------------------------------------------
\* new_function / new_brillig_function: finish the current function and
\* start one with the given runtime.
NewFunctionWithType(rt) ==
    /\ Step
    /\ Len(finished) + 1 < MaxFunctions
    /\ currentBlock' = 1                                 \* switch_to_block(entry)
    /\ finished' = Append(finished, current)
    /\ current' = ApplyGlobals([FunctionNew EXCEPT !.runtime = rt, !.purities = purities], globals)
    /\ UNCHANGED <<globals, purities, errorTypes, phase>>

SetRuntime(rt) ==
    IF Len(finished) # 0 THEN Panic ELSE Edit([current EXCEPT !.runtime = rt])

SetGlobals(g) == /\ Step
                 /\ Within(ApplyGlobals(current, g))
                 /\ globals' = g
                 /\ current' = ApplyGlobals(current, g)
                 /\ UNCHANGED <<currentBlock, finished, purities, errorTypes, phase>>

SetPurities(p) == /\ Step
                  /\ purities' = p
                  /\ current' = [current EXCEPT !.purities = p]
                  /\ UNCHANGED <<currentBlock, finished, globals, errorTypes, phase>>

\* finish: the builder is consumed; its functions are `finished`.
Finish == /\ Step
          /\ finished' = Append(finished, current)
          /\ phase' = "finished"
          /\ UNCHANGED <<current, currentBlock, globals, purities, errorTypes>>

\* add_block_parameter (add_parameter is the entry block's).
AddBlockParameter(b, t) ==
    Edit([current EXCEPT !.values = Append(@, t),
                         !.blocks[b].params = Append(@, Len(current.values) + 1)])

\* numeric_constant (and length_constant, field_constant): a new value.
NumericConstant(nt) ==
    IF ValidNumericType(nt) THEN Edit([current EXCEPT !.values = Append(@, "numeric")])
    ELSE Panic

InsertBlock == Edit([current EXCEPT !.blocks = Append(@, EmptyBlock)])

SwitchToBlock(b) == /\ Step
                    /\ currentBlock' = b
                    /\ UNCHANGED <<current, finished, globals, purities, errorTypes, phase>>

\* One of the insert_* wrappers; a "ctrl" result takes the caller's type t.
InsertWrapped(w, t) ==
    Edit(InsertInstruction(current, currentBlock, [op |-> w.op, arg |-> 0],
                           IF w.result = "ctrl" THEN t ELSE w.result))

\* insert_cast validates its target type first.
InsertCast(nt) ==
    IF ValidNumericType(nt)
    THEN Edit(InsertInstruction(current, currentBlock, [op |-> "cast", arg |-> 0], "numeric"))
    ELSE Panic

\* insert_make_array asserts an array or slice type.
InsertMakeArray(t) ==
    IF t = "array"
    THEN Edit(InsertInstruction(current, currentBlock, [op |-> "make_array", arg |-> 0], t))
    ELSE Panic

\* insert_inc_rc / insert_dec_rc on a value.
RcInstruction(v, inc) == [op |-> IF inc THEN "inc_rc" ELSE "dec_rc", arg |-> v]

InsertRc(v, inc) == Edit(InsertInstruction(current, currentBlock, RcInstruction(v, inc), "none"))

Terminate(t) == Edit(TerminateBlockWith(current, currentBlock, t))

\* increment_/decrement_array_reference_count (update_array_reference_count):
\* nothing in ACIR or for a non-array; otherwise an inc_rc or dec_rc.
UpdateArrayReferenceCount(v, inc) ==
    /\ Step
    /\ current' = IF current.runtime = "acir" \/ current.values[v] # "array" THEN current
                  ELSE InsertInstruction(current, currentBlock, RcInstruction(v, inc), "none")
    /\ UNCHANGED <<currentBlock, finished, globals, purities, errorTypes, phase>>

RecordErrorType(sel) ==
    /\ Step
    /\ errorTypes' = errorTypes \cup {sel}
    /\ UNCHANGED <<current, currentBlock, finished, globals, purities, phase>>

Values == 1..Len(current.values)
Blocks == 1..Len(current.blocks)

Next ==
    \/ \E rt \in Runtimes : NewFunctionWithType(rt) \/ SetRuntime(rt)
    \/ \E g \in GlobalGraphs : SetGlobals(g)
    \/ \E p \in PurityTables : SetPurities(p)
    \/ Finish
    \/ \E b \in Blocks, t \in ValueTypes : AddBlockParameter(b, t)
    \/ \E nt \in NumericTypes : NumericConstant(nt) \/ InsertCast(nt)
    \/ InsertBlock
    \/ \E b \in Blocks : SwitchToBlock(b)
    \/ \E w \in Wrappers, t \in ValueTypes : InsertWrapped(w, t)
    \/ \E t \in ValueTypes : InsertMakeArray(t)
    \/ \E v \in Values, inc \in BOOLEAN : InsertRc(v, inc) \/ UpdateArrayReferenceCount(v, inc)
    \/ \E t \in Terminators : Terminate(t)
    \/ \E sel \in ErrorSelectors : RecordErrorType(sel)

Spec == Init /\ [][Next]_vars

-----------------------------------------------------------------------------
Instructions == [op : {w.op : w \in Wrappers} \cup {"cast", "make_array", "inc_rc", "dec_rc"},
                 arg : Nat]
Functions == [runtime : Runtimes,
              blocks : Seq([params : Seq(Nat), instrs : Seq(Instructions),
                            term : Terminators \cup {NoTerminator}]),
              values : Seq(ValueTypes), globals : GlobalGraphs \cup {<<>>},
              purities : PurityTables \cup {DefaultPurities}]

TypeOK ==
    /\ current \in Functions
    /\ finished \in Seq(Functions)
    /\ currentBlock \in Nat
    /\ globals \in GlobalGraphs \cup {<<>>}
    /\ purities \in PurityTables \cup {DefaultPurities}
    /\ errorTypes \subseteq ErrorSelectors
    /\ phase \in {"building", "finished", "panicked"}

\* The functions built so far (finish pushes the current one), as
\* SsaFunctions sees them.
AbstractFunction(f) == [runtime |-> f.runtime,
                        terms |-> [b \in 1..Len(f.blocks) |-> f.blocks[b].term]]
Built == IF phase = "finished" THEN finished ELSE Append(finished, current)
BuiltFunctions == [i \in 1..Len(Built) |-> AbstractFunction(Built[i])]

Abstract == INSTANCE SsaFunctions WITH fns <- BuiltFunctions, closed <- phase # "building"

(***************************************************************************)
(* The builder implements SsaFunctions: a started function is never lost  *)
(* or changed once the next one starts (new_function_with_type pushes the *)
(* old function as it swaps in the new), a block keeps its first          *)
(* terminator (terminate_block_with), blocks are only added, and the      *)
(* runtime changes only while no function is finished (set_runtime).      *)
(***************************************************************************)
Refinement == Abstract!Spec

====

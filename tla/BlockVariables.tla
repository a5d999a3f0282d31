--------------------------- MODULE BlockVariables ---------------------------
(***************************************************************************)
(* BlockVariables (brillig/brillig_gen/brillig_block_variables.rs): the   *)
(* SSA values available while one block is compiled to Brillig, over the  *)
(* function-wide allocation cache (FunctionContext::ssa_value_allocations)*)
(* and the register allocator of the BrilligContext.                      *)
(*   available    BlockVariables::available_variables                     *)
(*   allocations  ssa_value_allocations: value -> [kind, reg]             *)
(*   allocated    the registers the allocator has handed out and not      *)
(*                taken back                                               *)
(*   phase        "compiling", or "panicked" after an assert!, expect,     *)
(*                unreachable! or panic! of the code                      *)
(* The caller is arbitrary: any method on any value, in any order.  The   *)
(* block starts as BlockVariables::new(live_in), with the live-in values  *)
(* already in the cache on distinct allocated registers.                  *)
(***************************************************************************)
EXTENDS FiniteSets, Functions, TLC

CONSTANTS
    ValueIds,    \* SSA values of the function
    TypeOf,      \* dfg.type_of_value: ValueIds -> {"numeric", "reference", "function", "array", "slice"}
    Registers,   \* registers the allocator may hand out (the bound)
    LiveIn       \* the live-in set the block is created with

ASSUME LiveIn \subseteq ValueIds /\ Cardinality(LiveIn) <= Cardinality(Registers)

VARIABLES available, allocations, allocated, phase
vars == <<available, allocations, allocated, phase>>

\* allocate_value_with_type: one register, as a single-address variable, an
\* array pointer or a vector pointer according to the value's type.
AllocateValueWithType(typ, r) ==
    [kind |-> CASE typ \in {"numeric", "reference", "function"} -> "single"
                [] typ = "array" -> "array"
                [] typ = "slice" -> "vector",
     reg |-> r]

\* allocate_value: the same, for the type the dfg gives the value.
AllocateValue(v, r) == AllocateValueWithType(TypeOf[v], r)

\* BlockVariables::new(live_in), on the cache and allocator earlier blocks
\* left: each live-in value on its own allocated register.
Init ==
    \E regs \in [LiveIn -> Registers] :
        /\ IsInjective(regs)
        /\ allocations = [v \in LiveIn |-> AllocateValue(v, regs[v])]
        /\ allocated = {regs[v] : v \in LiveIn}
        /\ available = LiveIn
        /\ phase = "compiling"

Panic == /\ phase' = "panicked"
         /\ UNCHANGED <<available, allocations, allocated>>

\* Mutant: an allocator that may hand out a register already in use.
FreeRegistersAny == Registers

\* RegisterAllocator::allocate_register: some register not in use.
FreeRegisters == Registers \ allocated

\* define_variable: allocate a register, insert into the cache (whose old
\* entry, if any, is overwritten before the unreachable!), make the value
\* available.  `extractFails` is a panic of what the caller then does with
\* the variable, after all of this.
DefineThen(v, extractFails) ==
    /\ phase = "compiling"
    /\ \E r \in FreeRegisters :
          /\ allocations' = (v :> AllocateValue(v, r)) @@ allocations
          /\ allocated' = allocated \cup {r}
    /\ available' = IF v \in DOMAIN allocations THEN available
                    ELSE available \cup {v}
    /\ phase' = IF v \in DOMAIN allocations \/ extractFails
                THEN "panicked" ELSE "compiling"

DefineVariable(v) == DefineThen(v, FALSE)

\* define_single_addr_variable: define_variable, then extract_single_addr,
\* which panics for an array or vector.
DefineSingleAddrVariable(v) == DefineThen(v, TypeOf[v] \in {"array", "slice"})

\* Mutant: remove_variable that forgets deallocate_register.
RemoveVariableNoDealloc(v) ==
    /\ phase = "compiling"
    /\ IF v \notin available \/ v \notin DOMAIN allocations THEN Panic
       ELSE /\ available' = available \ {v}
            /\ UNCHANGED <<allocations, allocated, phase>>

\* remove_variable: assert it was available, look up its allocation
\* (expect), give its register back.
RemoveVariable(v) ==
    /\ phase = "compiling"
    /\ IF v \notin available \/ v \notin DOMAIN allocations THEN Panic
       ELSE /\ available' = available \ {v}
            /\ allocated' = allocated \ {allocations[v].reg}
            /\ UNCHANGED <<allocations, phase>>

\* get_allocation: assert available, then the cache entry (or panic).
\* get_available_variables: the cache entry of every available value.
\* is_allocated reads `available` only.  None of them changes state.
GetAllocation(v) ==
    /\ phase = "compiling"
    /\ IF v \notin available \/ v \notin DOMAIN allocations THEN Panic
       ELSE UNCHANGED vars

GetAvailableVariables ==
    /\ phase = "compiling"
    /\ IF available \subseteq DOMAIN allocations THEN UNCHANGED vars ELSE Panic

Next ==
    \/ \E v \in ValueIds :
          \/ DefineVariable(v) \/ DefineSingleAddrVariable(v)
          \/ RemoveVariable(v) \/ GetAllocation(v)
    \/ GetAvailableVariables

Spec == Init /\ [][Next]_vars

-----------------------------------------------------------------------------
\* Register safety of compiled Brillig: while compilation has not
\* panicked, every available value (the ones get_allocation hands out) sits
\* in the cache on a register the allocator still counts as in use, and no
\* two available values share a register.  Broken if remove_variable freed
\* a register but left its value available, or define_variable took a
\* register in use.
NoRegisterAliasing ==
    phase = "compiling" =>
        /\ available \subseteq DOMAIN allocations
        /\ \A v \in available : allocations[v].reg \in allocated
        /\ \A v, w \in available :
              v # w => allocations[v].reg # allocations[w].reg

\* No register leaks: of the registers BlockVariables takes, each one in use
\* belongs to a value still available, so remove_variable gives back every
\* register when its value dies.
NoRegisterLeak ==
    phase = "compiling" =>
        allocated = {allocations[v].reg : v \in available}
====

---------------------------- MODULE SsaFunctions ----------------------------
(***************************************************************************)
(* What ssa/function_builder/mod.rs promises its callers, as an abstract  *)
(* specification: the functions built so far, in order, the last one     *)
(* still open.  A function is its runtime and, per block, its terminator. *)
(*   - only the last function changes ("limited to one function at a     *)
(*     time"); starting a new one finishes the previous for good;        *)
(*   - a block keeps the first terminator it is given                    *)
(*     (terminate_block_with: "if the current block does not already have *)
(*     a terminator instruction");                                        *)
(*   - blocks are only ever added;                                        *)
(*   - the runtime is changed only while the first function is the only  *)
(*     one (set_runtime: "will panic if there are any already finished    *)
(*     functions").                                                       *)
(***************************************************************************)
EXTENDS Naturals, Sequences, SequencesExt

CONSTANTS
    Runtimes,       \* RuntimeType, up to its inline type
    Terminators,    \* the kinds of TerminatorInstruction
    NoTerminator    \* a block not terminated yet

VARIABLES fns, closed
absVars == <<fns, closed>>

Fresh(rt) == [runtime |-> rt, terms |-> <<NoTerminator>>]

Init == /\ fns \in {<<Fresh(rt)>> : rt \in Runtimes}
        /\ closed = FALSE

\* The open function after some work on it: same runtime, blocks added,
\* terminators only set on blocks that had none.
Grows(old, new) ==
    /\ new.runtime = old.runtime
    /\ Len(new.terms) >= Len(old.terms)
    /\ \A b \in 1..Len(old.terms) :
          old.terms[b] # NoTerminator => new.terms[b] = old.terms[b]

Work == /\ ~closed
        /\ Len(fns') = Len(fns)
        /\ Front(fns') = Front(fns)
        /\ Grows(Last(fns), Last(fns'))
        /\ UNCHANGED closed

SetRuntime == /\ ~closed
               /\ Len(fns) = 1
               /\ \E rt \in Runtimes : fns' = <<[fns[1] EXCEPT !.runtime = rt]>>
               /\ UNCHANGED closed

Begin == /\ ~closed
         /\ \E rt \in Runtimes : fns' = Append(fns, Fresh(rt))
         /\ UNCHANGED closed

Close == /\ ~closed
         /\ closed' = TRUE
         /\ UNCHANGED fns

Next == Work \/ SetRuntime \/ Begin \/ Close

Spec == Init /\ [][Next]_absVars
=============================================================================

------------------------------ MODULE AcirVars ------------------------------
(***************************************************************************)
(* The value table of AcirContext (acir_context/mod.rs) and the affine    *)
(* arithmetic built on it.  The context is one record `ctx`:               *)
(*   vars      AcirVar -> AcirVarData, a sequence (add_data uses the       *)
(*             table's length as the next id); a form is [kind, e] with   *)
(*             kind "const" | "wit" | "expr" and e its Expression         *)
(*   cw        constant_witnesses: F -> Witness (0 when absent)           *)
(*   next      the container's next witness index                         *)
(*   opcodes   the container's opcode list                                *)
(*   payloads  assertion_payloads: opcode location -> payload             *)
(*   warnings  the number of warnings pushed                              *)
(* Every method is an operator from a context to [ctx, <result>], so a    *)
(* method that calls others is their composition, in the code's order.    *)
(***************************************************************************)
EXTENDS AcirExpr, SequencesExt, TLC

CONSTANTS
    ExpressionWidth,  \* 0 for ExpressionWidth::Unbounded, k for Bounded { width: k }
    Payloads,         \* assertion payloads (model values)
    NoPayload         \* `None`

FormConst(c) == [kind |-> "const", e |-> ConstExpr(c)]
FormWit(w) == [kind |-> "wit", e |-> WitExpr(w)]
FormExpr(e) == [kind |-> "expr", e |-> e]
Forms == [kind : {"const", "wit", "expr"}, e : Expressions]

\* Mutant: any linear expression taken for a witness.
FromExpressionLinearAsWitness(e) ==
    IF IsConst(e) THEN FormConst(e.q)
    ELSE IF IsLinear(e) THEN [kind |-> "wit", e |-> e]
    ELSE FormExpr(e)

\* impl From<Expression<F>> for AcirVarData: prefer the simpler variant.
FromExpression(e) ==
    IF IsConst(e) THEN FormConst(e.q)
    ELSE IF IsWitness(e) THEN FormWit(WitnessOf(e))
    ELSE FormExpr(e)

\* fits_in_one_identity
FitsInOneIdentity(e) ==
    ExpressionWidth = 0 \/ (Cardinality(MulTerms(e)) <= 1 /\ Width(e) <= ExpressionWidth)

\* add_data: the new id is the table's length.
AddData(ctx, d) == [ctx |-> [ctx EXCEPT !.vars = Append(@, d)], var |-> Len(ctx.vars) + 1]

AddConstant(ctx, c) == AddData(ctx, FormConst(c))

AddVariable(ctx) == AddData([ctx EXCEPT !.next = @ + 1], FormWit(ctx.next))

\* Mutant: a fresh witness without the identity that binds it.
GetOrCreateWitnessUnbound(ctx, e) ==
    IF IsWitness(e) THEN [ctx |-> ctx, w |-> WitnessOf(e)]
    ELSE [ctx |-> [ctx EXCEPT !.next = @ + 1], w |-> ctx.next]

\* GeneratedAcir::get_or_create_witness: e itself when it is 1 * w, else a
\* fresh w and the identity e - w = 0.
GetOrCreateWitness(ctx, e) ==
    IF IsWitness(e) THEN [ctx |-> ctx, w |-> WitnessOf(e)]
    ELSE [ctx |-> [ctx EXCEPT !.next = @ + 1,
                              !.opcodes = Append(@, ZeroOp(ExprSub(e, WitExpr(ctx.next))))],
          w |-> ctx.next]

\* GeneratedAcir::is_equal: a Brillig inverse `inv` and the witness `out`.
IsEqual(ctx, a, b) ==
    LET inv == ctx.next
        out == ctx.next + 1
    IN [ctx |-> [ctx EXCEPT !.next = @ + 2,
                            !.opcodes = @ \o <<BrilligOp(inv), IsEqOp(a, b, inv, out)>>],
        w |-> out]

\* stdlib_brillig_call(predicate, Inverse, ...): one fresh output variable.
BrilligInverse(ctx) ==
    AddData([ctx EXCEPT !.next = @ + 1, !.opcodes = Append(@, BrilligOp(ctx.next))],
            FormWit(ctx.next))

MarkVariablesEquivalent(ctx, lhs, rhs) ==
    LET l == ctx.vars[lhs]
        r == ctx.vars[rhs]
        merged ==
            IF l.kind = "const" THEN <<l, l>>
            ELSE IF r.kind = "const" THEN <<r, r>>
            ELSE IF l.kind = "wit" /\ r.kind = "expr" THEN <<l, l>>
            ELSE IF l.kind = "expr" /\ r.kind = "wit" THEN <<r, r>>
            ELSE IF l.kind = "wit" /\ r.kind = "wit"
                 THEN LET m == FormWit(Min({WitnessOf(l.e), WitnessOf(r.e)})) IN <<m, m>>
            ELSE IF IsLinear(l.e) /\ IsLinear(r.e)
                 THEN IF Cardinality(LinearTerms(l.e)) <= Cardinality(LinearTerms(r.e))
                      THEN <<l, l>> ELSE <<r, r>>
            ELSE <<l, r>>
    IN IF lhs = rhs THEN ctx
       ELSE [ctx EXCEPT !.vars[lhs] = merged[1], !.vars[rhs] = merged[2]]

\* (Each intermediate result below is passed on as an operator argument, so
\* that it is computed once.)

\* constant_witnesses.insert(c, witness) after the witness is made.
CacheWitness(made, c) == [ctx |-> [made.ctx EXCEPT !.cw[c] = made.w], w |-> made.w]

\* Mutant: the cache filled for every expression, keyed by its constant term.
VarToWitnessCachesExpressions(ctx, var) ==
    LET e == ctx.vars[var].e
    IN IF IsConst(e) /\ ctx.cw[e.q] # 0 THEN [ctx |-> ctx, w |-> ctx.cw[e.q]]
       ELSE CacheWitness(GetOrCreateWitness(ctx, e), e.q)

VarToWitness(ctx, var) ==
    LET e == ctx.vars[var].e
    IN IF IsConst(e) /\ ctx.cw[e.q] # 0 THEN [ctx |-> ctx, w |-> ctx.cw[e.q]]
       ELSE IF IsConst(e) THEN CacheWitness(GetOrCreateWitness(ctx, e), e.q)
       ELSE GetOrCreateWitness(ctx, e)

\* The new witness variable made equivalent to the one it stands for.
MergeWitnessVar(var, wv) == [ctx |-> MarkVariablesEquivalent(wv.ctx, var, wv.var), var |-> wv.var]

WitnessVar(var, vw) == MergeWitnessVar(var, AddData(vw.ctx, FormWit(vw.w)))

GetOrCreateWitnessVar(ctx, var) ==
    IF IsWitness(ctx.vars[var].e) THEN [ctx |-> ctx, var |-> var]
    ELSE WitnessVar(var, VarToWitness(ctx, var))

\* Mutant: the constant arm forgets the negation.
NegVarConstUnnegated(ctx, var) ==
    LET d == ctx.vars[var]
    IN AddData(ctx, IF d.kind = "const" THEN FormConst(d.e.q) ELSE FormExpr(ExprNeg(d.e)))

NegVar(ctx, var) ==
    LET d == ctx.vars[var]
    IN AddData(ctx, IF d.kind = "const" THEN FormConst(P - d.e.q) ELSE FormExpr(ExprNeg(d.e)))

\* The sum add_var settles for when lhs + rhs does not fit: promote the
\* wider operand (lhs on a tie) and retry; failing that, promote the other
\* and add it to the original expression of the first (AddVarLast), with
\* w1 the first promoted witness and p2 the second promotion.
AddVarLast(le, re, w1, p2) ==
    [ctx |-> p2.ctx,
     e |-> LET w2 == p2.ctx.vars[p2.var].e
           IN CASE Width(le) > Width(re) -> ExprAdd(le, w2)
                [] Width(le) < Width(re) -> ExprAdd(w2, re)
                [] OTHER -> ExprAdd(w1, w2)]

\* The retry after the first promotion p1; `second` is the other operand.
AddVarRetry(le, re, lhsFirst, second, p1) ==
    LET w1 == p1.ctx.vars[p1.var].e
        retry == IF lhsFirst THEN ExprAdd(w1, re) ELSE ExprAdd(le, w1)
    IN IF FitsInOneIdentity(retry) THEN [ctx |-> p1.ctx, e |-> retry]
       ELSE AddVarLast(le, re, w1, GetOrCreateWitnessVar(p1.ctx, second))

AddVarPromoted(ctx, lhs, rhs) ==
    LET lhsFirst == Width(ctx.vars[lhs].e) >= Width(ctx.vars[rhs].e)
    IN AddVarRetry(ctx.vars[lhs].e, ctx.vars[rhs].e, lhsFirst, IF lhsFirst THEN rhs ELSE lhs,
                   GetOrCreateWitnessVar(ctx, IF lhsFirst THEN lhs ELSE rhs))

\* self.add_data(AcirVarData::from(sum)) on the context the sum left.
AddSum(promoted) == AddData(promoted.ctx, FromExpression(promoted.e))

AddVar(ctx, lhs, rhs) ==
    LET sum == ExprAdd(ctx.vars[lhs].e, ctx.vars[rhs].e)
    IN IF FitsInOneIdentity(sum) THEN AddData(ctx, FromExpression(sum))
       ELSE AddSum(AddVarPromoted(ctx, lhs, rhs))

SubVarOf(lhs, neg) == AddVar(neg.ctx, lhs, neg.var)

SubVar(ctx, lhs, rhs) == SubVarOf(lhs, NegVar(ctx, rhs))

\* The fallback arm of mul_var: lhs promoted to a (a witness variable);
\* promote rhs on a's context and multiply the two witnesses.
RECURSIVE MulVar(_, _, _)
MulPromoted(a, b) == MulVar(b.ctx, a.var, b.var)
MulWitnesses(rhs, a) == MulPromoted(a, GetOrCreateWitnessVar(a.ctx, rhs))

\* mul_var: the match arms in the code's order; the last arm promotes both
\* operands to witnesses and recurses into the Wit * Wit arm.
MulVar(ctx, lhs, rhs) ==
    LET l == ctx.vars[lhs]
        r == ctx.vars[rhs]
        kinds == {l.kind, r.kind}
        constOf(d, c) == d.kind = "const" /\ d.e.q = c
        exprOf == IF l.kind = "expr" THEN l.e ELSE r.e
        degreeOne == (IsLinear(l.e) /\ IsDegreeOneUnivariate(r.e))
                     \/ (IsLinear(r.e) /\ IsDegreeOneUnivariate(l.e))
    IN IF constOf(l, 1) THEN [ctx |-> ctx, var |-> rhs]
       ELSE IF constOf(r, 1) THEN [ctx |-> ctx, var |-> lhs]
       ELSE IF constOf(l, 0) \/ constOf(r, 0) THEN AddConstant(ctx, 0)
       ELSE IF kinds = {"const"} THEN AddConstant(ctx, l.e.q * r.e.q)
       ELSE IF kinds = {"wit", "const"} THEN AddData(ctx, FromExpression(ExprMulLinear(l.e, r.e)))
       ELSE IF kinds = {"expr", "const"}
            THEN AddData(ctx, FromExpression(ExprScale(exprOf, IF l.kind = "const" THEN l.e.q ELSE r.e.q)))
       ELSE IF kinds = {"wit"} THEN AddData(ctx, FormExpr(ExprMulLinear(l.e, r.e)))
       ELSE IF kinds = {"wit", "expr"} /\ IsLinear(exprOf)
            THEN AddData(ctx, FormExpr(ExprMulLinear(l.e, r.e)))
       ELSE IF kinds = {"expr"} /\ degreeOne THEN AddData(ctx, FormExpr(ExprMulLinear(l.e, r.e)))
       ELSE MulWitnesses(rhs, GetOrCreateWitnessVar(ctx, lhs))

\* Mutant: the folded comparison inverted.
EqVarFoldInverted(ctx, lhs, rhs) ==
    LET le == ctx.vars[lhs].e
        re == ctx.vars[rhs].e
        diff == ExprSub(le, re)
        isEq == IsEqual(ctx, le, re)
    IN IF IsConst(diff) THEN AddConstant(ctx, IF IsZero(diff) THEN 0 ELSE 1)
       ELSE AddData(isEq.ctx, FormWit(isEq.w))

EqVar(ctx, lhs, rhs) ==
    LET le == ctx.vars[lhs].e
        re == ctx.vars[rhs].e
        diff == ExprSub(le, re)
        isEq == IsEqual(ctx, le, re)
    IN IF IsConst(diff) THEN AddConstant(ctx, IF IsZero(diff) THEN 1 ELSE 0)
       ELSE AddData(isEq.ctx, FormWit(isEq.w))

\* Attach a payload to the last opcode (assertion_payloads.insert).
AttachPayload(ctx, payload) ==
    [ctx EXCEPT !.payloads = (Len(ctx.opcodes) :> payload) @@ @]

AssertEqVar(ctx, lhs, rhs, payload) ==
    LET diff == ExprSub(ctx.vars[lhs].e, ctx.vars[rhs].e)
        emitted == [ctx EXCEPT !.warnings = @ + (IF IsConst(diff) THEN 1 ELSE 0),
                               !.opcodes = Append(@, ZeroOp(diff))]
        labelled == IF payload = NoPayload THEN emitted ELSE AttachPayload(emitted, payload)
    IN IF IsZero(diff) THEN MarkVariablesEquivalent(ctx, lhs, rhs)
       ELSE MarkVariablesEquivalent(labelled, lhs, rhs)

\* Mutant: var * predicate checked against one instead of the predicate.
MaybeEqPredicateAgainstOne(ctx, var, predicate) ==
    LET against(m, one) == AssertEqVar(one.ctx, m.var, one.var, NoPayload)
        check(m) == against(m, AddConstant(m.ctx, 1))
    IN check(MulVar(ctx, var, predicate))

MaybeEqPredicate(ctx, var, predicate) ==
    LET check(m) == AssertEqVar(m.ctx, m.var, predicate, NoPayload)
    IN check(MulVar(ctx, var, predicate))

\* inv_var: the inverse (a folded constant, or a Brillig output) and the
\* check inverse * var == predicate.
InvVar(ctx, var, predicate) ==
    LET d == ctx.vars[var]
        inverted == IF d.kind = "const"
                    THEN AddConstant(ctx, IF d.e.q = 0 THEN 0
                                          ELSE CHOOSE i \in F : (i * d.e.q) % P = 1)
                    ELSE BrilligInverse(ctx)
        check(inv, shouldBeOne) ==
            [ctx |-> MaybeEqPredicate(shouldBeOne.ctx, shouldBeOne.var, predicate),
             var |-> inv.var]
        multiply(inv) == check(inv, MulVar(inv.ctx, inv.var, var))
    IN multiply(inverted)

\* Mutant: the payload attached even when inv_var emitted nothing.
AssertNeqVarAlwaysLabels(ctx, lhs, rhs, predicate, payload) ==
    LET labelled(before, inv) == IF payload = NoPayload THEN inv ELSE AttachPayload(inv, payload)
        checked(diff) == labelled(diff.ctx, InvVar(diff.ctx, diff.var, predicate).ctx)
    IN checked(SubVar(ctx, lhs, rhs))

AssertNeqVar(ctx, lhs, rhs, predicate, payload) ==
    LET labelled(before, inv) ==
            IF payload = NoPayload \/ Len(inv.opcodes) = Len(before.opcodes) THEN inv
            ELSE AttachPayload(inv, payload)
        checked(diff) == labelled(diff.ctx, InvVar(diff.ctx, diff.var, predicate).ctx)
    IN checked(SubVar(ctx, lhs, rhs))

-----------------------------------------------------------------------------
(***************************************************************************)
(* The memory layer.  An AcirValue is [kind |-> "var", v], [kind |->      *)
(* "array", elems] or [kind |-> "dyn", b, len] (AcirDynamicArray: a block *)
(* already in memory); element types are left out.  Each method threads  *)
(* the context through the calls it makes, in the code's order.           *)
(***************************************************************************)

\* Mutant: the read's output witness and index witness swapped.
ReadPushSwapped(b, iw, rv) ==
    LET rw == VarToWitness(rv.ctx, rv.var)
    IN [ctx |-> [rw.ctx EXCEPT !.opcodes = Append(@, MemReadOp(b, rw.w, iw.w))], var |-> rv.var]

\* read_from_memory: witness the index, then a fresh variable for the
\* value read and its witness, then the MemoryOp.
ReadPush(b, iw, rv) ==
    LET rw == VarToWitness(rv.ctx, rv.var)
    IN [ctx |-> [rw.ctx EXCEPT !.opcodes = Append(@, MemReadOp(b, iw.w, rw.w))], var |-> rv.var]

ReadIndexed(b, iw) == ReadPush(b, iw, AddVariable(iw.ctx))

ReadWithIndexVar(b, iv) == ReadIndexed(b, VarToWitness(iv.ctx, iv.var))
ReadFromMemory(ctx, b, index) == ReadWithIndexVar(b, GetOrCreateWitnessVar(ctx, index))

\* Mutant: the index witness written as the value and the value as index.
WritePushSwapped(b, iw, vw) ==
    [vw.ctx EXCEPT !.opcodes = Append(@, MemWriteOp(b, vw.w, iw.w))]

\* write_to_memory: witness the index, then the value, then the MemoryOp.
WritePush(b, iw, vw) ==
    [vw.ctx EXCEPT !.opcodes = Append(@, MemWriteOp(b, iw.w, vw.w))]

WriteValueVar(b, iw, vv) == WritePush(b, iw, VarToWitness(vv.ctx, vv.var))
WriteIndexed(b, value, iw) == WriteValueVar(b, iw, GetOrCreateWitnessVar(iw.ctx, value))
WriteWithIndexVar(b, value, iv) == WriteIndexed(b, value, VarToWitness(iv.ctx, iv.var))
WriteToMemory(ctx, b, index, value) == WriteWithIndexVar(b, value, GetOrCreateWitnessVar(ctx, index))

\* The reads of a dynamic array's elements 0..len-1 (the try_vecmap of
\* flatten and initialize_array_inner): add_constant(i), then a read.
RECURSIVE ReadRange(_, _, _, _, _)
ReadRangeNext(r, b, len, i, acc) == ReadRange(r.ctx, b, len, i + 1, Append(acc, r.var))
ReadAt(c, b) == ReadFromMemory(c.ctx, b, c.var)
ReadRange(ctx, b, len, i, acc) ==
    IF i >= len THEN [ctx |-> ctx, vars |-> acc]
    ELSE ReadRangeNext(ReadAt(AddConstant(ctx, i), b), b, len, i, acc)

\* flatten: the variables of a value, a dynamic array read from memory.
RECURSIVE Flatten(_, _), FlattenElems(_, _, _)
FlattenMore(r, rest, acc) == FlattenElems(r.ctx, rest, acc \o r.vars)
FlattenElems(ctx, elems, acc) ==
    IF elems = <<>> THEN [ctx |-> ctx, vars |-> acc]
    ELSE FlattenMore(Flatten(ctx, Head(elems)), Tail(elems), acc)
Flatten(ctx, value) ==
    CASE value.kind = "var" -> [ctx |-> ctx, vars |-> <<value.v>>]
      [] value.kind = "array" -> FlattenElems(ctx, value.elems, <<>>)
      [] value.kind = "dyn" -> ReadRange(ctx, value.b, value.len, 0, <<>>)

\* initialize_array_inner: the witnesses of a value, in order; a Var is
\* made a witness variable first, a dynamic array is read element-wise.
RECURSIVE InitializeArrayInner(_, _), InnerElems(_, _, _), InnerVars(_, _, _)
InnerVarWitness(vv) == VarToWitness(vv.ctx, vv.var)
InnerVarsMore(r, rest, acc) == InnerVars(r.ctx, rest, Append(acc, r.w))
InnerVars(ctx, vs, acc) ==
    IF vs = <<>> THEN [ctx |-> ctx, ws |-> acc]
    ELSE InnerVarsMore(InnerVarWitness(GetOrCreateWitnessVar(ctx, Head(vs))), Tail(vs), acc)
InnerElemsMore(r, rest, acc) == InnerElems(r.ctx, rest, acc \o r.ws)
InnerElems(ctx, elems, acc) ==
    IF elems = <<>> THEN [ctx |-> ctx, ws |-> acc]
    ELSE InnerElemsMore(InitializeArrayInner(ctx, Head(elems)), Tail(elems), acc)
InnerRead(r) == InnerVars(r.ctx, r.vars, <<>>)
InitializeArrayInner(ctx, input) ==
    CASE input.kind = "var" -> InnerVars(ctx, <<input.v>>, <<>>)
      [] input.kind = "array" -> InnerElems(ctx, input.elems, <<>>)
      [] input.kind = "dyn" -> InnerRead(ReadRange(ctx, input.b, input.len, 0, <<>>))

\* initialize_array: len copies of the zero constant's witness when no
\* value is given, else the value's witnesses (len is then unused); then
\* the MemoryInit.  A DynamicArray value is unreachable! and not passed.
InitPush(b, tag, r) == [r.ctx EXCEPT !.opcodes = Append(@, MemInitOp(b, r.ws, tag))]
InitZeros(b, len, tag, zw) ==
    [zw.ctx EXCEPT !.opcodes = Append(@, MemInitOp(b, [k \in 1..len |-> zw.w], tag))]
InitZerosOf(b, len, tag, zero) == InitZeros(b, len, tag, VarToWitness(zero.ctx, zero.var))
InitializeArray(ctx, b, len, value, tag) ==
    IF value.kind = "none" THEN InitZerosOf(b, len, tag, AddConstant(ctx, 0))
    ELSE InitPush(b, tag, InitializeArrayInner(ctx, value))

\* initialize_return_data: a MemoryInit of the given witnesses.
InitializeReturnData(ctx, b, init) ==
    [ctx EXCEPT !.opcodes = Append(@, MemInitOp(b, init, "return_data"))]

-----------------------------------------------------------------------------
(***************************************************************************)
(* The context as a state machine: each step is one call SSA lowering may *)
(* make, on variables already in the table.  `last` records the call;    *)
(* `inputs` and `calls` (history only) the witnesses handed out by       *)
(* add_variable, the circuit's free inputs, and the number of calls.      *)
(***************************************************************************)
CONSTANTS
    MaxCalls,     \* bound on the number of calls
    MaxOpcodes,   \* bound on the opcode list
    Ops,          \* the methods a run calls
    Constants,    \* the field constants SSA passes to add_constant
    BlockIds,     \* memory block ids (BlockId)
    MaxArrayLen   \* bound on the length of an array or block

\* memLog (history only): the memory calls made, as the caller sees them:
\* [kind |-> "init", b, items] with the items the block is to hold, and
\* [kind |-> "write", b, i, v] with the index and value variables.
VARIABLES ctx, last, inputs, calls, memLog
vars == <<ctx, last, inputs, calls, memLog>>

\* AcirContext::new: an empty table and cache; witnesses count from 1 here.
EmptyContext == [vars |-> <<>>, cw |-> [c \in F |-> 0], next |-> 1,
                 opcodes |-> <<>>, payloads |-> <<>>, warnings |-> 0]

Init == /\ ctx = EmptyContext
        /\ last = [op |-> "none", a |-> 0, b |-> 0, p |-> 0, payload |-> NoPayload,
                   res |-> 0]
        /\ inputs = {}
        /\ calls = 0
        /\ memLog = <<>>

Vars == 1..Len(ctx.vars)

\* Take the outcome r of method `op` when it stays within the bounds.
Call(op, r, result, a, b, p, payload) ==
    /\ op \in Ops
    /\ calls < MaxCalls
    /\ r.next <= MaxWitnesses + 1
    /\ Len(r.opcodes) <= MaxOpcodes
    /\ calls' = calls + 1
    /\ ctx' = r
    /\ last' = [op |-> op, a |-> a, b |-> b, p |-> p, payload |-> payload,
                res |-> result]

DoAddConstant ==
    \E c \in Constants : LET r == AddConstant(ctx, c)
                         IN Call("add_constant", r.ctx, r.var, c, 0, 0, NoPayload)
                            /\ UNCHANGED <<inputs, memLog>>

DoAddVariable ==
    LET r == AddVariable(ctx)
    IN Call("add_variable", r.ctx, r.var, 0, 0, 0, NoPayload) /\ inputs' = inputs \cup {ctx.next}
       /\ UNCHANGED memLog

DoNegVar ==
    \E a \in Vars : LET r == NegVar(ctx, a)
                    IN Call("neg_var", r.ctx, r.var, a, 0, 0, NoPayload) /\ UNCHANGED <<inputs, memLog>>

DoAddVar ==
    \E a, b \in Vars : LET r == AddVar(ctx, a, b)
                       IN Call("add_var", r.ctx, r.var, a, b, 0, NoPayload) /\ UNCHANGED <<inputs, memLog>>

DoSubVar ==
    \E a, b \in Vars : LET r == SubVar(ctx, a, b)
                       IN Call("sub_var", r.ctx, r.var, a, b, 0, NoPayload) /\ UNCHANGED <<inputs, memLog>>

DoMulVar ==
    \E a, b \in Vars : LET r == MulVar(ctx, a, b)
                       IN Call("mul_var", r.ctx, r.var, a, b, 0, NoPayload) /\ UNCHANGED <<inputs, memLog>>

DoEqVar ==
    \E a, b \in Vars : LET r == EqVar(ctx, a, b)
                       IN Call("eq_var", r.ctx, r.var, a, b, 0, NoPayload) /\ UNCHANGED <<inputs, memLog>>

DoGetOrCreateWitnessVar ==
    \E a \in Vars : LET r == GetOrCreateWitnessVar(ctx, a)
                    IN Call("get_or_create_witness_var", r.ctx, r.var, a, 0, 0, NoPayload)
                       /\ UNCHANGED <<inputs, memLog>>

\* var_to_witness returns a Witness, not a variable; it is kept in `res`.
DoVarToWitness ==
    \E a \in Vars : LET r == VarToWitness(ctx, a)
                    IN Call("var_to_witness", r.ctx, r.w, a, 0, 0, NoPayload) /\ UNCHANGED <<inputs, memLog>>

DoInvVar ==
    \E a, p \in Vars : LET r == InvVar(ctx, a, p)
                       IN Call("inv_var", r.ctx, r.var, a, 0, p, NoPayload) /\ UNCHANGED <<inputs, memLog>>

DoAssertEqVar ==
    \E a, b \in Vars, m \in Payloads \cup {NoPayload} :
        Call("assert_eq_var", AssertEqVar(ctx, a, b, m), 0, a, b, 0, m) /\ UNCHANGED <<inputs, memLog>>

DoAssertNeqVar ==
    \E a, b, p \in Vars, m \in Payloads \cup {NoPayload} :
        Call("assert_neq_var", AssertNeqVar(ctx, a, b, p, m), 0, a, b, p, m) /\ UNCHANGED <<inputs, memLog>>

\* The blocks the calls have initialised, and the length each was given.
Initialised == {memLog[k].b : k \in DOMAIN memLog}
BlockLen(b) == Len((CHOOSE ev \in Range(memLog) : ev.kind = "init" /\ ev.b = b).items)

\* The values the caller passes: variables and the dynamic arrays of the
\* blocks in memory, and arrays of up to MaxArrayLen of them.
MemValues == {[kind |-> "var", v |-> v] : v \in Vars}
             \cup {[kind |-> "dyn", b |-> b, len |-> BlockLen(b)] : b \in Initialised}
ArrayValues == {[kind |-> "array", elems |-> e] : e \in UNION {[1..n -> MemValues] : n \in 1..MaxArrayLen}}

\* What a value stands for, element by element: a variable, or cell i of
\* block b as it is when the value is used.
RECURSIVE AbstractItems(_), AbstractElems(_)
AbstractElems(elems) ==
    IF elems = <<>> THEN <<>> ELSE AbstractItems(Head(elems)) \o AbstractElems(Tail(elems))
AbstractItems(value) ==
    CASE value.kind = "var" -> <<[kind |-> "var", v |-> value.v]>>
      [] value.kind = "dyn" -> [k \in 1..value.len |-> [kind |-> "cell", b |-> value.b, i |-> k - 1]]
      [] value.kind = "array" -> AbstractElems(value.elems)

\* The values a call is given: at most MaxArrayLen elements once flattened.
Bounded(values) == {v \in values : Len(AbstractItems(v)) <= MaxArrayLen}

InitEvent(b, items) == [kind |-> "init", b |-> b, items |-> items]

\* Each block is initialised once, by the caller's choice of block id; the
\* value is an Array (a DynamicArray is unreachable! there).
DoInitializeArray ==
    \E b \in BlockIds \ Initialised :
        \/ \E len \in 1..MaxArrayLen :
              /\ Call("initialize_array", InitializeArray(ctx, b, len, [kind |-> "none"], "memory"), 0, len, 0, b, NoPayload)
              /\ memLog' = Append(memLog, InitEvent(b, [k \in 1..len |-> [kind |-> "zero"]]))
              /\ UNCHANGED inputs
        \/ \E value \in Bounded(ArrayValues) :
              /\ Call("initialize_array", InitializeArray(ctx, b, Len(AbstractItems(value)), value, "memory"),
                      0, value, 0, b, NoPayload)
              /\ memLog' = Append(memLog, InitEvent(b, AbstractItems(value)))
              /\ UNCHANGED inputs

DoInitializeReturnData ==
    \E b \in BlockIds \ Initialised, n \in 1..MaxArrayLen :
    \E ws \in [1..n -> 1..(ctx.next - 1)] :
        /\ Call("initialize_return_data", InitializeReturnData(ctx, b, ws), 0, ws, 0, b, NoPayload)
        /\ memLog' = Append(memLog, InitEvent(b, [k \in 1..n |-> [kind |-> "wit", w |-> ws[k]]]))
        /\ UNCHANGED inputs

DoReadFromMemory ==
    \E b \in Initialised, i \in Vars :
        LET r == ReadFromMemory(ctx, b, i)
        IN Call("read_from_memory", r.ctx, r.var, i, 0, b, NoPayload) /\ UNCHANGED <<inputs, memLog>>

DoWriteToMemory ==
    \E b \in Initialised, i, v \in Vars :
        /\ Call("write_to_memory", WriteToMemory(ctx, b, i, v), 0, i, v, b, NoPayload)
        /\ memLog' = Append(memLog, [kind |-> "write", b |-> b, i |-> i, v |-> v])
        /\ UNCHANGED inputs

DoFlatten ==
    \E value \in Bounded(MemValues \cup ArrayValues) :
        LET r == Flatten(ctx, value)
        IN Call("flatten", r.ctx, r.vars, value, 0, 0, NoPayload) /\ UNCHANGED <<inputs, memLog>>

Next ==
    \/ DoAddConstant \/ DoAddVariable \/ DoNegVar \/ DoAddVar \/ DoSubVar
    \/ DoMulVar \/ DoEqVar \/ DoGetOrCreateWitnessVar \/ DoVarToWitness
    \/ DoInvVar \/ DoAssertEqVar \/ DoAssertNeqVar
    \/ DoInitializeArray \/ DoInitializeReturnData \/ DoReadFromMemory
    \/ DoWriteToMemory \/ DoFlatten

Spec == Init /\ [][Next]_vars

-----------------------------------------------------------------------------
\* The value of variable v of context c under the witness assignment s.
Value(c, v, s) == EvalExpr(c.vars[v].e, s)

\* The witness assignments that satisfy every opcode of context c.
Solutions(c) == {s \in Assignments(c.next - 1) : Satisfies(c.opcodes, s)}

\* The witnesses an Expression mentions.
Mentions(e) == LinearTerms(e) \cup {pr[1] : pr \in MulTerms(e)} \cup {pr[2] : pr \in MulTerms(e)}

TypeOK ==
    /\ ctx.vars \in Seq(Forms)
    /\ \A v \in Vars : /\ ctx.vars[v].kind = "const" => IsConst(ctx.vars[v].e)
                       /\ ctx.vars[v].kind = "wit" => IsWitness(ctx.vars[v].e)
                       /\ Mentions(ctx.vars[v].e) \subseteq 1..(ctx.next - 1)
    /\ ctx.cw \in [F -> 0..(ctx.next - 1)]
    /\ ctx.next \in 1..(MaxWitnesses + 1)
    /\ ctx.opcodes \in Seq(Opcodes \cup MemOpcodes)
    /\ \A l \in DOMAIN ctx.payloads : l \in Int /\ ctx.payloads[l] \in Payloads
    /\ ctx.warnings \in Nat
    /\ inputs \subseteq 1..(ctx.next - 1)
    /\ \A k \in DOMAIN memLog : memLog[k].kind \in {"init", "write"} /\ memLog[k].b \in BlockIds

(***************************************************************************)
(* No call changes what an existing variable stands for: under every      *)
(* witness assignment the new circuit accepts, each variable evaluates as *)
(* it did before.  This is what makes rewriting table entries sound: the  *)
(* merges of mark_variables_equivalent, the promotions of                 *)
(* get_or_create_witness_var inside add_var and mul_var, and the          *)
(* constant-witness cache.                                                 *)
(***************************************************************************)
ValuesPreserved ==
    [][\A s \in Solutions(ctx') :
         \A v \in Vars : Value(ctx', v, s) = Value(ctx, v, s)]_vars

\* What the result of each method stands for, given its operands' values
\* x, y, the predicate's value p and its result's value z (a witness's
\* value for var_to_witness).
Intended(op, x, y, p, z, c) ==
    CASE op = "add_constant" -> z = c
      [] op = "neg_var" -> z = (P - x) % P
      [] op = "add_var" -> z = (x + y) % P
      [] op = "sub_var" -> z = (x - y) % P
      [] op = "mul_var" -> z = (x * y) % P
      [] op = "eq_var" -> z = IF x = y THEN 1 ELSE 0
      [] op \in {"get_or_create_witness_var", "var_to_witness"} -> z = x
      [] op = "inv_var" -> p # 0 => (z * x) % P = 1
      [] OTHER -> TRUE

(***************************************************************************)
(* Every method's result is what it promises (x + y for add_var, x * y    *)
(* for mul_var through every arm of its case split and its recursion, the *)
(* 0/1 equality of eq_var, the inverse of inv_var under a set predicate,  *)
(* ...) in every witness assignment the resulting circuit accepts.        *)
(***************************************************************************)
ResultCorrect ==
    [][last'.op \notin {"assert_eq_var", "assert_neq_var", "add_variable", "initialize_array",
                        "initialize_return_data", "read_from_memory", "write_to_memory", "flatten"} =>
       \A s \in Solutions(ctx') :
          LET val(v) == IF v \in Vars THEN Value(ctx, v, s) ELSE 0
              z == IF last'.op = "var_to_witness" THEN s[last'.res]
                   ELSE Value(ctx', last'.res, s)
          IN Intended(last'.op, val(last'.a), val(last'.b), val(last'.p), z, last'.a)]_vars

\* The assertion a call makes about the values s gives its operands.
Requirement(op, x, y, p) ==
    CASE op = "assert_eq_var" -> x = y
      [] op = "assert_neq_var" -> p # 0 => x # y
      [] op = "inv_var" -> p # 0 => x # 0
      [] OTHER -> TRUE

\* Does the circuit of context c accept the input assignment f?
Accepts(c, f) ==
    \E s \in Assignments(c.next - 1) :
        (\A i \in DOMAIN f : s[i] = f[i]) /\ Satisfies(c.opcodes, s)

(***************************************************************************)
(* A call changes the set of inputs the circuit accepts by exactly its    *)
(* assertion: assert_eq_var, assert_neq_var and inv_var (under a set      *)
(* predicate) reject the inputs that break it and nothing else; every     *)
(* other method rejects nothing.  So no method over-constrains (e.g. a    *)
(* false predicate still failing the circuit, a Brillig output pinned     *)
(* wrongly) or under-constrains (an assertion lost in a merge).           *)
(***************************************************************************)
CircuitMeaning ==
    [][\A f \in [inputs' -> F] :
         Accepts(ctx', f) <=>
           \E s \in Assignments(ctx'.next - 1) :
              /\ \A i \in DOMAIN f : s[i] = f[i]
              /\ Satisfies(ctx.opcodes, s)
              /\ LET val(v) == IF v \in Vars THEN Value(ctx, v, s) ELSE 0
                 IN Requirement(last'.op, val(last'.a), val(last'.b), val(last'.p))]_vars

(***************************************************************************)
(* A witness in the constant cache always holds its constant: var_to_     *)
(* witness hands it out again in later calls without a new constraint.    *)
(***************************************************************************)
ConstantWitnessesSound ==
    \A c \in F : ctx.cw[c] # 0 => \A s \in Solutions(ctx) : s[ctx.cw[c]] = c

(***************************************************************************)
(* An assertion payload labels an opcode of the call that carries it: a   *)
(* call never attaches or moves a payload onto an opcode emitted before   *)
(* it, and a call with a payload that emits opcodes labels its last one   *)
(* (assert_eq_var, and assert_neq_var with its no-opcode check).          *)
(***************************************************************************)
PayloadOnOwnOpcode ==
    [][/\ \A l \in DOMAIN ctx'.payloads :
            l <= Len(ctx.opcodes) => l \in DOMAIN ctx.payloads /\ ctx'.payloads[l] = ctx.payloads[l]
       /\ (last'.payload # NoPayload /\ Len(ctx'.opcodes) > Len(ctx.opcodes)) =>
            Len(ctx'.opcodes) \in DOMAIN ctx'.payloads
            /\ ctx'.payloads[Len(ctx'.opcodes)] = last'.payload]_vars

(***************************************************************************)
(* add_var leaves a sum that fits one identity: the specification's       *)
(* width-budget invariant, "if still too wide, convert the other side as  *)
(* well".                                                                  *)
(***************************************************************************)
AddVarFits ==
    [][last'.op = "add_var" => FitsInOneIdentity(ctx'.vars[last'.res].e)]_vars
-----------------------------------------------------------------------------
(***************************************************************************)
(* The memory the calls promise, under the witness assignment s and the   *)
(* variables' values in context c: memLog's first n calls applied in      *)
(* order; a write past the end is left out (the circuit rejects it).      *)
(***************************************************************************)
ItemValue(it, mem, s, c) ==
    CASE it.kind = "var" -> Value(c, it.v, s)
      [] it.kind = "zero" -> 0
      [] it.kind = "wit" -> s[it.w]
      [] it.kind = "cell" -> mem[it.b][it.i + 1]
WriteAbs(mem, b, i, v) == IF i < Len(mem[b]) THEN [mem EXCEPT ![b][i + 1] = v] ELSE mem
AbsStep(ev, mem, s, c) ==
    IF ev.kind = "init"
    THEN (ev.b :> [k \in 1..Len(ev.items) |-> ItemValue(ev.items[k], mem, s, c)]) @@ mem
    ELSE WriteAbs(mem, ev.b, Value(c, ev.i, s), Value(c, ev.v, s))
RECURSIVE AbsMem(_, _, _, _)
AbsMem(log, n, s, c) == IF n = 0 THEN <<>> ELSE AbsStep(log[n], AbsMem(log, n - 1, s, c), s, c)

(***************************************************************************)
(* The memory blocks of the circuit hold what the calls put there: under  *)
(* every witness assignment the circuit accepts, running its MemoryInit   *)
(* and MemoryOp opcodes gives each block exactly the values of the items  *)
(* initialize_array (zeros, or the flattened value with dynamic arrays    *)
(* copied), initialize_return_data and every write_to_memory since gave   *)
(* it, through the index and value witnesses, the constant-witness cache  *)
(* and the merges of get_or_create_witness_var.                            *)
(***************************************************************************)
MemoryAgreesUnder(s) == MemoryAfter(ctx.opcodes, s).mem = AbsMem(memLog, Len(memLog), s, ctx)
MemoryAgrees == \A s \in Solutions(ctx) : MemoryAgreesUnder(s)

(***************************************************************************)
(* read_from_memory returns the value last stored at its index, and      *)
(* flatten returns the value's elements in order, a dynamic array's as   *)
(* the block holds them, in every witness assignment the circuit accepts.*)
(***************************************************************************)
ResultsAgree(l, s, am) ==
    IF l.op = "read_from_memory"
    THEN Value(ctx', l.res, s) = am[l.p][Value(ctx', l.a, s) + 1]
    ELSE /\ Len(l.res) = Len(AbstractItems(l.a))
         /\ \A k \in 1..Len(l.res) :
               Value(ctx', l.res[k], s) = ItemValue(AbstractItems(l.a)[k], am, s, ctx')
MemoryResultsCorrect ==
    [][last'.op \in {"read_from_memory", "flatten"} =>
         \A s \in Solutions(ctx') : ResultsAgree(last', s, AbsMem(memLog, Len(memLog), s, ctx'))]_vars
=============================================================================

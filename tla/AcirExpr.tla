------------------------------ MODULE AcirExpr ------------------------------
(***************************************************************************)
(* What AcirContext relies on from acvm, outside this repository: the     *)
(* affine-plus-quadratic Expression over witnesses and the parts of the   *)
(* opcode container (GeneratedAcir) that the value table calls.  Both are *)
(* modelled from the interface the specification gives them.              *)
(*                                                                         *)
(* An Expression is kept normalised (like terms merged, zero terms        *)
(* dropped): a coefficient for every witness, one for every unordered     *)
(* pair of witnesses, and a constant.  Witnesses are 1..MaxWitnesses.     *)
(***************************************************************************)
EXTENDS Integers, FiniteSets, Sequences, Functions, FiniteSetsExt, TLC

CONSTANTS
    P,              \* the field modulus (a small prime)
    MaxWitnesses    \* bound on the witnesses the container hands out

ASSUME P \in Nat /\ P > 2 /\ MaxWitnesses \in Nat \ {0}

F == 0..(P - 1)
Witnesses == 1..MaxWitnesses
MulPairs == {pr \in Witnesses \X Witnesses : pr[1] <= pr[2]}

Expressions == [mul : [MulPairs -> F], lin : [Witnesses -> F], q : F]

ConstExpr(c) == [mul |-> [pr \in MulPairs |-> 0], lin |-> [w \in Witnesses |-> 0],
                 q |-> c % P]
WitExpr(w) == [ConstExpr(0) EXCEPT !.lin[w] = 1]

ExprAdd(a, b) ==
    [mul |-> [pr \in MulPairs |-> (a.mul[pr] + b.mul[pr]) % P],
     lin |-> [w \in Witnesses |-> (a.lin[w] + b.lin[w]) % P],
     q   |-> (a.q + b.q) % P]

ExprScale(e, k) ==
    [mul |-> [pr \in MulPairs |-> (k * e.mul[pr]) % P],
     lin |-> [w \in Witnesses |-> (k * e.lin[w]) % P],
     q   |-> (k * e.q) % P]

ExprNeg(e) == ExprScale(e, P - 1)
ExprSub(a, b) == ExprAdd(a, ExprNeg(b))

LinearTerms(e) == {w \in Witnesses : e.lin[w] # 0}
MulTerms(e) == {pr \in MulPairs : e.mul[pr] # 0}

IsConst(e) == LinearTerms(e) = {} /\ MulTerms(e) = {}
IsZero(e) == IsConst(e) /\ e.q = 0
IsLinear(e) == MulTerms(e) = {}

\* Expression::to_witness(): the expression is exactly 1 * w.
IsWitness(e) ==
    IsLinear(e) /\ e.q = 0 /\ Cardinality(LinearTerms(e)) = 1
    /\ \A w \in LinearTerms(e) : e.lin[w] = 1
WitnessOf(e) == Max(LinearTerms(e) \cup {0})

\* One linear term, no mul term, no constant.
IsDegreeOneUnivariate(e) ==
    IsLinear(e) /\ e.q = 0 /\ Cardinality(LinearTerms(e)) = 1

\* The product of two linear expressions, which is again an Expression.
ExprMulLinear(a, b) ==
    [mul |-> [pr \in MulPairs |->
                 IF pr[1] = pr[2] THEN (a.lin[pr[1]] * b.lin[pr[1]]) % P
                 ELSE (a.lin[pr[1]] * b.lin[pr[2]] + a.lin[pr[2]] * b.lin[pr[1]]) % P],
     lin |-> [w \in Witnesses |-> (a.q * b.lin[w] + b.q * a.lin[w]) % P],
     q   |-> (a.q * b.q) % P]

\* Expression::width(): the number of linear and mul terms.
Width(e) == Cardinality(LinearTerms(e)) + Cardinality(MulTerms(e))

\* The value of e under an assignment s of the witnesses.
RECURSIVE LinSum(_, _, _), MulSum(_, _, _)
LinSum(e, s, ws) ==
    IF ws = {} THEN 0
    ELSE LET w == CHOOSE w \in ws : TRUE IN e.lin[w] * s[w] + LinSum(e, s, ws \ {w})
MulSum(e, s, prs) ==
    IF prs = {} THEN 0
    ELSE LET pr == CHOOSE pr \in prs : TRUE
         IN e.mul[pr] * s[pr[1]] * s[pr[2]] + MulSum(e, s, prs \ {pr})

EvalExpr(e, s) == (e.q + LinSum(e, s, LinearTerms(e)) + MulSum(e, s, MulTerms(e))) % P

(***************************************************************************)
(* Opcodes.  "zero" is AssertZero(e); "iseq" is the pair of identities    *)
(* GeneratedAcir::is_equal lays down, diff * inv = 1 - out and             *)
(* out * diff = 0, with `inv` a Brillig-computed witness; "brillig" is a   *)
(* Brillig call whose outputs are unconstrained.                          *)
(***************************************************************************)
ZeroOp(e) == [kind |-> "zero", e |-> e, a |-> e, w |-> 0, out |-> 0]
IsEqOp(a, b, inv, out) == [kind |-> "iseq", e |-> a, a |-> b, w |-> inv, out |-> out]
BrilligOp(out) == [kind |-> "brillig", e |-> ConstExpr(0), a |-> ConstExpr(0), w |-> out, out |-> out]

Opcodes == [kind : {"zero", "iseq", "brillig"}, e : Expressions, a : Expressions,
            w : 0..MaxWitnesses, out : 0..MaxWitnesses]

OpcodeHolds(op, s) ==
    CASE op.kind = "zero" -> EvalExpr(op.e, s) = 0
      [] op.kind = "iseq" ->
           LET diff == (EvalExpr(op.e, s) - EvalExpr(op.a, s)) % P
           IN /\ (diff * s[op.w]) % P = (1 - s[op.out]) % P
              /\ (s[op.out] * diff) % P = 0
      [] OTHER -> TRUE

(***************************************************************************)
(* Memory opcodes.  MemoryInit gives block b the values of the witnesses *)
(* `init`; MemoryOp reads block b at the index witness `w` into `out`, or *)
(* writes `out` there; predicate None.  A block is a sequence of field    *)
(* elements indexed from 0; an access to a block never initialised, or    *)
(* past its end, fails the circuit.                                        *)
(***************************************************************************)
MemInitOp(b, init, tag) == [kind |-> "minit", b |-> b, init |-> init, tag |-> tag]
MemReadOp(b, index, out) == [kind |-> "mread", b |-> b, w |-> index, out |-> out]
MemWriteOp(b, index, value) == [kind |-> "mwrite", b |-> b, w |-> index, out |-> value]
BlockTypes == {"memory", "call_data", "return_data"}
MemOpcodes ==
    [kind : {"minit"}, b : Nat, init : Seq(Witnesses), tag : BlockTypes]
    \cup [kind : {"mread", "mwrite"}, b : Nat, w : Witnesses, out : Witnesses]

\* The blocks' contents `mem` (a function from block ids) and whether every
\* access so far was in bounds, after one more memory opcode.
InBounds(op, s, mem) == op.b \in DOMAIN mem /\ s[op.w] < Len(mem[op.b])
MemStep(op, s, ms) ==
    CASE op.kind = "minit" ->
           [ms EXCEPT !.mem = (op.b :> [k \in 1..Len(op.init) |-> s[op.init[k]]]) @@ ms.mem]
      [] op.kind \in {"mread", "mwrite"} /\ ~InBounds(op, s, ms.mem) -> [ms EXCEPT !.ok = FALSE]
      [] op.kind = "mread" -> [ms EXCEPT !.ok = @ /\ s[op.out] = ms.mem[op.b][s[op.w] + 1]]
      [] op.kind = "mwrite" -> [ms EXCEPT !.mem[op.b][s[op.w] + 1] = s[op.out]]
      [] OTHER -> ms

RECURSIVE MemoryRun(_, _, _, _)
MemoryRun(ops, s, i, ms) ==
    IF i > Len(ops) THEN ms ELSE MemoryRun(ops, s, i + 1, MemStep(ops[i], s, ms))

\* The memory after every opcode of ops under s, and whether all held.
MemoryAfter(ops, s) == MemoryRun(ops, s, 1, [ok |-> TRUE, mem |-> <<>>])

\* The assignments of the first n witnesses (the others are never used).
Assignments(n) ==
    {[w \in Witnesses |-> IF w <= n THEN f[w] ELSE 0] : f \in [1..n -> F]}

Satisfies(ops, s) == (\A i \in 1..Len(ops) : OpcodeHolds(ops[i], s)) /\ MemoryAfter(ops, s).ok
=============================================================================

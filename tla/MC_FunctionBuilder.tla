------------------------- MODULE MC_FunctionBuilder -------------------------
EXTENDS FunctionBuilder

CONSTANTS p0, p1, e1

\* A valid type and one validate_numeric_type rejects (a signed u1).
MCNumericTypes == {[sign |-> "unsigned", bits |-> 8], [sign |-> "signed", bits |-> 1]}
\* A globals graph with one numeric global.
MCGlobalGraphs == {<<"numeric">>}

\* Every variable but `calls`, which no property reads: breadth-first
\* search reaches each view first with the fewest calls.
BuilderView == <<current, currentBlock, finished, globals, purities, errorTypes, phase>>
=============================================================================

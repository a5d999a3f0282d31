----------------------------- MODULE MC_AcirVars -----------------------------
(* Instantiation of AcirVars for TLC: the methods each run calls. *)
EXTENDS AcirVars

AllOps == {"add_constant", "add_variable", "neg_var", "add_var", "sub_var", "mul_var",
           "eq_var", "get_or_create_witness_var", "var_to_witness", "inv_var",
           "assert_eq_var", "assert_neq_var"}

\* The arithmetic surface: the calls that build and promote expressions.
ArithmeticOps == {"add_constant", "add_variable", "neg_var", "add_var", "mul_var",
                  "get_or_create_witness_var"}

\* The assertions, with the calls that make their operands.
AssertionOps == {"add_constant", "add_variable", "sub_var", "var_to_witness", "eq_var",
                 "inv_var", "assert_eq_var", "assert_neq_var"}

\* The calls that build sums and products, for the width budget of add_var.
WidthOps == {"add_constant", "add_variable", "add_var", "mul_var"}

\* The memory layer, with the calls that make indices and values.
MemoryOps == {"add_constant", "add_variable", "initialize_array", "initialize_return_data",
              "read_from_memory", "write_to_memory", "flatten"}

\* `last` only names the call that led to a state: states that agree on
\* the context and the inputs have the same futures.
ContextView == <<ctx, inputs, calls, memLog>>
=============================================================================

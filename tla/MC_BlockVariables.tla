------------------------- MODULE MC_BlockVariables -------------------------
EXTENDS BlockVariables

CONSTANTS v1, v2, v3, v4, r1, r2, r3

\* One value of each register kind, and a second numeric value so that two
\* single-address variables can compete for a register.
MCTypeOf == [v \in {v1, v2, v3, v4} |->
                CASE v = v1 -> "numeric" [] v = v2 -> "array"
                  [] v = v3 -> "slice"   [] v = v4 -> "reference"]
====

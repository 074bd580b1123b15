---------------------------- MODULE MCExecution ----------------------------
(* Instances of Execution for TLC: the names of locals are interchangeable. *)
EXTENDS Execution

CONSTANTS x, y

MCNames == {x, y}
\* Every form once: the code of an expression does not depend on its use.
SpreadForms == [let    |-> {"array", "coalesce"},
                assign |-> {"array", "call_arg"},
                expr   |-> {"condition", "call"},
                return |-> {"literal"},
                test   |-> {"condition"}]

MCSymmetry == Permutations(MCNames)
============================================================================

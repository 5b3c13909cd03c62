----------------------------- MODULE MCAfterHooks -----------------------------
EXTENDS AfterHooks, TLC
CONSTANTS t1, t2, old, new

MCTasks == {t1, t2}
MCSymmetry == Permutations(MCTasks)
MCRows == {old, new}
MCInitial == {old}

Memory == [rollsBack |-> FALSE, atomicConsume |-> TRUE]
SQL    == [rollsBack |-> TRUE, atomicConsume |-> FALSE]

MCConfigs == {Memory, SQL}
=============================================================================

--------------------------- MODULE MCDeployTasks ---------------------------
EXTENDS DeployTasks, TLC
CONSTANTS o1, o2
\* No property speaks of what two operators do after both took over an old lock.
OneHolder == "twoHolders" \notin mishaps
\* The age of the lock is seen by a task that is about to take it, by nobody else.
AgesWhenSeen ==
    lock # "old" /\ lock' = "old" => \E o \in Operators : op[o].step = "lock"
Symmetry == Permutations(Operators)
=============================================================================

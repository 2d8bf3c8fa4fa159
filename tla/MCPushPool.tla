----------------------------- MODULE MCPushPool -----------------------------
(***************************************************************************)
(* Small instances of PushPool for TLC.                                    *)
(***************************************************************************)
EXTENDS PushPool, TLC

\* Pushes are alike, and so are the threads of the pool.
Symmetry == Permutations(Tasks) \cup Permutations(Threads)

\* Without callbacks the cleaning, the ageing and the saving of the message guard
\* no step of the pool: runs whose invariants do not mention them leave them out
\* of the states they tell apart.
PoolView == <<[t \in Tasks |-> IF req[t] \in Taken THEN "accepted" ELSE req[t]],
              status, poolVars, delivered, ended>>
=============================================================================

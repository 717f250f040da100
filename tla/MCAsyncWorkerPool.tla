------------------------- MODULE MCAsyncWorkerPool -------------------------
EXTENDS AsyncWorkerPool, TLC

CONSTANTS w1, w2, u1, u2, u3, a, b, c1, c2, c3

\* u1 and u2 conflict on a, u2 and u3 on b; u1 and u3 can run in parallel.
MCItems == { [unit |-> u1, accounts |-> {a}], [unit |-> u2, accounts |-> {a, b}],
             [unit |-> u3, accounts |-> {b}] }

\* The pool under the most general client of these items.
Spec == PoolInit /\ [][PoolNext(MCItems)]_poolVars

\* Callers are alike, workers too, and so are the two ends of the chain of
\* conflicts together with their accounts.
Mirror == (u1 :> u3) @@ (u3 :> u1) @@ (a :> b) @@ (b :> a)

Symmetry == Permutations(Callers) \cup Permutations(Workers) \cup {Mirror}
=============================================================================

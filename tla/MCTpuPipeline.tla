--------------------------- MODULE MCTpuPipeline ---------------------------
EXTENDS TpuPipeline, TLC

CONSTANTS t1, t2, t3, b1, s1, s2, n1, a, b

Of(unit, accounts) == [unit |-> unit, accounts |-> accounts]

\* The last two transactions have one signature.
MCIdOf == (t1 :> s1) @@ (t2 :> s2) @@ (t3 :> s2) @@ (b1 :> n1)

\* A bundle that conflicts with a transaction of its batch; two transactions with
\* one id, of which the second, which is kept, conflicts with the bundle.
MCBatches == { [bundles |-> <<Of(b1, {a, b})>>, txs |-> <<Of(t1, {a})>>],
               [bundles |-> <<>>, txs |-> <<Of(t2, {}), Of(t3, {b})>>] }
=============================================================================

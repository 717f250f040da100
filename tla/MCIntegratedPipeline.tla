------------------------ MODULE MCIntegratedPipeline ------------------------
EXTENDS IntegratedPipeline, TLC

CONSTANTS t1, t2, t3, t4, b1, b2, s1, s2, s3, n1, a, b

Tx(unit, accounts) == [unit |-> unit, kind |-> "tx", accounts |-> accounts]
Bundle(unit, accounts) == [unit |-> unit, kind |-> "bundle", accounts |-> accounts]

\* The last two transactions have one signature, the two bundles one number.
MCIdOf == (t1 :> s1) @@ (t2 :> s2) @@ (t3 :> s3) @@ (t4 :> s3) @@ (b1 :> n1) @@ (b2 :> n1)

\* Two conflicting transactions and a bundle that conflicts with one of them;
\* then two transactions with one id, and a bundle with the number of the first
\* bundle.
MCBatches == { <<Tx(t1, {a}), Tx(t2, {a, b}), Bundle(b1, {b})>>,
               <<Tx(t3, {a}), Tx(t4, {b}), Bundle(b2, {a})>> }

\* Two batches of transactions for two callers.
MCTwoBatches == { <<Tx(t1, {a})>>, <<Tx(t2, {a})>> }
=============================================================================

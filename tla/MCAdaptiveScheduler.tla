------------------------- MODULE MCAdaptiveScheduler -------------------------
EXTENDS SchedulerEngine, TLC

CONSTANTS u1, u2, u3, u4, u5, u6, b1, b2, b3, id0, id7, padded7, name1, name2, x, y, z

Tx(item, accounts) == [kind |-> "transaction", item |-> item, id |-> item, accounts |-> accounts]
Bundle(item, id, accounts) == [kind |-> "bundle", item |-> item, id |-> id, accounts |-> accounts]

\* Two numbers, one of them also written with a zero before it; name1 and name2
\* are not numbers.
MCPrinted == (id0 :> id0) @@ (id7 :> id7) @@ (padded7 :> id7)

\* A batch above the threshold whose third transaction conflicts with the other
\* two, one that meets the accounts of the first and has two bundles with names,
\* and one below the threshold; a bundle with a number.
MCRequests == { <<Tx(u1, {x}), Tx(u2, {y}), Tx(u3, {x, y})>>,
                <<Tx(u4, {x, z}), Tx(u5, {y}), Bundle(b1, name1, {x, y}), Bundle(b2, name2, {z})>>,
                <<Tx(u6, {z})>>,
                <<Bundle(b3, padded7, {z})>> }

MCBatches == {ConvertExecutionUnits(request) : request \in MCRequests}
=============================================================================

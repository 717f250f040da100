---------------------------- MODULE MCPrioGraph ----------------------------
EXTENDS Prioritizer

CONSTANTS a, b,
  MaxTxs  \* the most transactions of a batch

\* Prices 1 and 3 give the priorities 1 and 3 when the fee is a whole number;
\* without a limit the priority is 0.
MCTxs == [price : {1, 3}, limit : {2}, accounts : SUBSET Accounts]
         \cup [price : {1}, limit : {0}, accounts : {{a}}]

\* A bundle that arrives without its transactions has no compute units and the
\* tip 4 is past the largest product; one with them has both.
MCBundles == { [tip |-> 4, cu |-> 0, accounts |-> {}],
               [tip |-> 2, cu |-> 1, accounts |-> {a}] }

MCBatches ==
  UNION { [bundles : [1 .. m -> MCBundles], txs : [1 .. n -> MCTxs]] :
          m \in 0 .. 1, n \in 0 .. MaxTxs }
=============================================================================

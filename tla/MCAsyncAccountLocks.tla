------------------------ MODULE MCAsyncAccountLocks ------------------------
EXTENDS AsyncAccountLocks, TLC

CONSTANTS a, b

\* A writer, a reader, and a guard that writes one account and reads another:
\* every pair of them conflicts somewhere except the two readers.
MCRequests == { [w |-> {a}, r |-> {}], [w |-> {}, r |-> {a}],
                [w |-> {b}, r |-> {a}] }
=============================================================================

------------------------ MODULE MCExternalScheduler ------------------------
EXTENDS ExternalScheduler

CONSTANTS t1, t2, t3, x, y

Of(id, accounts) == [id |-> id, accounts |-> accounts]

\* Three transactions that conflict, one more than there are workers; a batch
\* that names one twice; one that is too long; one that is longer still.
Conflicting == <<Of(t1, {x}), Of(t2, {x, y}), Of(t3, {x, y})>>
Repeating   == <<Of(t1, {x}), Of(t1, {x})>>
LongBatch   == <<Of(t2, {})>>
HugeBatch   == <<Of(t3, {})>>

MCBatches == {Conflicting, Repeating, LongBatch, HugeBatch}
MCLong    == {LongBatch, HugeBatch}
MCHuge    == {HugeBatch}

MCWorkload == << {Conflicting, Repeating}, {Conflicting, LongBatch}, {HugeBatch} >>
=============================================================================

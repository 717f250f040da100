------------------------------ MODULE MCLibrary ------------------------------
EXTENDS Library

CONSTANTS a, b, c, MaxList

\* Three hash functions: all accounts in one place; two words with collisions
\* under some seeds; no collision.
MCHashes ==
  { [p \in Accounts \X Seeds |-> <<0, 0>>],
    [p \in Accounts \X Seeds |-> <<p[2], IF p[1] = a THEN p[2] ELSE 1>>],
    [p \in Accounts \X Seeds |->
       <<p[2], IF p[1] = a THEN 0 ELSE IF p[1] = b THEN 1 ELSE 2>>] }

MCSubmissions == [accounts : SUBSET {a, b}, score : 1 .. 2]
MCLists       == UNION {[1 .. n -> MCSubmissions] : n \in 0 .. MaxList}
=============================================================================

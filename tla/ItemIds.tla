------------------------------- MODULE ItemIds -------------------------------
(***************************************************************************)
(* ItemIdGenerator (core/src/external_scheduler/id_generator.rs): ids of   *)
(* 128 bits with a kind above a 64-bit sequence number, which both kinds   *)
(* take from one atomic counter.                                           *)
(***************************************************************************)
EXTENDS Integers, Sequences

CONSTANTS
  SeqMod,     \* 2^64 in the code: the counter wraps there
  MaxIssued   \* bound: ids handed out

ITEM_TYPE_TRANSACTION == 0
ITEM_TYPE_BUNDLE      == 1

VARIABLES
  counter,  \* the AtomicU64
  issued    \* history: the kinds and the ids handed out, in order

vars == <<counter, issued>>

Init == counter = 1 /\ issued = <<>>

\* Mutation of IdOf: the number of the kind is added, not shifted.
IdBeside(kind, seq) == kind + seq

IdOf(kind, seq) == kind * SeqMod + seq

item_type(id) == (id \div SeqMod) % 256
sequence(id)  == id % SeqMod

\* next_tx and next_bundle; fetch_add is atomic and wraps.
NextId(kind) ==
  /\ Len(issued) < MaxIssued
  /\ counter' = (counter + 1) % SeqMod
  /\ issued' = Append(issued, [kind |-> kind, id |-> IdOf(kind, counter)])

Next == NextId(ITEM_TYPE_TRANSACTION) \/ NextId(ITEM_TYPE_BUNDLE)

-----------------------------------------------------------------------------

\* An id comes back only for the same kind and after a whole turn of the
\* counter, and tells its kind and its place in the sequence of all items.
IdsDistinct ==
  \A p, q \in DOMAIN issued :
    /\ issued[p].id = issued[q].id <=>
         issued[p].kind = issued[q].kind /\ (p - q) % SeqMod = 0
    /\ item_type(issued[p].id) = issued[p].kind
    /\ sequence(issued[p].id) = p % SeqMod
=============================================================================

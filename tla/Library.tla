------------------------------- MODULE Library -------------------------------
(***************************************************************************)
(* The components that are called only by their users, each a state        *)
(* machine of its own: the synchronous guards with the conflict tests on   *)
(* items, the synchronous workers, the block engine and the item ids.      *)
(* They share nothing, so a behaviour is one of any one of them and the    *)
(* others rest.                                                            *)
(***************************************************************************)
EXTENDS ConflictFilter, Sequences

CONSTANTS
  Threads, Submitters, ShardCount, MaxIds, SeqMod, MaxIssued,
  Lists  \* the lists of submissions that select_winners is given

\* What select_winners looks at.
Submission == [accounts : SUBSET Accounts, score : Nat]

ASSUME LibraryAssumption ==
  /\ ShardCount \in Nat \ {0}
  /\ SeqMod \in Nat /\ SeqMod > 1
  /\ Lists \subseteq Seq(Submission)

VARIABLES focus,
          locked_accounts, executing, in_call,
          submissions, next_id, bpc, taken, shard, given, before, undisturbed,
          list, winners,
          counter, issued

Sync  == INSTANCE SyncWorker
Block == INSTANCE BlockEngine
Ids   == INSTANCE ItemIds

guardVars  == <<vars, hash>>
syncVars   == <<locked_accounts, executing, in_call>>
blockVars  == <<submissions, next_id, bpc, taken, shard, given, before, undisturbed>>
idVars     == <<counter, issued>>
selectVars == <<list, winners>>

LibraryInit ==
  /\ focus \in {"guards", "workers", "submit", "select", "ids"}
  /\ FilterInit
  /\ Sync!Init
  /\ Block!Init
  /\ Ids!Init
  /\ list = <<>>
  /\ winners = <<>>

\* One call of select_winners.
Select ==
  /\ list = <<>>
  /\ list' \in Lists
  /\ winners' = Block!select_winners(list')

LibraryNext ==
  /\ UNCHANGED focus
  /\ \/ /\ focus = "guards"
        /\ Next
        /\ UNCHANGED <<hash, syncVars, blockVars, selectVars, idVars>>
     \/ /\ focus = "workers"
        /\ Sync!Next
        /\ UNCHANGED <<guardVars, blockVars, selectVars, idVars>>
     \/ /\ focus = "submit"
        /\ Block!Next
        /\ UNCHANGED <<guardVars, syncVars, selectVars, idVars>>
     \/ /\ focus = "select"
        /\ Select
        /\ UNCHANGED <<guardVars, syncVars, blockVars, idVars>>
     \/ /\ focus = "ids"
        /\ Ids!Next
        /\ UNCHANGED <<guardVars, syncVars, blockVars, selectVars>>

libraryVars == <<focus, guardVars, syncVars, blockVars, selectVars, idVars>>

LibrarySpec == LibraryInit /\ [][LibraryNext]_libraryVars

-----------------------------------------------------------------------------

\* The synchronous workers keep conflicting units apart (SyncWorker).
WorkerLocking == Sync!LockingSpec

\* Submissions, their ids and clears (BlockEngine).
SubmissionsExact == Block!SubmissionsExact

\* select_winners gives the best bundles that do not conflict (BlockEngine).
WinnersBest == Block!BestOf(list, winners)

\* Item ids tell their kind and place and do not repeat early (ItemIds).
IdsDistinct == Ids!IdsDistinct
=============================================================================

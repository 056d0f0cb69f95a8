---------------------------- MODULE ChainHistory ----------------------------
(* Chain with a history variable that remembers whether the process has died, *)
(* for what holds as long as it has not.                                      *)
EXTENDS ChainInv

VARIABLE crashed

HistoryInit == Init /\ crashed = FALSE

HistoryNext ==
  \/ Next /\ UNCHANGED crashed
  \/ Crash /\ crashed' = TRUE

HistorySpec == HistoryInit /\ [][HistoryNext]_<<vars, crashed>>

(* Until the first crash, between two calls of WriteBlock: the mapping from   *)
(* heights is exactly HEAD's chain of ancestors, whatever updateHashByHeight  *)
(* has rewritten; every tip of the stored tree is a leaf in memory, so that   *)
(* IsBestBlockIndex compares with every chain; and the account state of every *)
(* stored block is in the state database, so that it can be built upon.       *)
(* (A crash may leave entries of two chains, a restart knows HEAD's chain     *)
(* only, and a crash before the commit of the state batch leaves a block      *)
(* without one.)                                                              *)
IntactUntilCrash == crashed \/ (CanonicalChain /\ TipsAreLeaves /\ StateAvailable)
-----------------------------------------------------------------------------
Tip(b) == \A c \in stored : Parent[c] # b

(* Only the block of the writer that holds the lock may lack its state, and    *)
(* only the parent of that block may be a tip that is no leaf any more.        *)
IndexInv ==
  /\ mode # "up" => stored \subseteq {Genesis}
  /\ mode = "genesis" => StateHash[Genesis] \in stateDB
  /\ \A w \in Writer : lock = w => blk[w] \in leaves
  /\ \A b \in stored :
       \/ StateHash[b] \in stateDB
       \/ \E w \in Writer : lock = w /\ pc[w] = "commit" /\ blk[w] = b
  /\ mode = "up" =>
       \A b \in stored : Tip(b) =>
         \/ b \in leaves
         \/ \E w \in Writer : lock = w /\ pc[w] # "commit" /\ Parent[blk[w]] = b

HistoryInv == ForkInv /\ (crashed \/ (CanonInv /\ IndexInv))
=============================================================================

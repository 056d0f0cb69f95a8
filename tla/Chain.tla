-------------------------------- MODULE Chain --------------------------------
(***************************************************************************)
(* The block chain of a node: core/blockchain.go (Blockchain), with the    *)
(* fork bookkeeping of core/block_index.go (BlockLeaves), the header chain *)
(* of core/headerchain.go, the genesis set-up of core/genesis.go and the   *)
(* database of core/store/db_store.go.                                     *)
(*                                                                         *)
(* Goroutines (the miner, the downloader, message handlers) call           *)
(* WriteBlock concurrently.  The existence check runs before the lock is   *)
(* taken; every database write under the lock is a step of its own, because *)
(* readers of the store do not take the lock and the process can die       *)
(* between two of them.                                                    *)
(*                                                                         *)
(* A block is identified with its header hash.  What validateBlock and     *)
(* applyTxs decide from the contents of a block alone is the constant set  *)
(* Valid; whether the parent is stored, the height fits and the parent's   *)
(* account state can be loaded depends on the state and is a guard.        *)
(***************************************************************************)
EXTENDS Integers, FiniteSets

CONSTANTS Block,       \* the blocks that may be offered to the node
          Genesis,     \* the genesis block of the configuration
          NoBlock,     \* an absent entry, and EmptyHash as a parent
          Parent,      \* Header.PreviousBlockHash
          Height,      \* Header.Height
          Difficulty,  \* Header.Difficulty
          StateHash,   \* Header.StateHash: the root of the block's state trie
          Valid,       \* blocks whose hashes, proof of work, reward and
                       \* transactions check out on top of their parent
          MaxHeight,   \* bound: larger than the height of every block
          Writer,      \* goroutines that call WriteBlock
          NoWriter     \* the lock is free

ASSUME BlockAssumption ==
  /\ Genesis \in Block
  /\ NoBlock \notin Block
  /\ Parent \in [Block -> Block \cup {NoBlock}]
  /\ Parent[Genesis] = NoBlock
  /\ MaxHeight \in Nat
  /\ Height \in [Block -> Nat]
  /\ \A b \in Block : Height[b] < MaxHeight
  /\ Height[Genesis] = 0
  /\ Difficulty \in [Block -> Nat \ {0}]
  /\ DOMAIN StateHash = Block
  /\ Valid \subseteq Block
  /\ NoWriter \notin Writer

VARIABLES
  (* the databases, which survive the process *)
  stored,     \* blocks whose header, total difficulty and body are stored
  td,         \* total difficulty; the block index in memory and the record
              \* in the store hold the same number (one *big.Int)
  canon,      \* height -> hash of the canonical block, or NoBlock
  head,       \* the HEAD hash
  stateDB,    \* state roots whose trie nodes are in the account state DB
  (* the process *)
  mode,       \* "down", "genesis" (storing it), "open" (NewBlockchain), "up"
  leaves,     \* blockLeaves.blockIndexMap
  best,       \* blockLeaves.bestIndex
  curHeader,  \* headerChain.currentHeader
  lock,       \* bc.lock: the writer holding it
  pc, blk,    \* where each writer is in WriteBlock, and its block
  isHead, next, walk  \* locals of the writer that holds the lock

disk == <<stored, td, canon, head, stateDB>>
index == <<leaves, best, curHeader>>
locals == <<isHead, next, walk>>
vars == <<disk, mode, index, lock, pc, blk, locals>>

Heights == 0..MaxHeight

(* Types of the databases, the index and the locals of the calls of WriteBlock. *)
TypeOK ==
  /\ stored \subseteq Block
  /\ td \in [Block -> Nat]
  /\ canon \in [Heights -> Block \cup {NoBlock}]
  /\ head \in Block \cup {NoBlock}
  /\ mode \in {"down", "genesis", "open", "up"}
  /\ leaves \subseteq Block
  /\ best \in Block \cup {NoBlock}
  /\ curHeader \in Block \cup {NoBlock}
  /\ lock \in Writer \cup {NoWriter}
  /\ pc \in [Writer -> {"idle", "lock", "delete", "overwrite", "put", "commit"}]
  /\ blk \in [Writer -> Block]
  /\ isHead \in BOOLEAN
  /\ next \in Heights
  /\ walk \in Block \cup {NoBlock}

(* An empty database and a process that has not been started. *)
Init ==
  /\ stored = {} /\ td = [b \in Block |-> 0]
  /\ canon = [h \in Heights |-> NoBlock]
  /\ head = NoBlock /\ stateDB = {}
  /\ mode = "down"
  /\ leaves = {} /\ best = NoBlock /\ curHeader = NoBlock
  /\ lock = NoWriter
  /\ pc = [w \in Writer |-> "idle"] /\ blk = [w \in Writer |-> Genesis]
  /\ isHead = FALSE /\ next = 0 /\ walk = NoBlock
-----------------------------------------------------------------------------
(* Start-up: Genesis.InitializeAndValidate, then NewBlockchain.            *)

(* No genesis in the store: commit its account state first ... *)
StoreGenesisState ==
  /\ mode = "down" /\ canon[0] = NoBlock
  /\ stateDB' = stateDB \cup {StateHash[Genesis]}
  /\ mode' = "genesis"
  /\ UNCHANGED <<stored, td, canon, head, index, lock, pc, blk, locals>>

(* ... and then its header, as HEAD, in one batch. *)
StoreGenesisHeader ==
  /\ mode = "genesis"
  /\ stored' = stored \cup {Genesis}
  /\ td' = [td EXCEPT ![Genesis] = Difficulty[Genesis]]
  /\ canon' = [canon EXCEPT ![0] = Genesis]
  /\ head' = Genesis
  /\ mode' = "open"
  /\ UNCHANGED <<stateDB, index, lock, pc, blk, locals>>

(* The genesis is there and is the configured one. *)
ValidateGenesis ==
  /\ mode = "down" /\ canon[0] = Genesis
  /\ mode' = "open"
  /\ UNCHANGED <<disk, index, lock, pc, blk, locals>>

CanOpen ==
  /\ canon[0] \in stored
  /\ head \in stored
  /\ StateHash[head] \in stateDB

(* NewBlockchain starts from HEAD alone: the only leaf, the best index and *)
(* the current header; without HEAD's account state it fails.              *)
NewBlockchain ==
  /\ mode = "open"
  /\ IF CanOpen
     THEN /\ mode' = "up"
          /\ leaves' = {head} /\ best' = head /\ curHeader' = head
     ELSE /\ mode' = "down"
          /\ UNCHANGED index
  /\ UNCHANGED <<disk, lock, pc, blk, locals>>
-----------------------------------------------------------------------------
(* WriteBlock                                                              *)

(* HasBlock, before the lock is taken: a stored block is refused at once. *)
CheckExists(w, b) ==
  /\ mode = "up" /\ pc[w] = "idle"
  /\ IF b \in stored
     THEN UNCHANGED <<pc, blk>>
     ELSE /\ pc' = [pc EXCEPT ![w] = "lock"]
          /\ blk' = [blk EXCEPT ![w] = b]
  /\ UNCHANGED <<disk, mode, index, lock, locals>>

(* Mutant: a missing account state of the parent is taken as an empty one. *)
AcceptableStateless(b) ==
  /\ b \in Valid
  /\ Parent[b] \in stored
  /\ Height[b] = Height[Parent[b]] + 1

(* GetBlock of the parent, validateBlock, and applyTxs on the parent's state. *)
Acceptable(b) ==
  /\ b \in Valid
  /\ Parent[b] \in stored
  /\ Height[b] = Height[Parent[b]] + 1
  /\ StateHash[Parent[b]] \in stateDB

(* Any of those checks fails under the lock: the block is refused. *)
Reject(w) ==
  /\ pc[w] = "lock" /\ lock = NoWriter
  /\ ~Acceptable(blk[w])
  /\ pc' = [pc EXCEPT ![w] = "idle"]
  /\ blk' = [blk EXCEPT ![w] = Genesis]
  /\ UNCHANGED <<disk, mode, index, lock, locals>>

TotalDifficulty(b) == td[Parent[b]] + Difficulty[b]

(* Mutants: one lighter leaf is enough; a block must outweigh the sum of a    *)
(* leaf and its difficulty.                                                  *)
IsBestBlockIndexAny(d) == \E l \in leaves : d > td[l]
IsBestBlockIndexNever(d) == \A l \in leaves : d > td[l] + Difficulty[l]

(* blockLeaves.IsBestBlockIndex: strictly heavier than every leaf. *)
IsBestBlockIndex(d) == \A l \in leaves : d > td[l]

(* blockLeaves.findBestBlockIndex: a heaviest index; the map's order decides ties. *)
findBestBlockIndex(S, weight) == {l \in S : \A m \in S : weight[m] <= weight[l]}

(* Mutant: an equally heavy index becomes the best. *)
AddRemoveLeavesTie(b, weight) ==
  /\ leaves' = (leaves \cup {b}) \ {Parent[b]}
  /\ best' = IF best = NoBlock \/ td[best] <= weight[b] THEN b ELSE best

(* blockLeaves.Add (only a strictly heavier index becomes the best), then *)
(* RemoveByHash of the parent (a removed best index is searched anew).    *)
AddRemoveLeaves(b, weight) ==
  LET added == leaves \cup {b}
      bestAdded == IF best = NoBlock \/ td[best] < weight[b] THEN b ELSE best
      left == added \ {Parent[b]}
  IN /\ leaves' = left
     /\ IF bestAdded = Parent[b] /\ Parent[b] \in added
        THEN best' \in findBestBlockIndex(left, weight)
        ELSE best' = bestAdded

(* The lock is taken, the block passes, and the index in memory is updated. *)
(* Only a block that becomes the head goes through updateHashByHeight.      *)
Enter(w) ==
  LET b == blk[w]
      weight == [td EXCEPT ![b] = TotalDifficulty(b)]
  IN /\ pc[w] = "lock" /\ lock = NoWriter
     /\ Acceptable(b)
     /\ lock' = w
     /\ td' = weight
     /\ isHead' = IsBestBlockIndex(weight[b])
     /\ AddRemoveLeaves(b, weight)
     /\ curHeader' = b
     /\ next' = Height[b] + 1
     /\ walk' = Parent[b]
     /\ pc' = [pc EXCEPT ![w] = IF isHead' THEN "delete" ELSE "put"]
     /\ UNCHANGED <<stored, canon, head, stateDB, mode, blk>>

(* updateHashByHeight, first loop: one mapping above the new head is deleted ... *)
DeleteBlockHash(w) ==
  /\ pc[w] = "delete" /\ canon[next] # NoBlock
  /\ canon' = [canon EXCEPT ![next] = NoBlock]
  /\ next' = next + 1
  /\ UNCHANGED <<stored, td, head, stateDB, mode, index, lock, pc, blk, isHead, walk>>

(* ... until a height has none. *)
DeleteDone(w) ==
  /\ pc[w] = "delete" /\ canon[next] = NoBlock
  /\ pc' = [pc EXCEPT ![w] = "overwrite"]
  /\ UNCHANGED <<disk, mode, index, lock, blk, locals>>

(* Mutant: only the parent of the new head is written. *)
PutBlockHashOnce(w) ==
  /\ pc[w] = "overwrite" /\ walk \in stored
  /\ canon[Height[walk]] \notin {walk, NoBlock}
  /\ canon' = [canon EXCEPT ![Height[walk]] = walk]
  /\ walk' = NoBlock
  /\ UNCHANGED <<stored, td, head, stateDB, mode, index, lock, pc, blk, isHead, next>>

(* Second loop: an ancestor that is not the canonical block of its height *)
(* replaces it ...                                                        *)
PutBlockHash(w) ==
  /\ pc[w] = "overwrite" /\ walk \in stored
  /\ canon[Height[walk]] \notin {walk, NoBlock}
  /\ canon' = [canon EXCEPT ![Height[walk]] = walk]
  /\ walk' = Parent[walk]
  /\ UNCHANGED <<stored, td, head, stateDB, mode, index, lock, pc, blk, isHead, next>>

(* ... until an ancestor is canonical already, or the genesis was passed. *)
PutBlockHashDone(w) ==
  /\ pc[w] = "overwrite"
  /\ \/ walk = NoBlock
     \/ walk \in stored /\ canon[Height[walk]] = walk
  /\ pc' = [pc EXCEPT ![w] = "put"]
  /\ UNCHANGED <<disk, mode, index, lock, blk, locals>>

(* WriteBlock returns: bc.lock is released and the call's block forgotten. *)
Return(w) ==
  /\ pc' = [pc EXCEPT ![w] = "idle"]
  /\ blk' = [blk EXCEPT ![w] = Genesis]
  /\ lock' = NoWriter

(* Mutant: the error path keeps the lock. *)
UpdateHashFailsLocked(w) ==
  /\ pc[w] = "overwrite" /\ walk # NoBlock
  /\ walk \notin stored \/ canon[Height[walk]] = NoBlock
  /\ pc' = [pc EXCEPT ![w] = "idle"]
  /\ UNCHANGED <<disk, mode, index, lock, blk, locals>>

(* GetBlockHash finds no mapping for the ancestor's height (or the header is *)
(* missing): WriteBlock returns the error, the index in memory stays as it is. *)
UpdateHashFails(w) ==
  /\ pc[w] = "overwrite" /\ walk # NoBlock
  /\ walk \notin stored \/ canon[Height[walk]] = NoBlock
  /\ Return(w)
  /\ UNCHANGED <<disk, mode, index, locals>>

(* Mutant: a new head is stored without its height mapping. *)
PutBlockUnmapped(w) ==
  /\ pc[w] = "put"
  /\ stored' = stored \cup {blk[w]}
  /\ head' = IF isHead THEN blk[w] ELSE head
  /\ pc' = [pc EXCEPT ![w] = "commit"]
  /\ UNCHANGED <<td, canon, stateDB, mode, index, lock, blk, locals>>

(* Mutant: HEAD moves to every block that is written. *)
PutBlockAlwaysHead(w) ==
  /\ pc[w] = "put"
  /\ stored' = stored \cup {blk[w]}
  /\ canon' = [canon EXCEPT ![Height[blk[w]]] = blk[w]]
  /\ head' = blk[w]
  /\ pc' = [pc EXCEPT ![w] = "commit"]
  /\ UNCHANGED <<td, stateDB, mode, index, lock, blk, locals>>

(* bcStore.PutBlock: header, total difficulty and body, and for a new head *)
(* its height mapping and HEAD, in one batch.                              *)
PutBlock(w) ==
  /\ pc[w] = "put"
  /\ stored' = stored \cup {blk[w]}
  /\ IF isHead
     THEN /\ canon' = [canon EXCEPT ![Height[blk[w]]] = blk[w]]
          /\ head' = blk[w]
     ELSE UNCHANGED <<canon, head>>
  /\ pc' = [pc EXCEPT ![w] = "commit"]
  /\ UNCHANGED <<td, stateDB, mode, index, lock, blk, locals>>

(* batch.Commit: the account state of the block, in the other database. *)
CommitState(w) ==
  /\ pc[w] = "commit"
  /\ stateDB' = stateDB \cup {StateHash[blk[w]]}
  /\ Return(w)
  /\ UNCHANGED <<stored, td, canon, head, mode, index, locals>>

(* A database write returns an error: WriteBlock returns it, and nothing in *)
(* memory is undone.                                                        *)
WriteFails(w) ==
  /\ pc[w] \in {"delete", "overwrite", "put", "commit"}
  /\ Return(w)
  /\ UNCHANGED <<disk, mode, index, locals>>

(* The process dies; what is in memory is gone. *)
Crash ==
  /\ mode # "down"
  /\ mode' = "down"
  /\ leaves' = {} /\ best' = NoBlock /\ curHeader' = NoBlock
  /\ lock' = NoWriter
  /\ pc' = [w \in Writer |-> "idle"] /\ blk' = [w \in Writer |-> Genesis]
  /\ isHead' = FALSE /\ next' = 0 /\ walk' = NoBlock
  /\ UNCHANGED disk
-----------------------------------------------------------------------------
WriteBlock(w) ==
  \/ \E b \in Block : CheckExists(w, b)
  \/ Reject(w) \/ Enter(w)
  \/ DeleteBlockHash(w) \/ DeleteDone(w)
  \/ PutBlockHash(w) \/ PutBlockHashDone(w) \/ UpdateHashFails(w)
  \/ PutBlock(w) \/ CommitState(w)

StartUp == StoreGenesisState \/ StoreGenesisHeader \/ ValidateGenesis \/ NewBlockchain

Next ==
  \/ StartUp
  \/ \E w \in Writer : WriteBlock(w)

(* The node as long as it lives; with crashes and restarts; with database errors. *)
Spec == Init /\ [][Next]_vars
CrashSpec == Init /\ [][Next \/ Crash]_vars
FaultSpec == Init /\ [][Next \/ \E w \in Writer : WriteFails(w)]_vars
-----------------------------------------------------------------------------
(* The miner gives every block the same difficulty (miner/miner.go:212);    *)
(* only the genesis has one of its own.                                     *)
UniformDifficulty ==
  \A b, c \in Block \ {Genesis} : Difficulty[b] = Difficulty[c]

(* The lock is free and the chain is open: what a caller of CurrentBlock,  *)
(* or a reader that comes after every writer has returned, finds.          *)
Quiet == mode = "up" /\ lock = NoWriter

(* Fork choice: no stored block is heavier than HEAD, so that a node that   *)
(* restarts from HEAD alone (NewBlockchain) continues on the heaviest chain. *)
HeadHeaviest == \A b \in stored : head \in stored /\ td[b] <= td[head]

(* HEAD is only ever replaced by a strictly heavier block: of two equally   *)
(* heavy chains the first one stays, whatever the writers interleave.       *)
HeadOnlyGetsHeavier ==
  [][head' # head /\ head # NoBlock => td'[head'] > td[head]]_vars

(* The height-to-hash mapping is exactly the chain of ancestors of HEAD: HEAD *)
(* at its height, below it the parent of the entry above, nothing above HEAD. *)
HeadChainMapped ==
  /\ canon[Height[head]] = head
  /\ \A h \in Heights : h > Height[head] => canon[h] = NoBlock
  /\ \A h \in Heights : h > 0 /\ h <= Height[head] => canon[h - 1] = Parent[canon[h]]

(* Between two WriteBlock calls the mapping is the chain of HEAD: what        *)
(* GetBlockByHeight serves to peers is one chain.                             *)
CanonicalChain == Quiet => HeadChainMapped

(* At every moment, also in the middle of a reorganisation, a reader that   *)
(* asks for a height up to HEAD's (GetBlockByHeight takes no lock) gets a   *)
(* stored block of that height.                                             *)
ReadersFindBlocks ==
  \A h \in Heights :
    /\ canon[h] # NoBlock => canon[h] \in stored /\ Height[canon[h]] = h
    /\ head \in stored /\ h <= Height[head] => canon[h] # NoBlock

(* What CurrentBlock returns (the best index in memory) is the HEAD of the  *)
(* store, and it is a leaf.                                                 *)
CurrentBlockIsHead == Quiet => best = head /\ best \in leaves

(* Every tip of the stored tree is a leaf in memory: IsBestBlockIndex, which *)
(* compares with the leaves only, compares with every chain.                 *)
TipsAreLeaves ==
  Quiet => \A b \in stored : (\A c \in stored : Parent[c] # b) => b \in leaves

(* Every stored block can be built upon: the account state that applyTxs of *)
(* a child loads is in the state database.                                  *)
StateAvailable == Quiet => \A b \in stored : StateHash[b] \in stateDB

(* Whatever database write fails, however often a block is offered again and  *)
(* whatever is left in memory by calls that returned an error: every stored   *)
(* block but the genesis hangs on a stored parent, one below its height, with *)
(* the total difficulty of its chain, and the account state of that parent is *)
(* in the state database, so that the state of every block can be computed    *)
(* again from the genesis on.                                                 *)
StoredTree ==
  \A b \in stored \ {Genesis} :
    /\ Parent[b] \in stored
    /\ Height[b] = Height[Parent[b]] + 1
    /\ td[b] = td[Parent[b]] + Difficulty[b]
    /\ StateHash[Parent[b]] \in stateDB

(* The writers are goroutines: each goes on while it can, and bc.lock, a Go *)
(* mutex, is handed to a waiting goroutine eventually.                      *)
GoOn(w) ==
  \/ DeleteBlockHash(w) \/ DeleteDone(w)
  \/ PutBlockHash(w) \/ PutBlockHashDone(w) \/ UpdateHashFails(w)
  \/ PutBlock(w) \/ CommitState(w)
Fairness ==
  /\ WF_vars(StartUp)
  /\ \A w \in Writer : SF_vars(Reject(w) \/ Enter(w)) /\ WF_vars(GoOn(w))

(* Database errors under fairness.  The process may die while it starts, before *)
(* any writer runs: a later crash ends the calls whose return is at stake.      *)
CrashStarting == mode # "up" /\ Crash
FairSpec == Init /\ [][Next \/ CrashStarting \/ \E w \in Writer : WriteFails(w)]_vars /\ Fairness

(* Every call of WriteBlock returns: both loops of updateHashByHeight end   *)
(* and no writer waits for the lock for ever.                               *)
WriteBlockReturns == \A w \in Writer : pc[w] # "idle" ~> pc[w] = "idle"

(* HeaviestChain of what is in the databases. *)
Abstract == INSTANCE HeaviestChain
              WITH tree <- stored, top <- head,
                   weight <- [b \in Block |-> IF b \in stored THEN td[b] ELSE 0]
(* The stored tree and HEAD behave as the abstract heaviest-chain rule: a    *)
(* block enters the tree below a block that is there, and HEAD moves to it   *)
(* in that very step exactly when it is strictly heavier, with any number of *)
(* writers, crashes and restarts in between.                                 *)
RefinesHeaviestChain == Abstract!Spec
=============================================================================

---------------------------- MODULE ChainProofs ----------------------------
(*****************************************************************************)
(* Chain, for every set of blocks and every number of writers: its types;    *)
(* the fork choice, with the steps outside and under the lock, the theorems  *)
(* and the refinement; then the height-to-hash mapping, as long as the       *)
(* process lives, and what else holds until it dies for the first time.      *)
(*****************************************************************************)
EXTENDS ChainHistory, TLAPS

(* Every step of the node, whatever fails. *)
AnyStep == Next \/ Crash \/ \E w \in Writer : WriteFails(w)

(* An entry of the mapping stands at its block's height; the first loop of   *)
(* updateHashByHeight therefore stops below the bound on heights.            *)
EntriesInPlace == \A h \in Heights : canon[h] # NoBlock => Height[canon[h]] = h

(* The constants, as the proofs use them. *)
LEMMA BlockFacts ==
  /\ Genesis \in Block /\ NoBlock \notin Block /\ Parent[Genesis] = NoBlock
  /\ MaxHeight \in Nat /\ Height[Genesis] = 0 /\ 0 \in Heights
  /\ \A b \in Block : /\ Parent[b] \in Block \cup {NoBlock}
                      /\ Height[b] \in Nat /\ Height[b] \in Heights /\ Height[b] + 1 \in Heights
                      /\ Difficulty[b] \in Nat /\ Difficulty[b] > 0
  /\ NoWriter \notin Writer
BY BlockAssumption DEF Heights

(* Every step of the node keeps the types, and every entry in its place. *)
LEMMA TypeStep ==
  ASSUME TypeOK, EntriesInPlace, [AnyStep]_vars
  PROVE  TypeOK' /\ EntriesInPlace'
<1> USE BlockFacts DEF TypeOK, EntriesInPlace
<1>1. CASE StoreGenesisState
  BY Zenon, <1>1 DEF StoreGenesisState, index, locals
<1>2. CASE StoreGenesisHeader
  BY Zenon, <1>2 DEF StoreGenesisHeader, index, locals
<1>3. CASE ValidateGenesis
  BY Zenon, <1>3 DEF ValidateGenesis, index, locals, disk
<1>4. CASE NewBlockchain
  <2>1. CASE CanOpen
    <3>1. leaves' \subseteq Block /\ best' \in Block /\ curHeader' \in Block /\ mode' = "up"
      BY <1>4, <2>1 DEF NewBlockchain, CanOpen
    <3> QED
      BY Zenon, <1>4, <3>1 DEF NewBlockchain, locals, disk
  <2>2. CASE ~CanOpen
    BY Zenon, <1>4, <2>2 DEF NewBlockchain, index, locals, disk
  <2> QED
    BY Zenon, <2>1, <2>2
<1>5. ASSUME NEW w \in Writer, NEW b \in Block, CheckExists(w, b)
      PROVE  TypeOK' /\ EntriesInPlace'
  BY <1>5 DEF CheckExists, index, locals, disk
<1>6. ASSUME NEW w \in Writer, Reject(w)
      PROVE  TypeOK' /\ EntriesInPlace'
  BY Zenon, <1>6 DEF Reject, index, locals, disk
<1>7. ASSUME NEW w \in Writer, Enter(w)
      PROVE  TypeOK' /\ EntriesInPlace'
  <2> DEFINE b == blk[w]
             weight == [td EXCEPT ![b] = TotalDifficulty(b)]
  <2>1. b \in Block /\ Parent[b] \in Block /\ Height[b] + 1 \in Heights
    BY Zenon, <1>7 DEF Enter, Acceptable
  <2>2. weight \in [Block -> Nat]
    <3>1. TotalDifficulty(b) \in Nat
      BY <2>1 DEF TotalDifficulty
    <3> HIDE DEF b
    <3> QED
      BY Zenon, <2>1, <3>1
  <2>3. leaves' \subseteq Block /\ best' \in Block \cup {NoBlock}
    <3>1. AddRemoveLeaves(b, weight)
      BY Zenon, <1>7 DEF Enter
    <3> HIDE DEF b, weight
    <3> QED
      BY Zenon, <2>1, <3>1 DEF AddRemoveLeaves, findBestBlockIndex
  <2>4. isHead' \in BOOLEAN
    BY Zenon, <1>7 DEF Enter, IsBestBlockIndex
  <2>5. pc' \in [Writer -> {"idle", "lock", "delete", "overwrite", "put", "commit"}]
    BY Zenon, <1>7 DEF Enter
  <2> QED
    BY Zenon, <1>7, <2>1, <2>2, <2>3, <2>4, <2>5 DEF Enter
<1>8. ASSUME NEW w \in Writer, DeleteBlockHash(w)
      PROVE  TypeOK' /\ EntriesInPlace'
  <2>1. next + 1 \in Heights
    <3>1. canon[next] \in Block /\ Height[canon[next]] = next
      BY Zenon, <1>8 DEF DeleteBlockHash
    <3> QED
      BY Zenon, <3>1
  <2> QED
    BY Zenon, <1>8, <2>1 DEF DeleteBlockHash, index
<1>9. ASSUME NEW w \in Writer, DeleteDone(w)
      PROVE  TypeOK' /\ EntriesInPlace'
  BY Zenon, <1>9 DEF DeleteDone, index, locals, disk
<1>10. ASSUME NEW w \in Writer, PutBlockHash(w)
      PROVE  TypeOK' /\ EntriesInPlace'
  BY Zenon, <1>10 DEF PutBlockHash, index, locals, disk
<1>11. ASSUME NEW w \in Writer, PutBlockHashDone(w)
      PROVE  TypeOK' /\ EntriesInPlace'
  BY Zenon, <1>11 DEF PutBlockHashDone, index, locals, disk
<1>12. ASSUME NEW w \in Writer, UpdateHashFails(w)
      PROVE  TypeOK' /\ EntriesInPlace'
  BY Zenon, <1>12 DEF UpdateHashFails, Return, index, locals, disk
<1>13. ASSUME NEW w \in Writer, PutBlock(w)
      PROVE  TypeOK' /\ EntriesInPlace'
  <2>1. CASE isHead
    <3>1. Height[blk[w]] \in Heights /\ blk[w] \in Block
      BY Zenon
    <3>2. canon' \in [Heights -> Block \cup {NoBlock}] /\ EntriesInPlace'
      BY <1>13, <2>1, <3>1 DEF PutBlock
    <3> QED
      BY Zenon, <1>13, <2>1, <3>1, <3>2 DEF PutBlock, index, locals
  <2>2. CASE ~isHead
    BY Zenon, <1>13, <2>2 DEF PutBlock, index, locals
  <2> QED
    BY Zenon, <2>1, <2>2
<1>14. ASSUME NEW w \in Writer, CommitState(w)
      PROVE  TypeOK' /\ EntriesInPlace'
  BY Zenon, <1>14 DEF CommitState, Return, index, locals, disk
<1>15. ASSUME NEW w \in Writer, WriteFails(w)
      PROVE  TypeOK' /\ EntriesInPlace'
  BY Zenon, <1>15 DEF WriteFails, Return, index, locals, disk
<1>16. CASE Crash
  <2>1. TypeOK'
    <3>1. pc' \in [Writer -> {"idle"}] /\ blk' \in [Writer -> Block] /\ isHead' \in BOOLEAN
      BY Zenon, <1>16 DEF Crash
    <3> QED
      BY Zenon, <1>16, <3>1 DEF Crash, disk
  <2>2. EntriesInPlace'
    BY Zenon, <1>16 DEF Crash, disk
  <2> QED
    BY Zenon, <2>1, <2>2
<1>17. CASE UNCHANGED vars
  BY Zenon, <1>17 DEF vars, index, locals, disk
<1> QED
  BY Zenon, <1>1, <1>2, <1>3, <1>4, <1>5, <1>6, <1>7, <1>8, <1>9, <1>10, <1>11, <1>12,
     <1>13, <1>14, <1>15, <1>16, <1>17
  DEF AnyStep, Next, StartUp, WriteBlock

(* Types hold whatever the difficulties are, and with database errors as well *)
(* as with crashes.                                                           *)
THEOREM TypeCorrect == (CrashSpec \/ FaultSpec) => []TypeOK
<1>1. Init => TypeOK /\ EntriesInPlace
  BY ZenonT(90), BlockFacts DEF Init, TypeOK, EntriesInPlace
<1>2. TypeOK /\ EntriesInPlace /\ [AnyStep]_vars => (TypeOK /\ EntriesInPlace)'
  BY Zenon, TypeStep
<1>3. [Next \/ Crash]_vars => [AnyStep]_vars
  BY Zenon DEF AnyStep
<1>4. [Next \/ \E w \in Writer : WriteFails(w)]_vars => [AnyStep]_vars
  BY Zenon DEF AnyStep
<1> QED
  BY <1>1, <1>2, <1>3, <1>4, PTL DEF CrashSpec, FaultSpec
-----------------------------------------------------------------------------
(* The stored tree, whatever the difficulties are and whatever fails.        *)

(* b has its place in the tree: a stored parent, which it can be built upon. *)
Hangs(b) ==
  /\ Attached(b)
  /\ StateHash[Parent[b]] \in stateDB

(* So has the block of a writer that has passed the checks. *)
TreeInv ==
  /\ \A b \in stored \ {Genesis} : Hangs(b)
  /\ Genesis \in stored => td[Genesis] = Difficulty[Genesis]
  /\ \A w \in Writer : pc[w] \in Locked => Hangs(blk[w])

(* The genesis has no parent. *)
LEMMA HangsNotGenesis ==
  ASSUME TypeOK, NEW b, Parent[b] \in stored
  PROVE  b # Genesis
BY Zenon, BlockFacts DEF TypeOK

(* A block keeps its place as long as nothing is taken from the databases and  *)
(* the total difficulties around it stay as they are.                          *)
LEMMA HangsFrame ==
  ASSUME stored \subseteq stored', stateDB \subseteq stateDB', NEW b, Hangs(b),
         td'[b] = td[b], td'[Parent[b]] = td[Parent[b]]
  PROVE  Hangs(b)'
BY Zenon DEF Hangs, Attached

(* A step that changes no total difficulty, stores the block of a writer at    *)
(* most, and after which the writers that have passed the checks are among     *)
(* those that had, with the same blocks.                                       *)
LEMMA TreeFrame ==
  ASSUME TypeOK, TreeInv, stored \subseteq stored', stateDB \subseteq stateDB', td' = td,
         \A w \in Writer : pc'[w] \in Locked => pc[w] \in Locked /\ blk'[w] = blk[w],
         \A b \in stored' : b \in stored \/ \E w \in Writer : pc[w] \in Locked /\ blk[w] = b
  PROVE  TreeInv'
<1>1. \A b : Hangs(b) => Hangs(b)'
  BY Zenon, HangsFrame
<1>2. ASSUME NEW b \in stored' \ {Genesis} PROVE Hangs(b)'
  BY Zenon, <1>1 DEF TreeInv
<1>3. ASSUME Genesis \in stored' PROVE td'[Genesis] = Difficulty[Genesis]
  <2>1. ~Hangs(Genesis)
    BY Zenon, HangsNotGenesis DEF Hangs, Attached
  <2> QED
    BY Zenon, <1>3, <2>1 DEF TreeInv
<1>4. ASSUME NEW w \in Writer, pc'[w] \in Locked PROVE Hangs(blk[w])'
  <2> DEFINE b == blk[w]
  <2>1. Hangs(b) /\ blk'[w] = b
    BY Zenon, <1>4 DEF TreeInv
  <2> HIDE DEF b
  <2>2. Hangs(blk'[w]) /\ blk'[w] = b
    BY Zenon, <2>1
  <2> QED
    BY Zenon, <1>1, <2>2
<1> QED
  BY Zenon, <1>2, <1>3, <1>4 DEF TreeInv, Hangs, Attached

(* Every step of the node keeps the tree. *)
LEMMA TreeStep ==
  ASSUME TypeOK, TypeOK', TreeInv, [AnyStep]_vars
  PROVE  TreeInv'
<1>1. CASE StoreGenesisState
  BY Zenon, <1>1, TreeFrame DEF StoreGenesisState
<1>2. CASE StoreGenesisHeader
  <2>1. ASSUME NEW b \in Block, Hangs(b) PROVE Hangs(b)'
    <3>1. b # Genesis
      BY Zenon, <2>1, HangsNotGenesis DEF Hangs, Attached
    <3>2. td'[b] = td[b]
      BY Zenon, <1>2, <3>1 DEF StoreGenesisHeader, TypeOK
    <3>3. td'[Parent[b]] = td[Parent[b]]
      BY Zenon, <1>2, <2>1 DEF StoreGenesisHeader, TypeOK, TreeInv, Hangs, Attached
    <3> QED
      BY Zenon, <1>2, <2>1, <3>2, <3>3, HangsFrame DEF StoreGenesisHeader
  <2>2. td'[Genesis] = Difficulty[Genesis]
    BY Zenon, <1>2, BlockFacts DEF StoreGenesisHeader, TypeOK
  <2>3. stored' = stored \cup {Genesis} /\ pc' = pc /\ blk' = blk
    BY Zenon, <1>2 DEF StoreGenesisHeader
  <2> QED
    BY Zenon, <2>1, <2>2, <2>3 DEF TreeInv, TypeOK
<1>3. CASE ValidateGenesis
  BY Zenon, <1>3, TreeFrame DEF ValidateGenesis, disk
<1>4. CASE NewBlockchain
  BY Zenon, <1>4, TreeFrame DEF NewBlockchain, disk
<1>5. ASSUME NEW w \in Writer, NEW b \in Block, CheckExists(w, b) PROVE TreeInv'
  <2>1. \A v \in Writer : pc'[v] \in Locked => pc[v] \in Locked /\ blk'[v] = blk[v]
    BY <1>5 DEF CheckExists, Locked, TypeOK
  <2> QED
    BY Zenon, <1>5, <2>1, TreeFrame DEF CheckExists, disk
<1>6. ASSUME NEW w \in Writer, Reject(w) PROVE TreeInv'
  <2>1. \A v \in Writer : pc'[v] \in Locked => pc[v] \in Locked /\ blk'[v] = blk[v]
    BY <1>6 DEF Reject, Locked, TypeOK
  <2> QED
    BY Zenon, <1>6, <2>1, TreeFrame DEF Reject, disk
<1>7. ASSUME NEW w \in Writer, Enter(w) PROVE TreeInv'
  <2> DEFINE b == blk[w]
  <2>1. /\ b \in Block /\ b # Genesis /\ Parent[b] \in stored /\ Parent[b] # b
        /\ Height[b] = Height[Parent[b]] + 1 /\ StateHash[Parent[b]] \in stateDB
    <3>1. /\ b \in Block /\ Parent[b] \in stored
          /\ Height[b] = Height[Parent[b]] + 1 /\ StateHash[Parent[b]] \in stateDB
      BY Zenon, <1>7 DEF Enter, Acceptable, TypeOK
    <3>2. Height[b] \in Nat
      BY Zenon, <3>1, BlockFacts
    <3>3. Parent[b] # b
      BY <3>1, <3>2
    <3> QED
      BY Zenon, <3>1, <3>3, HangsNotGenesis
  <2>2. /\ td' = [td EXCEPT ![b] = td[Parent[b]] + Difficulty[b]]
        /\ stored' = stored /\ stateDB' = stateDB /\ blk' = blk
    BY Zenon, <1>7 DEF Enter, TotalDifficulty
  <2>3. td'[b] = td[Parent[b]] + Difficulty[b] /\ \A c \in Block : c # b => td'[c] = td[c]
    <3> HIDE DEF b
    <3>1. td'[b] = td[Parent[b]] + Difficulty[b]
      BY Zenon, <2>1, <2>2 DEF TypeOK
    <3> QED
      BY Zenon, <2>1, <2>2, <3>1 DEF TypeOK
  <2>4. \A v \in Writer : v # w => pc'[v] = pc[v]
    BY Zenon, <1>7 DEF Enter, TypeOK
  <2> HIDE DEF b
  <2>5. ASSUME NEW c \in Block, Hangs(c) PROVE Hangs(c)'
    <3>1. td'[c] = td[c]
      BY Zenon, <2>3, <2>5 DEF Hangs, Attached
    <3>2. td'[Parent[c]] = td[Parent[c]]
      BY Zenon, <2>1, <2>3, <2>5 DEF Hangs, Attached, TreeInv, TypeOK
    <3> QED
      BY Zenon, <2>2, <2>5, <3>1, <3>2, HangsFrame
  <2>6. Hangs(b)'
    <3>1. td'[Parent[b]] = td[Parent[b]]
      BY Zenon, <2>1, <2>3 DEF TypeOK
    <3>2. b' = b
      BY Zenon, <2>2 DEF b
    <3> QED
      BY Zenon, <2>1, <2>2, <2>3, <3>1, <3>2 DEF Hangs, Attached
  <2>7. td'[Genesis] = td[Genesis]
    BY Zenon, <2>1, <2>3, BlockFacts
  <2> QED
    BY Zenon, <2>2, <2>4, <2>5, <2>6, <2>7 DEF TreeInv, TypeOK, b
<1>8. ASSUME NEW w \in Writer, DeleteBlockHash(w) PROVE TreeInv'
  BY Zenon, <1>8, TreeFrame DEF DeleteBlockHash
<1>9. ASSUME NEW w \in Writer, DeleteDone(w) PROVE TreeInv'
  <2>1. \A v \in Writer : pc'[v] \in Locked => pc[v] \in Locked /\ blk'[v] = blk[v]
    BY <1>9 DEF DeleteDone, Locked, TypeOK
  <2> QED
    BY Zenon, <1>9, <2>1, TreeFrame DEF DeleteDone, disk
<1>10. ASSUME NEW w \in Writer, PutBlockHash(w) PROVE TreeInv'
  BY Zenon, <1>10, TreeFrame DEF PutBlockHash
<1>11. ASSUME NEW w \in Writer, PutBlockHashDone(w) PROVE TreeInv'
  <2>1. \A v \in Writer : pc'[v] \in Locked => pc[v] \in Locked /\ blk'[v] = blk[v]
    BY <1>11 DEF PutBlockHashDone, Locked, TypeOK
  <2> QED
    BY Zenon, <1>11, <2>1, TreeFrame DEF PutBlockHashDone, disk
<1>12. ASSUME NEW w \in Writer, UpdateHashFails(w) PROVE TreeInv'
  <2>1. \A v \in Writer : pc'[v] \in Locked => pc[v] \in Locked /\ blk'[v] = blk[v]
    BY <1>12 DEF UpdateHashFails, Return, Locked, TypeOK
  <2> QED
    BY Zenon, <1>12, <2>1, TreeFrame DEF UpdateHashFails, disk
<1>13. ASSUME NEW w \in Writer, PutBlock(w) PROVE TreeInv'
  <2>1. \A v \in Writer : pc'[v] \in Locked => pc[v] \in Locked /\ blk'[v] = blk[v]
    BY <1>13 DEF PutBlock, Locked, TypeOK
  <2>2. pc[w] \in Locked /\ stored' = stored \cup {blk[w]}
    BY Zenon, <1>13 DEF PutBlock, Locked
  <2> QED
    BY Zenon, <1>13, <2>1, <2>2, TreeFrame DEF PutBlock
<1>14. ASSUME NEW w \in Writer, CommitState(w) PROVE TreeInv'
  <2>1. \A v \in Writer : pc'[v] \in Locked => pc[v] \in Locked /\ blk'[v] = blk[v]
    BY <1>14 DEF CommitState, Return, Locked, TypeOK
  <2> QED
    BY Zenon, <1>14, <2>1, TreeFrame DEF CommitState
<1>15. ASSUME NEW w \in Writer, WriteFails(w) PROVE TreeInv'
  <2>1. \A v \in Writer : pc'[v] \in Locked => pc[v] \in Locked /\ blk'[v] = blk[v]
    BY <1>15 DEF WriteFails, Return, Locked, TypeOK
  <2> QED
    BY Zenon, <1>15, <2>1, TreeFrame DEF WriteFails, disk
<1>16. CASE Crash
  <2>1. \A v \in Writer : pc'[v] \notin Locked
    BY <1>16 DEF Crash, Locked
  <2> QED
    BY Zenon, <1>16, <2>1, TreeFrame DEF Crash, disk
<1>17. CASE UNCHANGED vars
  BY Zenon, <1>17, TreeFrame DEF vars, disk
<1> QED
  BY Zenon, <1>1, <1>2, <1>3, <1>4, <1>5, <1>6, <1>7, <1>8, <1>9, <1>10, <1>11, <1>12,
     <1>13, <1>14, <1>15, <1>16, <1>17
  DEF AnyStep, Next, StartUp, WriteBlock

(* For every tree of blocks, any difficulties and any number of writers, with  *)
(* crashes as well as with failing database writes: every block that WriteBlock *)
(* stores hangs on a stored parent with the total difficulty of its chain, and  *)
(* the account state of that parent is in the state database.                   *)
THEOREM StoreIsTree == (CrashSpec \/ FaultSpec) => []StoredTree
<1>1. Init => TypeOK /\ EntriesInPlace
  BY ZenonT(90), BlockFacts DEF Init, TypeOK, EntriesInPlace
<1>2. Init => TreeInv
  BY DEF Init, TreeInv, Locked
<1>3. TypeOK /\ EntriesInPlace /\ TreeInv /\ [AnyStep]_vars
        => (TypeOK /\ EntriesInPlace /\ TreeInv)'
  BY Zenon, TypeStep, TreeStep
<1>4. TreeInv => StoredTree
  BY Zenon DEF TreeInv, StoredTree, Hangs, Attached
<1>5. [Next \/ Crash]_vars => [AnyStep]_vars
  BY Zenon DEF AnyStep
<1>6. [Next \/ \E w \in Writer : WriteFails(w)]_vars => [AnyStep]_vars
  BY Zenon DEF AnyStep
<1> QED
  BY <1>1, <1>2, <1>3, <1>4, <1>5, <1>6, PTL DEF CrashSpec, FaultSpec
-----------------------------------------------------------------------------
(* The height-to-hash mapping, as long as the process lives.                *)
-----------------------------------------------------------------------------
(* With a uniform difficulty, a block that hangs on the stored tree compares *)
(* with every stored block by weight as it does by height.                   *)
LEMMA WeightExtends ==
  ASSUME UniformDifficulty, TypeOK, StoreInv, WeightIsHeight,
         NEW b \in Block, b # Genesis, Attached(b), NEW c \in stored
  PROVE  /\ td[b] <= td[c] <=> Height[b] <= Height[c]
         /\ td[c] <= td[b] <=> Height[c] <= Height[b]
<1> DEFINE p == Parent[b]
<1>1. /\ p \in stored /\ p \in Block /\ c \in Block
      /\ Height[b] = Height[p] + 1 /\ td[b] = td[p] + Difficulty[b]
      /\ Height[p] \in Nat /\ td[p] \in Nat /\ Difficulty[b] \in Nat /\ Difficulty[b] > 0
      /\ Height[c] \in Nat /\ td[c] \in Nat
  BY Zenon, BlockFacts DEF Attached, TypeOK
<1>2. CASE c = Genesis
  <2>1. td[c] <= td[p]
    BY <1>1, <1>2, BlockFacts DEF WeightIsHeight
  <2> QED
    BY <1>1, <1>2, <2>1, BlockFacts
<1>3. CASE c # Genesis
  <2> DEFINE q == Parent[c]
  <2>1. /\ q \in stored /\ q \in Block
        /\ Height[c] = Height[q] + 1 /\ td[c] = td[q] + Difficulty[c]
        /\ Height[q] \in Nat /\ td[q] \in Nat
    BY Zenon, <1>1, <1>3, BlockFacts DEF StoreInv, Attached, TypeOK
  <2>2. Difficulty[c] = Difficulty[b]
    BY Zenon, <1>1, <1>3 DEF UniformDifficulty
  <2>3. /\ td[p] <= td[q] <=> Height[p] <= Height[q]
        /\ td[q] <= td[p] <=> Height[q] <= Height[p]
    BY Zenon, <1>1, <2>1 DEF WeightIsHeight
  <2> HIDE DEF p, q
  <2> QED
    BY <1>1, <2>1, <2>2, <2>3
<1> QED
  BY Zenon, <1>2, <1>3

(* A step that leaves the databases alone keeps what is said of them alone. *)
LEMMA DiskKept ==
  ASSUME ForkInv, UNCHANGED disk
  PROVE  WeightIsHeight' /\ HeadHeaviest' /\ ReadersFindBlocks'
BY Zenon DEF ForkInv, disk, WeightIsHeight, HeadHeaviest, ReadersFindBlocks

(* NewBlockchain and a crash. *)
LEMMA ForkStart ==
  ASSUME ForkInv, StartUp \/ Crash, TypeOK'
  PROVE  ForkInv'
<1> USE BlockFacts DEF ForkInv
<1>1. CASE StoreGenesisState
  <2> USE <1>1 DEF StoreGenesisState, index, locals
  <2>1. LockInv'
    BY Zenon DEF LockInv
  <2>2. StoreInv'
    BY Zenon DEF StoreInv, Attached
  <2>3. WeightIsHeight' /\ HeadHeaviest' /\ ReadersFindBlocks'
    BY Zenon DEF WeightIsHeight, HeadHeaviest, ReadersFindBlocks
  <2>4. PendingInv' /\ LeafInv'
    BY Zenon DEF PendingInv, LeafInv, Attached, LockInv
  <2> QED
    BY Zenon, <2>1, <2>2, <2>3, <2>4
<1>2. CASE StoreGenesisHeader
  <2> USE <1>2 DEF StoreGenesisHeader, index, locals
  <2>0. stored = {} /\ lock = NoWriter /\ stored' = {Genesis} /\ head' = Genesis
    BY Zenon DEF StoreInv, LockInv
  <2>1. LockInv'
    BY Zenon DEF LockInv
  <2>2. StoreInv'
    BY Zenon, <2>0 DEF StoreInv, TypeOK
  <2>3. WeightIsHeight' /\ HeadHeaviest'
    BY <2>0 DEF WeightIsHeight, HeadHeaviest, TypeOK
  <2>4. ReadersFindBlocks'
    BY <2>0 DEF ReadersFindBlocks, TypeOK, StoreInv, Heights
  <2>5. PendingInv' /\ LeafInv'
    BY Zenon, <2>0 DEF PendingInv, LeafInv
  <2> QED
    BY Zenon, <2>1, <2>2, <2>3, <2>4, <2>5
<1>3. CASE ValidateGenesis
  <2> USE <1>3 DEF ValidateGenesis, index, locals
  <2>1. LockInv'
    BY Zenon DEF LockInv
  <2>2. StoreInv'
    BY Zenon DEF StoreInv, Attached, disk
  <2>3. PendingInv' /\ LeafInv'
    BY Zenon DEF PendingInv, LeafInv, LockInv
  <2> QED
    BY Zenon, <2>1, <2>2, <2>3, DiskKept
<1>4. CASE NewBlockchain
  <2>1. LockInv'
    BY Zenon, <1>4 DEF NewBlockchain, LockInv
  <2>2. StoreInv'
    BY Zenon, <1>4 DEF NewBlockchain, StoreInv, Attached, disk
  <2>3. lock = NoWriter /\ lock' = NoWriter
    BY Zenon, <1>4 DEF NewBlockchain, LockInv
  <2>4. PendingInv'
    BY Zenon, <2>3 DEF PendingInv
  <2>5. LeafInv'
    BY Zenon, <1>4, <2>3 DEF NewBlockchain, LeafInv, CanOpen, disk
  <2>6. UNCHANGED disk
    BY Zenon, <1>4 DEF NewBlockchain
  <2> QED
    BY Zenon, <2>1, <2>2, <2>4, <2>5, <2>6, DiskKept
<1>5. CASE Crash
  <2> USE <1>5 DEF Crash
  <2>1. LockInv'
    BY Zenon DEF LockInv, Locked
  <2>2. StoreInv'
    BY Zenon DEF StoreInv, Attached, disk
  <2>3. PendingInv' /\ LeafInv'
    BY Zenon DEF PendingInv, LeafInv
  <2> QED
    BY Zenon, <2>1, <2>2, <2>3, DiskKept
<1> QED
  BY Zenon, <1>1, <1>2, <1>3, <1>4, <1>5 DEF StartUp

(* Steps of WriteBlock outside the lock. *)
LEMMA ForkOutside ==
  ASSUME ForkInv, NEW w \in Writer, TypeOK',
         Reject(w) \/ \E b \in Block : CheckExists(w, b)
  PROVE  ForkInv'
<1> USE BlockFacts DEF ForkInv
<1>1. UNCHANGED <<disk, index, lock, locals, mode>>
  BY Zenon DEF Reject, CheckExists
<1>2. /\ lock # w /\ pc'[w] \in {"idle", "lock"} /\ mode = "up"
      /\ \A v \in Writer \ {w} : pc'[v] = pc[v] /\ blk'[v] = blk[v]
  <2>1. CASE Reject(w)
    BY Zenon, <2>1 DEF Reject, LockInv, Locked, TypeOK
  <2>2. CASE \E b \in Block : CheckExists(w, b)
    BY Zenon, <2>2 DEF CheckExists, LockInv, Locked, TypeOK
  <2> QED
    BY Zenon, <2>1, <2>2
<1>3. LockInv'
  BY Zenon, <1>1, <1>2 DEF LockInv, Locked, TypeOK
<1>4. StoreInv'
  BY Zenon, <1>1 DEF StoreInv, Attached, disk
<1>5. ASSUME NEW v \in Writer, lock' = v
      PROVE  v # w /\ lock = v /\ pc'[v] = pc[v] /\ blk'[v] = blk[v]
  BY ONLY <1>1, <1>2, <1>5, Zenon
<1>6. PendingInv'
  <2>1. PendingInv /\ UNCHANGED <<stored, td, head, isHead, next, walk>>
    BY Zenon, <1>1 DEF disk, locals
  <2>2. ASSUME NEW v \in Writer, lock' = v PROVE Attached(blk[v])'
    BY ONLY <1>5, <2>1, <2>2, Zenon DEF PendingInv, Attached
  <2> QED
    BY ONLY <1>5, <2>1, <2>2, Zenon DEF PendingInv
<1>7. LeafInv'
  BY Zenon, <1>1, <1>5 DEF LeafInv, disk, index, locals
<1> QED
  BY Zenon, <1>1, <1>3, <1>4, <1>6, <1>7, DiskKept

(* A step of the writer that holds the lock, apart from its locals and pc. *)
LEMMA ForkEnter ==
  ASSUME UniformDifficulty, ForkInv, NEW w \in Writer, TypeOK', Enter(w)
  PROVE  ForkInv'
<1> DEFINE b == blk[w]
           p == Parent[b]
           weight == [td EXCEPT ![b] = TotalDifficulty(b)]
<1> USE DEF ForkInv
<1>1. /\ b \in Block /\ p \in stored /\ p \in Block /\ b # Genesis /\ b # p
      /\ Height[b] = Height[p] + 1 /\ Height[b] \in Nat /\ Height[p] \in Nat
      /\ lock = NoWriter /\ lock' = w /\ pc[w] = "lock" /\ mode = "up" /\ mode' = "up"
      /\ head \in stored /\ head \in Block /\ stored # {}
  <2>1. b \in Block /\ lock = NoWriter /\ lock' = w /\ pc[w] = "lock" /\ mode' = mode
    BY Zenon DEF Enter, TypeOK
  <2>2. mode = "up"
    BY Zenon, <2>1 DEF LockInv
  <2>3. p \in stored /\ Height[b] = Height[p] + 1
    BY Zenon DEF Enter, Acceptable
  <2>4. p \in Block /\ head \in stored /\ head \in Block /\ stored # {}
    BY Zenon, <2>3 DEF TypeOK, StoreInv, HeadHeaviest
  <2> HIDE DEF ForkInv
  <2>5. b # Genesis
    BY Zenon, <2>4, BlockFacts
  <2>6. Height[b] \in Nat /\ Height[p] \in Nat
    BY Zenon, <2>1, <2>4, BlockFacts
  <2> HIDE DEF b, p
  <2>7. b # p
    BY <2>3, <2>6
  <2> QED
    BY Zenon, <2>1, <2>2, <2>3, <2>4, <2>5, <2>6, <2>7
<1>2. /\ td' = weight /\ weight[b] = td[p] + Difficulty[b]
      /\ td[p] \in Nat /\ Difficulty[b] \in Nat /\ Difficulty[b] > 0 /\ weight[b] \in Nat
      /\ stored' = stored /\ canon' = canon /\ head' = head /\ blk' = blk
  BY Zenon, <1>1, BlockFacts DEF Enter, TypeOK, TotalDifficulty
<1>3. \A c \in stored : td'[c] = td[c] /\ c \in Block /\ td[c] \in Nat
  <2>1. \A c \in stored : c \in Block /\ td[c] \in Nat
    BY Zenon DEF TypeOK
  <2>2. \A c \in Block \ {b} : weight[c] = td[c]
    BY Zenon DEF TypeOK
  <2>3. ASSUME b \in stored PROVE weight[b] = td[b]
    BY ONLY ForkInv, <1>1, <1>2, <2>3, Zenon DEF ForkInv, StoreInv, Attached, p
  <2> HIDE DEF weight, b, p
  <2> QED
    BY ONLY <1>2, <2>1, <2>2, <2>3, Zenon
<1>4. /\ pc' = [pc EXCEPT ![w] = IF isHead' THEN "delete" ELSE "put"]
      /\ next' = Height[b] + 1 /\ walk' = p
      /\ isHead' = IsBestBlockIndex(weight[b])
      /\ AddRemoveLeaves(b, weight)
  BY Zenon DEF Enter
<1> HIDE DEF weight, b, p
<1>5. LockInv'
  <2>1. pc'[w] \in {"delete", "put"} /\ \A v \in Writer \ {w} : pc'[v] = pc[v]
    BY Zenon, <1>4 DEF TypeOK
  <2>2. pc'[w] \in Locked
    BY Zenon, <2>1 DEF Locked
  <2> QED
    BY Zenon, <1>1, <2>1, <2>2, BlockFacts DEF LockInv
<1>6. /\ td'[b] = td'[p] + Difficulty[b]
      /\ \A c \in stored \ {Genesis} : td'[c] = td'[Parent[c]] + Difficulty[c]
  BY Zenon, <1>1, <1>2, <1>3 DEF StoreInv, Attached
<1>7. StoreInv'
  BY Zenon, <1>1, <1>2, <1>3, <1>6, BlockFacts DEF StoreInv, Attached
<1>8. WeightIsHeight' /\ HeadHeaviest' /\ ReadersFindBlocks'
  BY Zenon, <1>1, <1>2, <1>3 DEF WeightIsHeight, HeadHeaviest, ReadersFindBlocks
<1>9. best = head /\ head \in leaves /\ leaves \subseteq stored
  BY Zenon, <1>1 DEF LeafInv
<1>10. isHead' <=> weight[b] > td[head]
  <2>1. isHead' <=> \A l \in leaves : weight[b] > td[l]
    BY Zenon, <1>4 DEF IsBestBlockIndex
  <2>2. \A l \in leaves : td[l] <= td[head] /\ td[l] \in Nat
    BY Zenon, <1>3, <1>9 DEF HeadHeaviest
  <2> QED
    BY <1>2, <1>9, <2>1, <2>2
<1>11. td'[b] > td'[head'] <=> weight[b] > td[head]
  BY Zenon, <1>1, <1>2, <1>3
<1>12. isHead' => Height[b] + 1 > Height[head]
  <2>1. ASSUME weight[b] > td[head] PROVE Height[p] >= Height[head]
    <3>1. CASE head = Genesis
      BY <1>1, <3>1, BlockFacts
    <3>2. CASE head # Genesis
      <4>1. Attached(head) /\ Difficulty[head] = Difficulty[b]
        BY Zenon, <1>1, <3>2 DEF StoreInv, UniformDifficulty
      <4>2. td[Parent[head]] < td[p] /\ Parent[head] \in stored /\ Height[head] = Height[Parent[head]] + 1
        BY <1>2, <1>3, <2>1, <4>1 DEF Attached
      <4>3. Height[Parent[head]] < Height[p]
        BY <1>1, <1>3, <4>2, BlockFacts DEF WeightIsHeight
      <4> QED
        BY <1>1, <1>3, <4>2, <4>3, BlockFacts
    <3> QED
      BY Zenon, <3>1, <3>2
  <2> QED
    BY <1>1, <1>10, <2>1, BlockFacts
<1>13. PendingInv'
  <2>1. ASSUME NEW v \in Writer, lock' = v PROVE v = w /\ blk'[v] = b
    BY Zenon, <1>1, <1>2, <2>1 DEF b
  <2>2. pc'[w] = IF isHead' THEN "delete" ELSE "put"
    BY Zenon, <1>4 DEF TypeOK
  <2>3. Attached(blk[w])'
    BY Zenon, <1>1, <1>2, <1>6 DEF Attached, b, p
  <2>4. next' > Height[head'] \/ ~isHead'
    BY Zenon, <1>1, <1>2, <1>4, <1>12
  <2> QED
    <3>1. isHead' <=> td'[blk'[w]] > td'[head']
      BY ONLY <1>1, <1>10, <1>11, <2>1, Zenon
    <3>2. blk'[w] # Genesis /\ blk'[w] = blk[w]
      BY ONLY <1>1, <1>2, <2>1, Zenon
    <3>3. walk' \in stored'
      BY ONLY <1>1, <1>2, <1>4, Zenon
    <3>4. pc'[w] # "commit" /\ pc'[w] # "overwrite" /\ (pc'[w] = "delete" => isHead')
      BY ONLY <2>2, Zenon
    <3> QED
      BY ONLY <2>1, <2>3, <2>4, <3>1, <3>2, <3>3, <3>4, Zenon DEF PendingInv
<1>14. LeafInv'
  <2>1. leaves' = (leaves \cup {b}) \ {p}
    BY Zenon, <1>4 DEF AddRemoveLeaves, p
  <2>2. td[best] = td[head] /\ best # NoBlock
    BY Zenon, <1>1, <1>9, BlockFacts
  <2>3. CASE isHead'
    <3>1. best' = b
      BY Zenon, <1>1, <1>4, <1>10, <2>2, <2>3 DEF AddRemoveLeaves, p
    <3> QED
      BY Zenon, <1>1, <1>2, <1>4, <1>9, <2>1, <2>3, <3>1, BlockFacts DEF LeafInv, TypeOK, b
  <2>4. CASE ~isHead'
    <3>1. p # head
      BY <1>2, <1>3, <1>10, <2>4
    <3>2. ~(td[best] < weight[b])
      BY Zenon, <1>2, <1>3, <1>1, <1>10, <2>2, <2>4
    <3>3. best' = head
      BY Zenon, <1>1, <1>4, <1>9, <2>2, <3>1, <3>2 DEF AddRemoveLeaves, p
    <3> QED
      BY Zenon, <1>1, <1>2, <1>4, <1>9, <2>1, <2>4, <3>1, <3>3, BlockFacts DEF LeafInv, TypeOK, b
  <2> QED
    BY Zenon, <2>3, <2>4
<1> QED
  BY Zenon, <1>5, <1>7, <1>8, <1>13, <1>14

(* The writer that is past the lock holds it, and the chain is open. *)
LEMMA Holder ==
  ASSUME ForkInv, NEW w \in Writer, pc[w] \in Locked
  PROVE  /\ lock = w /\ mode = "up"
         /\ \A v \in Writer : lock = v <=> v = w
         /\ \A v \in Writer \ {w} : pc[v] \in {"idle", "lock"}
         /\ blk[w] \in Block /\ blk[w] # Genesis /\ Attached(blk[w])
         /\ stored # {} /\ head \in stored /\ head \in Block
BY BlockFacts DEF ForkInv, LockInv, Locked, PendingInv, HeadHeaviest, Attached, TypeOK

(* When the holder of the lock goes on, the lock invariant holds again. *)
LEMMA LockKept ==
  ASSUME ForkInv, NEW w \in Writer, pc[w] \in Locked, UNCHANGED mode,
         NEW q, pc' = [pc EXCEPT ![w] = q],
         \/ q \in Locked /\ UNCHANGED lock
         \/ q = "idle" /\ lock' = NoWriter
  PROVE  LockInv'
<1>1. pc \in [Writer -> {"idle", "lock", "delete", "overwrite", "put", "commit"}]
  BY Zenon DEF ForkInv, TypeOK
<1> QED
  BY Zenon, <1>1, Holder, BlockFacts DEF LockInv, Locked


(* The deletion of mappings above the new head. *)
LEMMA ForkDelete ==
  ASSUME ForkInv, NEW w \in Writer, TypeOK', DeleteBlockHash(w) \/ DeleteDone(w)
  PROVE  ForkInv'
<1>0. pc[w] = "delete" /\ pc[w] \in Locked
  BY Zenon DEF DeleteBlockHash, DeleteDone, Locked
<1>h. next > Height[head] /\ isHead
  BY Zenon, <1>0, Holder DEF PendingInv, ForkInv
<1>n. next \in Heights
  BY Zenon DEF ForkInv, TypeOK
<1>i. next \in Nat
  BY <1>n, BlockFacts DEF Heights
<1>j. Height[head] \in Nat
  BY Zenon, <1>0, Holder, BlockFacts
<1>1. CASE DeleteBlockHash(w)
  <2> USE <1>1 DEF DeleteBlockHash, index, ForkInv
  <2>1. LockInv'
    BY Zenon DEF LockInv
  <2>2. next # 0 /\ Height[head] \in Nat /\ next \in Nat /\ next \in Heights
    BY ONLY <1>h, <1>n, <1>i, <1>j, SMT
  <2>3. StoreInv'
    BY Zenon, <2>2, BlockFacts DEF StoreInv, Attached, TypeOK
  <2>4. WeightIsHeight' /\ HeadHeaviest'
    BY Zenon DEF WeightIsHeight, HeadHeaviest
  <2>5. ReadersFindBlocks'
    BY <2>2, <1>h DEF ReadersFindBlocks, TypeOK
  <2>6. next' > Height[head']
    BY <2>2, <1>h
  <2>7. PendingInv'
    BY Zenon, <1>0, <2>6, Holder DEF PendingInv, Attached
  <2>8. LeafInv'
    BY Zenon DEF LeafInv
  <2> QED
    BY Zenon, <2>1, <2>3, <2>4, <2>5, <2>7, <2>8
<1>2. CASE DeleteDone(w)
  <2> USE <1>2 DEF DeleteDone
  <2>1. LockInv'
    BY Zenon, <1>0, LockKept, "overwrite" \in Locked DEF Locked
  <2>2. StoreInv'
    BY Zenon DEF StoreInv, Attached, disk, ForkInv
  <2>3. pc'[w] = "overwrite"
    BY Zenon DEF ForkInv, TypeOK
  <2>4. PendingInv'
    BY Zenon, <1>0, <2>3, Holder DEF PendingInv, Attached, disk, locals, ForkInv
  <2>5. LeafInv'
    BY Zenon, <1>0, <2>3, Holder DEF LeafInv, disk, index, locals, ForkInv
  <2> QED
    BY Zenon, <2>1, <2>2, <2>4, <2>5, DiskKept DEF ForkInv
<1> QED
  BY Zenon, <1>1, <1>2

(* The second loop of updateHashByHeight never finds a height without a       *)
(* mapping: the ancestors of the new head are no higher than the old head.    *)
LEMMA WalkBelowHead ==
  ASSUME ForkInv, NEW w \in Writer, pc[w] = "overwrite", walk # NoBlock
  PROVE  /\ walk \in stored /\ walk \in Block
         /\ Height[walk] \in Heights /\ Height[walk] <= Height[head]
         /\ canon[Height[walk]] # NoBlock
         /\ Height[walk] = 0 => walk = Genesis
         /\ walk = Genesis \/ Parent[walk] \in stored
<1>1. lock = w /\ head \in stored /\ stored # {}
  BY Zenon, Holder DEF Locked
<1>2. walk \in stored /\ walk \in Block /\ head \in Block
  BY Zenon, <1>1 DEF ForkInv, PendingInv, TypeOK
<1>3. td[walk] <= td[head]
  BY Zenon, <1>2 DEF ForkInv, HeadHeaviest
<1>4. Height[walk] <= Height[head] /\ Height[walk] \in Heights
  BY Zenon, <1>1, <1>2, <1>3, BlockFacts DEF ForkInv, WeightIsHeight
<1>5. canon[Height[walk]] # NoBlock
  BY Zenon, <1>1, <1>4 DEF ForkInv, ReadersFindBlocks
<1>6. CASE walk = Genesis
  BY Zenon, <1>2, <1>4, <1>5, <1>6
<1>7. CASE walk # Genesis
  <2>1. Attached(walk)
    BY Zenon, <1>2, <1>7 DEF ForkInv, StoreInv
  <2>2. Parent[walk] \in stored /\ Height[walk] # 0
    BY <2>1, <1>2, BlockFacts DEF Attached, ForkInv, TypeOK
  <2> QED
    BY Zenon, <1>2, <1>4, <1>5, <2>2
<1> QED
  BY Zenon, <1>6, <1>7

(* The rewriting of mappings below the new head. *)
LEMMA ForkOverwrite ==
  ASSUME ForkInv, NEW w \in Writer, TypeOK',
         PutBlockHash(w) \/ PutBlockHashDone(w) \/ UpdateHashFails(w)
  PROVE  ForkInv'
<1>0. pc[w] = "overwrite" /\ pc[w] \in Locked
  BY Zenon DEF PutBlockHash, PutBlockHashDone, UpdateHashFails, Locked
<1>h. isHead
  BY Zenon, <1>0, Holder DEF PendingInv, ForkInv
<1>1. CASE PutBlockHash(w)
  <2> USE <1>1 DEF PutBlockHash, index
  <2>0. walk # NoBlock
    <3>1. stored \subseteq Block
      BY ONLY ForkInv, SMT DEF ForkInv, TypeOK
    <3> QED
      BY Zenon, <3>1, BlockFacts
  <2>1. LockInv'
    BY Zenon DEF LockInv, ForkInv
  <2>2. Height[walk] # 0
    BY Zenon, <2>0, <1>0, WalkBelowHead, Holder DEF ForkInv, StoreInv
  <2>3. StoreInv'
    <3>1. canon'[0] = canon[0]
      BY Zenon, <2>2, BlockFacts DEF ForkInv, TypeOK
    <3> QED
      BY Zenon, <3>1 DEF StoreInv, Attached, ForkInv
  <2>4. WeightIsHeight' /\ HeadHeaviest'
    BY Zenon DEF WeightIsHeight, HeadHeaviest, ForkInv
  <2>5. ReadersFindBlocks'
    <3>1. /\ canon'[Height[walk]] = walk
          /\ \A h \in Heights : h # Height[walk] => canon'[h] = canon[h]
      BY Zenon, <2>0, <1>0, WalkBelowHead DEF ForkInv, TypeOK
    <3> QED
      <4>1. stored' = stored /\ head' = head /\ walk \in stored
        BY Zenon, <2>0, <1>0, WalkBelowHead
      <4>2. \A h \in Heights : canon'[h] = canon[h] \/ (h = Height[walk] /\ canon'[h] = walk)
        BY ONLY <3>1, Zenon
      <4>3. walk # NoBlock /\ ReadersFindBlocks
        BY Zenon, <2>0 DEF ForkInv
      <4> QED
        BY ONLY <4>1, <4>2, <4>3, Zenon DEF ReadersFindBlocks
  <2>6. walk' # NoBlock => walk' \in stored'
    BY Zenon, <2>0, <1>0, WalkBelowHead, BlockFacts
  <2>7. PendingInv'
    BY Zenon, <1>0, <2>6, Holder DEF PendingInv, Attached, ForkInv
  <2>8. LeafInv'
    BY Zenon DEF LeafInv, ForkInv
  <2> QED
    BY Zenon, <2>1, <2>3, <2>4, <2>5, <2>7, <2>8 DEF ForkInv
<1>2. CASE PutBlockHashDone(w)
  <2> USE <1>2 DEF PutBlockHashDone
  <2>1. LockInv'
    BY Zenon, <1>0, LockKept DEF Locked
  <2>2. StoreInv'
    BY Zenon DEF StoreInv, Attached, disk, ForkInv
  <2>3. pc'[w] = "put"
    BY Zenon DEF ForkInv, TypeOK
  <2>4. PendingInv'
    BY Zenon, <1>0, <2>3, Holder DEF PendingInv, Attached, disk, locals, ForkInv
  <2>5. LeafInv'
    BY Zenon, <1>0, <2>3, Holder DEF LeafInv, disk, index, locals, ForkInv
  <2> QED
    BY Zenon, <2>1, <2>2, <2>4, <2>5, DiskKept DEF ForkInv
<1>3. CASE UpdateHashFails(w)
  BY Zenon, <1>0, <1>3, WalkBelowHead DEF UpdateHashFails
<1> QED
  BY Zenon, <1>1, <1>2, <1>3

(* PutBlock: the block is stored, and becomes HEAD when it is heavier. *)
LEMMA ForkPut ==
  ASSUME UniformDifficulty, ForkInv, NEW w \in Writer, TypeOK', PutBlock(w)
  PROVE  ForkInv'
<1> DEFINE b == blk[w]
<1>0. pc[w] = "put" /\ pc[w] \in Locked
  BY Zenon DEF PutBlock, Locked
<1>1. /\ lock = w /\ mode = "up" /\ b \in Block /\ b # Genesis /\ Attached(b)
      /\ stored # {} /\ head \in stored /\ head \in Block
      /\ (isHead <=> td[b] > td[head])
  BY Zenon, <1>0, Holder DEF ForkInv, PendingInv
<1>2. /\ stored' = stored \cup {b} /\ td' = td /\ stateDB' = stateDB /\ mode' = mode
      /\ blk' = blk /\ lock' = lock /\ isHead' = isHead /\ leaves' = leaves /\ best' = best
      /\ pc' = [pc EXCEPT ![w] = "commit"]
  BY Zenon DEF PutBlock, index, locals
<1>3. IF isHead THEN canon' = [canon EXCEPT ![Height[b]] = b] /\ head' = b
                ELSE canon' = canon /\ head' = head
  BY Zenon DEF PutBlock
<1>4. /\ td \in [Block -> Nat] /\ stored \subseteq Block /\ Height[b] \in Nat
      /\ Height[b] \in Heights /\ Height[b] # 0
      /\ canon \in [Heights -> Block \cup {NoBlock}]
  BY <1>1, BlockFacts DEF ForkInv, TypeOK, Attached
<1> HIDE DEF b
<1>5. LockInv'
  BY Zenon, <1>0, <1>2, LockKept DEF Locked
<1>6. StoreInv'
  <2>1. canon'[0] = canon[0]
    BY Zenon, <1>3, <1>4, BlockFacts
  <2>2. head' \in stored' /\ head' # NoBlock
    BY Zenon, <1>1, <1>2, <1>3, BlockFacts
  <2>3. \A c \in stored' \ {Genesis} : Attached(c)'
    BY Zenon, <1>1, <1>2 DEF Attached, ForkInv, StoreInv
  <2> QED
    BY Zenon, <1>1, <1>2, <2>1, <2>2, <2>3 DEF ForkInv, StoreInv
<1>7. WeightIsHeight'
  <2>1. \A c \in stored : /\ td[b] <= td[c] <=> Height[b] <= Height[c]
                          /\ td[c] <= td[b] <=> Height[c] <= Height[b]
    BY Zenon, <1>1, WeightExtends DEF ForkInv
  <2>2. td[b] <= td[b] /\ Height[b] <= Height[b]
    BY <1>1, <1>4
  <2> QED
    BY Zenon, <1>2, <2>1, <2>2 DEF ForkInv, WeightIsHeight
<1>8. HeadHeaviest'
  BY <1>1, <1>2, <1>3, <1>4 DEF ForkInv, HeadHeaviest
<1>9. ReadersFindBlocks'
  <2>1. CASE isHead
    <3>1. Height[Parent[b]] <= Height[head] /\ Height[b] = Height[Parent[b]] + 1
          /\ Height[head] \in Nat /\ Height[Parent[b]] \in Nat
      <4>1. Parent[b] \in stored /\ td[Parent[b]] <= td[head] /\ Height[b] = Height[Parent[b]] + 1
        BY Zenon, <1>1 DEF Attached, ForkInv, HeadHeaviest
      <4> QED
        BY Zenon, <4>1, <1>1, <1>4, BlockFacts DEF ForkInv, WeightIsHeight
    <3>2. /\ canon'[Height[b]] = b /\ head' = b
          /\ \A h \in Heights : h # Height[b] => canon'[h] = canon[h]
      BY Zenon, <1>3, <1>4, <2>1
    <3>3. ASSUME NEW h \in Heights, canon'[h] # NoBlock
          PROVE  canon'[h] \in stored' /\ Height[canon'[h]] = h
      BY Zenon, <1>2, <3>2, <3>3 DEF ForkInv, ReadersFindBlocks
    <3>4. ASSUME NEW h \in Heights, h <= Height[b]
          PROVE  canon'[h] # NoBlock
      <4>1. h = Height[b] \/ h <= Height[head]
        BY <3>1, <3>4 DEF Heights
      <4> QED
        BY Zenon, <1>1, <3>2, <4>1, BlockFacts DEF ForkInv, ReadersFindBlocks
    <3> QED
      BY Zenon, <3>2, <3>3, <3>4 DEF ReadersFindBlocks
  <2>2. CASE ~isHead
    BY Zenon, <1>1, <1>2, <1>3, <2>2 DEF ForkInv, ReadersFindBlocks
  <2> QED
    BY Zenon, <2>1, <2>2
<1>10. pc'[w] = "commit"
  BY Zenon, <1>2 DEF ForkInv, TypeOK
<1>11. PendingInv'
  <2>1. Attached(blk[w])'
    BY Zenon, <1>1, <1>2 DEF Attached, b
  <2> QED
    BY Zenon, <1>1, <1>2, <1>10, <2>1, BlockFacts DEF PendingInv, b
<1>12. LeafInv'
  <2>1. leaves \subseteq stored \cup {b} /\ best \in leaves /\ best = IF isHead THEN b ELSE head
    BY Zenon, <1>0, <1>1 DEF ForkInv, LeafInv, b
  <2>2. best' = head' /\ leaves' \subseteq stored'
    BY Zenon, <1>2, <1>3, <2>1
  <2> QED
    BY Zenon, <1>1, <1>2, <1>10, <2>1, <2>2, BlockFacts DEF LeafInv
<1> QED
  BY Zenon, <1>5, <1>6, <1>7, <1>8, <1>9, <1>11, <1>12 DEF ForkInv

(* The commit of the state, after which the lock is released. *)
LEMMA ForkCommit ==
  ASSUME ForkInv, NEW w \in Writer, TypeOK', CommitState(w)
  PROVE  ForkInv'
<1> USE DEF CommitState, Return, index, locals
<1>0. pc[w] = "commit" /\ pc[w] \in Locked
  BY Zenon DEF Locked
<1>1. lock' = NoWriter /\ lock = w /\ mode = "up"
  BY Zenon, <1>0, Holder
<1>2. LockInv'
  BY Zenon, <1>0, LockKept
<1>3. StoreInv' /\ WeightIsHeight' /\ HeadHeaviest' /\ ReadersFindBlocks'
  BY Zenon DEF StoreInv, Attached, WeightIsHeight, HeadHeaviest, ReadersFindBlocks, ForkInv
<1>4. PendingInv'
  BY Zenon, <1>1, BlockFacts DEF PendingInv
<1>5. LeafInv'
  BY Zenon, <1>0, <1>1, BlockFacts DEF LeafInv, PendingInv, ForkInv
<1> QED
  BY Zenon, <1>2, <1>3, <1>4, <1>5 DEF ForkInv

(* ForkInv is inductive with crashes and restarts, for a uniform difficulty. *)
LEMMA ForkStep ==
  ASSUME UniformDifficulty, ForkInv, [Next \/ Crash]_vars
  PROVE  ForkInv'
<1>1. TypeOK'
  <2>1. EntriesInPlace
    BY Zenon DEF ForkInv, ReadersFindBlocks, EntriesInPlace
  <2> QED
    BY Zenon, <2>1, TypeStep DEF ForkInv, AnyStep
<1>2. CASE UNCHANGED vars
  <2> USE <1>2 DEF vars, disk, index, locals, ForkInv
  <2>1. LockInv' /\ StoreInv'
    BY Zenon DEF LockInv, StoreInv, Attached
  <2>2. PendingInv' /\ LeafInv'
    BY Zenon DEF PendingInv, LeafInv, Attached
  <2> QED
    BY Zenon, <1>1, <2>1, <2>2, DiskKept
<1> QED
  BY Zenon, <1>1, <1>2, ForkStart, ForkOutside, ForkEnter, ForkDelete, ForkOverwrite, ForkPut, ForkCommit
  DEF Next, WriteBlock

(* The empty databases before the first start. *)
LEMMA ForkInit ==
  ASSUME Init
  PROVE  ForkInv
<1> USE BlockFacts DEF Init
<1>1. TypeOK
  BY Zenon DEF TypeOK
<1>2. LockInv /\ StoreInv
  BY Zenon DEF LockInv, StoreInv, Locked
<1>3. WeightIsHeight /\ HeadHeaviest /\ PendingInv /\ LeafInv /\ ReadersFindBlocks
  BY Zenon DEF WeightIsHeight, HeadHeaviest, PendingInv, LeafInv, ReadersFindBlocks
<1> QED
  BY Zenon, <1>1, <1>2, <1>3 DEF ForkInv

(* Whatever blocks of a uniform difficulty are written, by however many       *)
(* goroutines and with whatever crashes and restarts between two database     *)
(* writes, no stored block is heavier than HEAD.                              *)
THEOREM ForkChoice ==
  ASSUME UniformDifficulty
  PROVE  CrashSpec => []HeadHeaviest
<1>1. Init => ForkInv
  BY Zenon, ForkInit
<1>2. ForkInv /\ [Next \/ Crash]_vars => ForkInv'
  BY Zenon, ForkStep
<1>3. ForkInv => HeadHeaviest
  BY Zenon DEF ForkInv
<1> QED
  BY <1>1, <1>2, <1>3, PTL DEF CrashSpec

(* Under the same conditions CurrentBlock, when no writer is inside, returns  *)
(* the HEAD of the store.                                                     *)
THEOREM CurrentBlock ==
  ASSUME UniformDifficulty
  PROVE  CrashSpec => []CurrentBlockIsHead
<1>1. Init => ForkInv
  BY Zenon, ForkInit
<1>2. ForkInv /\ [Next \/ Crash]_vars => ForkInv'
  BY Zenon, ForkStep
<1>3. ForkInv => CurrentBlockIsHead
  BY Zenon DEF ForkInv, LeafInv, CurrentBlockIsHead, Quiet
<1> QED
  BY <1>1, <1>2, <1>3, PTL DEF CrashSpec

(* Under the same conditions a reader without the lock finds a stored block   *)
(* of the right height at every height up to HEAD's, at every moment of a     *)
(* reorganisation and after every crash.                                      *)
THEOREM ReadersServed ==
  ASSUME UniformDifficulty
  PROVE  CrashSpec => []ReadersFindBlocks
<1>1. Init => ForkInv
  BY Zenon, ForkInit
<1>2. ForkInv /\ [Next \/ Crash]_vars => ForkInv'
  BY Zenon, ForkStep
<1>3. ForkInv => ReadersFindBlocks
  BY Zenon DEF ForkInv
<1> QED
  BY <1>1, <1>2, <1>3, PTL DEF CrashSpec

(* Every step moves the abstract tree and its head as HeaviestChain allows. *)
LEMMA RefinementStep ==
  ASSUME UniformDifficulty, ForkInv, [Next \/ Crash]_vars
  PROVE  [Abstract!Next]_(Abstract!vars)
<1> DEFINE weight == [b \in Block |-> IF b \in stored THEN td[b] ELSE 0]
<1>1. CASE StoreGenesisHeader
  <2>1. stored = {} /\ stored' = {Genesis} /\ head' = Genesis
        /\ td' = [td EXCEPT ![Genesis] = Difficulty[Genesis]]
    BY Zenon, <1>1 DEF StoreGenesisHeader, ForkInv, StoreInv
  <2>2. weight' = [weight EXCEPT ![Genesis] = Difficulty[Genesis]]
    BY Zenon, <2>1, BlockFacts DEF ForkInv, TypeOK
  <2>3. Abstract!Plant
    BY Zenon, <2>1, <2>2 DEF Abstract!Plant
  <2> QED
    BY Zenon, <2>3 DEF Abstract!Next
<1>2. ASSUME NEW w \in Writer, PutBlock(w)
      PROVE  [Abstract!Next]_(Abstract!vars)
  <2> DEFINE b == blk[w]
  <2>1. /\ b \in Block /\ b # Genesis /\ Attached(b) /\ head \in stored
        /\ (isHead <=> td[b] > td[head])
        /\ stored' = stored \cup {b} /\ td' = td
        /\ head' = (IF isHead THEN b ELSE head)
    BY Zenon, <1>2, Holder DEF PutBlock, ForkInv, PendingInv, Locked
  <2>2. td \in [Block -> Nat] /\ stored \subseteq Block
    BY Zenon DEF ForkInv, TypeOK
  <2> HIDE DEF b
  <2>3. CASE b \in stored
    <3>1. ~isHead
      BY <2>1, <2>2, <2>3 DEF ForkInv, HeadHeaviest
    <3> QED
      BY Zenon, <2>1, <2>3, <3>1 DEF Abstract!vars
  <2>4. CASE b \notin stored
    <3>1. Parent[b] \in stored /\ td[b] = td[Parent[b]] + Difficulty[b] /\ b # Parent[b]
      BY Zenon, <2>1, <2>4 DEF Attached
    <3>2. weight' = [weight EXCEPT ![b] = weight[Parent[b]] + Difficulty[b]]
      BY Zenon, <2>1, <2>2, <2>4, <3>1
    <3>3. weight'[b] = td[b] /\ weight[head] = td[head]
      BY Zenon, <2>1, <2>2, <3>1
    <3>4. Abstract!Grow(b)
      BY Zenon, <2>1, <2>4, <3>1, <3>2, <3>3 DEF Abstract!Grow
    <3> QED
      <4>1. \E c \in Block : Abstract!Grow(c)
        BY Zenon, <2>1, <3>4 DEF Abstract!Grow
      <4> QED
        BY Zenon, <4>1 DEF Abstract!Next
  <2> QED
    BY Zenon, <2>3, <2>4
<1>3. ASSUME NEW w \in Writer, Enter(w)
      PROVE  UNCHANGED Abstract!vars
  <2> DEFINE b == blk[w]
  <2>1. /\ b \in Block /\ b # Genesis /\ Parent[b] \in stored
        /\ td' = [td EXCEPT ![b] = td[Parent[b]] + Difficulty[b]]
        /\ stored' = stored /\ head' = head
    BY Zenon, <1>3, BlockFacts DEF Enter, Acceptable, TotalDifficulty, ForkInv, TypeOK
  <2>2. \A c \in stored : td'[c] = td[c]
    BY Zenon, <2>1 DEF ForkInv, StoreInv, Attached, TypeOK
  <2>3. weight' = weight
    BY Zenon, <2>1, <2>2
  <2> QED
    BY Zenon, <2>1, <2>3 DEF Abstract!vars
<1>4. CASE /\ ~StoreGenesisHeader
           /\ ~\E w \in Writer : PutBlock(w) \/ Enter(w)
  <2>1. stored' = stored /\ td' = td /\ head' = head
    BY Zenon, <1>4 DEF Next, StartUp, WriteBlock, Crash, vars, disk, StoreGenesisState,
       ValidateGenesis, NewBlockchain, CheckExists, Reject, DeleteBlockHash, DeleteDone,
       PutBlockHash, PutBlockHashDone, UpdateHashFails, CommitState
  <2> QED
    BY Zenon, <2>1 DEF Abstract!vars
<1> QED
  BY Zenon, <1>1, <1>2, <1>3, <1>4

(* The stored tree and HEAD implement the heaviest-chain rule, for a uniform   *)
(* difficulty, with concurrent writers, crashes and restarts.                  *)
THEOREM Refinement ==
  ASSUME UniformDifficulty
  PROVE  CrashSpec => RefinesHeaviestChain
<1>1. Init => ForkInv
  BY Zenon, ForkInit
<1>2. ForkInv /\ [Next \/ Crash]_vars => ForkInv'
  BY Zenon, ForkStep
<1>3. Init => Abstract!Init
  BY Zenon DEF Init, Abstract!Init
<1>4. ForkInv /\ [Next \/ Crash]_vars => [Abstract!Next]_(Abstract!vars)
  BY Zenon, RefinementStep
<1> QED
  BY <1>1, <1>2, <1>3, <1>4, PTL DEF CrashSpec, RefinesHeaviestChain, Abstract!Spec

(* HEAD is only replaced by a strictly heavier block. *)
THEOREM HeadGrows ==
  ASSUME UniformDifficulty
  PROVE  CrashSpec => HeadOnlyGetsHeavier
<1> DEFINE Heavier == head' # head /\ head # NoBlock => td'[head'] > td[head]
<1>1. Init => ForkInv
  BY Zenon, ForkInit
<1>2. ForkInv /\ [Next \/ Crash]_vars => ForkInv'
  BY Zenon, ForkStep
<1>3. ForkInv /\ [Next \/ Crash]_vars => [Heavier]_vars
  <2> SUFFICES ASSUME ForkInv, Next \/ Crash, head' # head, head # NoBlock
               PROVE  td'[head'] > td[head]
    BY Zenon DEF vars, disk
  <2>1. ~StoreGenesisHeader
    BY Zenon DEF StoreGenesisHeader, ForkInv, StoreInv
  <2>2. PICK w \in Writer : PutBlock(w) \/ Enter(w)
    BY Zenon, <2>1 DEF Next, StartUp, WriteBlock, Crash, vars, disk, StoreGenesisState,
       ValidateGenesis, NewBlockchain, CheckExists, Reject, DeleteBlockHash, DeleteDone,
       PutBlockHash, PutBlockHashDone, UpdateHashFails, CommitState
  <2>3. PutBlock(w) /\ isHead
    BY Zenon, <2>2 DEF PutBlock, Enter
  <2>4. td[blk[w]] > td[head]
    BY Zenon, <2>3, Holder DEF PutBlock, ForkInv, PendingInv, Locked
  <2> QED
    BY Zenon, <2>3, <2>4 DEF PutBlock
<1> QED
  BY <1>1, <1>2, <1>3, PTL DEF CrashSpec, HeadOnlyGetsHeavier

(* A new head is exactly one above the old one. *)
LEMMA NewHeadHeight ==
  ASSUME UniformDifficulty, ForkInv, NEW w \in Writer,
         pc[w] \in {"delete", "overwrite", "put"}, isHead
  PROVE  /\ Height[blk[w]] = Height[head] + 1 /\ Height[head] \in Nat
         /\ blk[w] \in Block /\ Height[Parent[blk[w]]] = Height[head]
         /\ Parent[blk[w]] \in stored /\ Parent[blk[w]] \in Block
<1>1. /\ lock = w /\ blk[w] \in Block /\ blk[w] # Genesis /\ Attached(blk[w])
      /\ head \in stored /\ head \in Block /\ td[blk[w]] > td[head]
  BY Zenon, Holder DEF Locked, ForkInv, PendingInv
<1>2. /\ Parent[blk[w]] \in stored /\ Parent[blk[w]] \in Block
      /\ Height[blk[w]] = Height[Parent[blk[w]]] + 1
      /\ td[Parent[blk[w]]] <= td[head]
  BY Zenon, <1>1 DEF Attached, ForkInv, HeadHeaviest, TypeOK
<1>3. Height[Parent[blk[w]]] <= Height[head]
  BY Zenon, <1>1, <1>2 DEF ForkInv, WeightIsHeight
<1>4. ~(Height[blk[w]] <= Height[head])
  BY <1>1, WeightExtends DEF ForkInv, TypeOK
<1> QED
  BY <1>1, <1>2, <1>3, <1>4, BlockFacts

(* Start-up stores genesis in its mapping, or reads the HEAD it leads to. *)
LEMMA CanonStart ==
  ASSUME ForkInv, CanonInv, StartUp
  PROVE  CanonInv'
<1>1. lock = NoWriter /\ lock' = NoWriter
  BY Zenon DEF StartUp, StoreGenesisState, StoreGenesisHeader, ValidateGenesis, NewBlockchain,
     ForkInv, LockInv
<1>2. CASE StoreGenesisHeader
  <2>1. /\ stored = {} /\ head' = Genesis /\ canon' = [canon EXCEPT ![0] = Genesis]
        /\ canon \in [Heights -> Block \cup {NoBlock}]
    BY Zenon, <1>2 DEF StoreGenesisHeader, ForkInv, StoreInv, TypeOK
  <2>2. \A h \in Heights : canon[h] = NoBlock
    BY Zenon, <2>1 DEF ForkInv, ReadersFindBlocks
  <2> QED
    BY <1>1, <2>1, <2>2, BlockFacts DEF CanonInv, ChainUpTo, Heights
<1>3. CASE ~StoreGenesisHeader
  <2>1. stored' = stored /\ canon' = canon /\ head' = head
    BY Zenon, <1>3 DEF StartUp, StoreGenesisState, ValidateGenesis, NewBlockchain, disk
  <2> QED
    BY Zenon, <1>1, <2>1, BlockFacts DEF CanonInv, ChainUpTo
<1> QED
  BY Zenon, <1>2, <1>3

(* The steps of WriteBlock outside the lock leave the mapping alone. *)
LEMMA CanonOutside ==
  ASSUME ForkInv, CanonInv, NEW w \in Writer,
         Reject(w) \/ \E b \in Block : CheckExists(w, b)
  PROVE  CanonInv'
<1>1. UNCHANGED <<stored, canon, head, lock, isHead, walk>>
  BY Zenon DEF Reject, CheckExists, disk, locals
<1>2. /\ lock # w
      /\ \A v \in Writer : lock = v => pc'[v] = pc[v] /\ blk'[v] = blk[v]
  BY Zenon, BlockFacts DEF Reject, CheckExists, ForkInv, LockInv, Locked, TypeOK
<1> QED
  BY <1>1, <1>2 DEF CanonInv, ChainUpTo

(* WriteBlock takes the lock and starts to rewrite the mapping, or does not. *)
LEMMA CanonEnter ==
  ASSUME ForkInv, CanonInv, NEW w \in Writer, Enter(w)
  PROVE  CanonInv'
<1>1. /\ UNCHANGED <<stored, canon, head, blk>> /\ lock = NoWriter /\ lock' = w
      /\ walk' = Parent[blk[w]] /\ stored # {}
      /\ pc'[w] = IF isHead' THEN "delete" ELSE "put"
  BY Zenon DEF Enter, Acceptable, ForkInv, TypeOK
<1>2. \A v \in Writer : lock' = v => v = w
  BY Zenon, <1>1
<1> QED
  BY Zenon, <1>1, <1>2 DEF CanonInv, ChainUpTo

(* The deletion of mappings above the new head. *)
LEMMA CanonDelete ==
  ASSUME UniformDifficulty, ForkInv, CanonInv, NEW w \in Writer,
         DeleteBlockHash(w) \/ DeleteDone(w)
  PROVE  CanonInv'
<1>1. /\ pc[w] = "delete" /\ lock = w /\ stored # {} /\ isHead /\ next > Height[head]
      /\ next \in Heights /\ walk = Parent[blk[w]]
  BY Zenon, Holder DEF DeleteBlockHash, DeleteDone, Locked, ForkInv, PendingInv, TypeOK, CanonInv
<1>2. DeleteDone(w)
  BY Zenon, <1>1 DEF DeleteBlockHash, CanonInv
<1>3. /\ UNCHANGED <<stored, canon, head, blk, lock, walk, isHead>> /\ pc'[w] = "overwrite"
  BY Zenon, <1>2 DEF DeleteDone, disk, locals, ForkInv, TypeOK
<1>4. /\ Height[blk[w]] - 1 = Height[head] /\ Height[walk] = Height[head]
      /\ walk # NoBlock /\ Height[head] \in Nat
  BY SMTT(30), <1>1, NewHeadHeight, BlockFacts
<1>5. canon[Height[head]] = head /\ ChainUpTo(Height[head])
  BY Zenon, <1>1 DEF CanonInv
<1>6. \A v \in Writer : lock' = v => v = w
  BY Zenon, <1>1, <1>3
<1>7. lock' # NoWriter /\ lock' = w
  BY Zenon, <1>1, <1>3, BlockFacts
<1>8. (\A h \in Heights : stored # {} /\ h > Height[head] => canon[h] = NoBlock)'
  BY Zenon, <1>3 DEF CanonInv
<1>9. Height[walk] = Height[blk[w]] - 1 /\ Height[walk] \in Nat
  BY ONLY Zenon, <1>4
<1>10. \A h \in Heights : h > 0 /\ h <= Height[blk[w]] - 1 => canon[h - 1] = Parent[canon[h]]
  BY Zenon, <1>4, <1>5 DEF ChainUpTo
<1>11. Height[walk] <= Height[blk[w]] - 1
  BY ONLY <1>9
<1> QED
  BY Zenon, <1>1, <1>3, <1>4, <1>6, <1>7, <1>8, <1>9, <1>10, <1>11 DEF CanonInv

(* The rewriting of mappings below the new head. *)
LEMMA CanonOverwrite ==
  ASSUME UniformDifficulty, ForkInv, CanonInv, NEW w \in Writer,
         PutBlockHash(w) \/ PutBlockHashDone(w) \/ UpdateHashFails(w)
  PROVE  CanonInv'
<1> DEFINE b == blk[w]
           top == Height[b] - 1
           k == IF walk = NoBlock THEN -1 ELSE Height[walk]
<1>1. /\ pc[w] = "overwrite" /\ lock = w /\ stored # {} /\ isHead
      /\ \A v \in Writer : lock = v => v = w
  BY Zenon, Holder DEF PutBlockHash, PutBlockHashDone, UpdateHashFails, Locked, ForkInv, PendingInv
<1>2. /\ top = Height[head] /\ top \in Nat /\ b \in Block /\ top \in Heights
      /\ head \in Block /\ canon \in [Heights -> Block \cup {NoBlock}]
  BY SMTT(90), <1>1, NewHeadHeight, Holder, BlockFacts DEF Locked, ForkInv, TypeOK
<1>3. /\ k <= top
      /\ k = top => walk = Parent[b]
      /\ k # top => canon[top] = Parent[b] /\ Parent[canon[k + 1]] = walk
      /\ \A h \in Heights : h > 0 /\ h <= top /\ h # k + 1 => canon[h - 1] = Parent[canon[h]]
  BY Zenon, <1>1 DEF CanonInv
<1>4. CASE PutBlockHash(w)
  <2>1. walk # NoBlock /\ k = Height[walk]
    BY Zenon, <1>4, BlockFacts DEF PutBlockHash, ForkInv, TypeOK
  <2>2. /\ walk # Genesis /\ walk \in Block /\ k \in Nat /\ k \in Heights
        /\ Parent[walk] \in Block /\ Height[Parent[walk]] = k - 1
    <3>1. walk \in stored /\ walk \in Block
      BY Zenon, <1>4 DEF PutBlockHash, ForkInv, TypeOK
    <3>2. walk # Genesis
      BY Zenon, <1>1, <1>4, BlockFacts DEF PutBlockHash, ForkInv, StoreInv
    <3>3. Attached(walk)
      BY Zenon, <3>1, <3>2 DEF ForkInv, StoreInv
    <3> QED
      BY <2>1, <3>1, <3>2, <3>3, BlockFacts DEF Attached, ForkInv, TypeOK
  <2>3. /\ UNCHANGED <<stored, head, blk, lock, pc, isHead>>
        /\ walk' = Parent[walk]
        /\ canon' = [canon EXCEPT ![k] = walk]
    BY Zenon, <1>4, <2>1 DEF PutBlockHash
  <2> DEFINE k2 == Height[walk'] 
  <2>4. k2 = k - 1 /\ walk' # NoBlock
    BY Zenon, <2>2, <2>3, BlockFacts
  <2> HIDE DEF k, b, k2, top
  <2>5. canon'[k] = walk /\ \A h \in Heights : h # k => canon'[h] = canon[h]
    BY Zenon, <1>2, <2>2, <2>3
  <2>6. k2 < top /\ canon'[top] = Parent[b]
    BY <1>2, <1>3, <2>2, <2>4, <2>5
  <2>7. Parent[canon'[k2 + 1]] = walk'
    BY <2>2, <2>3, <2>4, <2>5
  <2>8. ASSUME NEW h \in Heights, h > 0, h <= top, h # k2 + 1
        PROVE  canon'[h - 1] = Parent[canon'[h]]
    <3>1. h \in Nat /\ h - 1 \in Heights /\ h # k
      BY <2>2, <2>4, <2>8, BlockFacts DEF Heights
    <3>2. CASE h = k + 1
      <4>1. k # top /\ canon'[h - 1] = walk /\ canon'[h] = canon[k + 1]
        BY <1>2, <2>2, <2>5, <2>8, <3>1, <3>2
      <4> QED
        BY Zenon, <1>3, <4>1
    <3>3. CASE h # k + 1
      BY <1>3, <2>2, <2>5, <2>8, <3>1, <3>3
    <3> QED
      BY Zenon, <3>2, <3>3
  <2>9. \A h \in Heights : h > Height[head] => canon'[h] = NoBlock
    BY <1>1, <1>2, <1>3, <2>2, <2>5 DEF CanonInv, Heights
  <2>10. k2 <= top /\ k2 # top
    BY <1>2, <2>2, <2>4, <2>6
  <2>11. pc'[w] = "overwrite" /\ lock' # NoWriter /\ \A v \in Writer : lock' = v => v = w
    BY Zenon, <1>1, <2>3, BlockFacts
  <2>12. blk'[w] = b /\ stored' # {} /\ head' = head
    BY Zenon, <1>1, <2>3 DEF b
  <2> QED
    BY Zenon, <2>4, <2>6, <2>7, <2>8, <2>9, <2>10, <2>11, <2>12 DEF CanonInv, k2, top
<1>5. CASE PutBlockHashDone(w)
  <2>1. /\ UNCHANGED <<stored, canon, head, blk, lock, isHead, walk>> /\ pc'[w] = "put"
    BY Zenon, <1>5 DEF PutBlockHashDone, disk, locals, ForkInv, TypeOK
  <2>2. walk # NoBlock => canon[k] = walk /\ k \in Nat
    BY Zenon, <1>5, BlockFacts DEF PutBlockHashDone, ForkInv, TypeOK
  <2>3. walk = NoBlock => k = -1
    BY Zenon
  <2>4. k \in Int /\ k >= -1
    BY <2>2, <2>3
  <2> HIDE DEF k, b, top
  <2>5. canon[top] = Parent[b]
    BY <1>2, <1>3, <2>2, <2>3, <2>4
  <2>6. ASSUME NEW h \in Heights, h > 0, h <= top
        PROVE  canon[h - 1] = Parent[canon[h]]
    <3>1. h \in Nat
      BY BlockFacts DEF Heights
    <3>2. CASE h = k + 1
      BY <1>2, <1>3, <2>2, <2>3, <2>4, <2>6, <3>1, <3>2
    <3>3. CASE h # k + 1
      BY Zenon, <1>3, <2>6, <3>3
    <3> QED
      BY Zenon, <3>2, <3>3
  <2> QED
    BY Zenon, <1>1, <2>1, <2>5, <2>6 DEF CanonInv, ChainUpTo, b, top
<1>6. CASE UpdateHashFails(w)
  BY Zenon, <1>1, <1>6, WalkBelowHead DEF UpdateHashFails
<1> QED
  BY Zenon, <1>4, <1>5, <1>6

(* PutBlock makes the mapping that was rewritten that of the new head; the    *)
(* commit of the state leaves it alone.                                       *)
LEMMA CanonPut ==
  ASSUME UniformDifficulty, ForkInv, CanonInv, NEW w \in Writer,
         PutBlock(w) \/ CommitState(w)
  PROVE  CanonInv'
<1>0. /\ lock = w /\ stored # {} /\ head \in Block /\ blk[w] \in Block
      /\ canon \in [Heights -> Block \cup {NoBlock}]
      /\ \A v \in Writer : lock = v => v = w
  BY Zenon, Holder DEF PutBlock, CommitState, Locked, ForkInv, TypeOK
<1>1. CASE PutBlock(w)
  <2>1. /\ pc[w] = "put" /\ pc'[w] = "commit" /\ UNCHANGED <<blk, lock, isHead>> /\ stored' # {}
    BY Zenon, <1>1 DEF PutBlock, ForkInv, TypeOK, locals
  <2>2. CASE isHead
    <3> DEFINE b == blk[w]
    <3>1. canon' = [canon EXCEPT ![Height[b]] = b] /\ head' = b
      BY Zenon, <1>1, <2>2 DEF PutBlock
    <3>2. /\ Height[b] = Height[head] + 1 /\ Height[head] \in Nat /\ Height[b] \in Heights
          /\ Height[b] \in Nat
      BY Zenon, <1>0, <2>1, <2>2, NewHeadHeight, BlockFacts
    <3>3. canon[Height[b] - 1] = Parent[b] /\ ChainUpTo(Height[b] - 1)
      BY Zenon, <1>0, <2>1, <2>2 DEF CanonInv
    <3> HIDE DEF b
    <3>4. canon'[Height[b]] = b /\ \A h \in Heights : h # Height[b] => canon'[h] = canon[h]
      BY Zenon, <1>0, <3>1, <3>2
    <3>5. \A h \in Heights : h > Height[b] => canon'[h] = NoBlock
      BY <1>0, <3>2, <3>4 DEF CanonInv, Heights
    <3>6. ASSUME NEW h \in Heights, h > 0, h <= Height[b]
          PROVE  canon'[h - 1] = Parent[canon'[h]]
      <4>1. h \in Nat /\ h - 1 \in Heights /\ h - 1 # Height[b]
        BY <3>2, <3>6, BlockFacts DEF Heights
      <4>2. CASE h = Height[b]
        BY Zenon, <3>2, <3>3, <3>4, <4>1, <4>2
      <4>3. CASE h # Height[b]
        BY <3>2, <3>3, <3>4, <3>6, <4>1, <4>3 DEF ChainUpTo
      <4> QED
        BY Zenon, <4>2, <4>3
    <3> QED
      BY Zenon, <1>0, <2>1, <3>1, <3>4, <3>5, <3>6, BlockFacts DEF CanonInv, ChainUpTo
  <2>3. CASE ~isHead
    <3>1. UNCHANGED <<canon, head>>
      BY Zenon, <1>1, <2>3 DEF PutBlock
    <3> QED
      BY Zenon, <1>0, <2>1, <2>3, <3>1 DEF CanonInv, ChainUpTo
  <2> QED
    BY Zenon, <2>2, <2>3
<1>2. CASE CommitState(w)
  <2>1. pc[w] = "commit" /\ UNCHANGED <<stored, canon, head>> /\ lock' = NoWriter
    BY Zenon, <1>2 DEF CommitState, Return
  <2> QED
    BY Zenon, <1>0, <2>1, BlockFacts DEF CanonInv, ChainUpTo
<1> QED
  BY Zenon, <1>1, <1>2

(* Every step of a process that lives keeps the shape of the mapping. *)
LEMMA CanonStep ==
  ASSUME UniformDifficulty, ForkInv, CanonInv, [Next]_vars
  PROVE  CanonInv'
<1>1. CASE UNCHANGED vars
  BY Zenon, <1>1 DEF vars, disk, locals, CanonInv, ChainUpTo
<1> QED
  BY Zenon, <1>1, CanonStart, CanonOutside, CanonEnter, CanonDelete, CanonOverwrite, CanonPut
  DEF Next, WriteBlock

(* Between two calls of WriteBlock that shape is HEAD's chain. *)
LEMMA CanonQuiet ==
  ASSUME ForkInv, CanonInv
  PROVE  CanonicalChain
BY Zenon DEF ForkInv, StoreInv, CanonInv, CanonicalChain, HeadChainMapped, ChainUpTo, Quiet

(* As long as the process lives, and for a uniform difficulty, the mapping     *)
(* between two calls of WriteBlock is exactly the chain of ancestors of HEAD,  *)
(* whatever forks and reorganisations concurrent writers cause.                *)
THEOREM CanonicalMapping ==
  ASSUME UniformDifficulty
  PROVE  Spec => []CanonicalChain
<1>1. Init => ForkInv /\ CanonInv
  BY Zenon, ForkInit, BlockFacts DEF Init, CanonInv
<1>2. ForkInv /\ [Next]_vars => ForkInv'
  BY Zenon, ForkStep
<1>3. ForkInv /\ CanonInv /\ [Next]_vars => CanonInv'
  BY Zenon, CanonStep
<1>4. ForkInv /\ CanonInv => CanonicalChain
  BY Zenon, CanonQuiet
<1> QED
  BY <1>1, <1>2, <1>3, <1>4, PTL DEF Spec
-----------------------------------------------------------------------------
(* Start-up finds an empty store or the genesis, whose state was committed first. *)
LEMMA IndexStart ==
  ASSUME ForkInv, IndexInv, StartUp
  PROVE  IndexInv'
<1> USE BlockFacts
<1>1. /\ lock = NoWriter /\ lock' = NoWriter /\ mode # "up"
      /\ \A w \in Writer : lock # w /\ lock' # w
  BY Zenon DEF StartUp, StoreGenesisState, StoreGenesisHeader, ValidateGenesis, NewBlockchain,
     ForkInv, LockInv
<1>2. \A b \in stored : b = Genesis /\ StateHash[b] \in stateDB
  BY Zenon, <1>1 DEF IndexInv
<1>3. CASE StoreGenesisState
  BY Zenon, <1>1, <1>2, <1>3 DEF StoreGenesisState, IndexInv
<1>4. CASE StoreGenesisHeader
  BY Zenon, <1>1, <1>2, <1>4 DEF StoreGenesisHeader, IndexInv
<1>5. CASE ValidateGenesis
  BY Zenon, <1>1, <1>2, <1>5 DEF ValidateGenesis, disk, IndexInv
<1>6. CASE NewBlockchain
  <2>1. UNCHANGED <<stored, stateDB>> /\ mode' # "genesis"
    BY Zenon, <1>6 DEF NewBlockchain, disk
  <2>2. mode' = "up" => \A b \in stored : b \in leaves'
    BY Zenon, <1>2, <1>6 DEF NewBlockchain, CanOpen
  <2>3. mode' # "up" => stored' \subseteq {Genesis}
    BY Zenon, <1>2, <2>1
  <2> QED
    BY Zenon, <1>1, <1>2, <2>1, <2>2, <2>3 DEF IndexInv, Tip
<1> QED
  BY Zenon, <1>3, <1>4, <1>5, <1>6 DEF StartUp

(* The steps of WriteBlock outside the lock. *)
LEMMA IndexOutside ==
  ASSUME ForkInv, IndexInv, NEW w \in Writer,
         Reject(w) \/ \E b \in Block : CheckExists(w, b)
  PROVE  IndexInv'
<1>1. UNCHANGED <<stored, stateDB, mode, leaves, lock>>
  BY Zenon DEF Reject, CheckExists, disk, index
<1>2. \A v \in Writer : lock = v => pc'[v] = pc[v] /\ blk'[v] = blk[v]
  BY Zenon, BlockFacts DEF Reject, CheckExists, ForkInv, LockInv, Locked, TypeOK
<1> QED
  BY <1>1, <1>2 DEF IndexInv, Tip

(* The block becomes a leaf instead of its parent, before it is stored. *)
LEMMA IndexEnter ==
  ASSUME ForkInv, IndexInv, NEW w \in Writer, Enter(w)
  PROVE  IndexInv'
<1> DEFINE b == blk[w]
<1>1. /\ UNCHANGED <<stored, stateDB, mode, blk>> /\ lock = NoWriter /\ lock' = w
      /\ leaves' = (leaves \cup {b}) \ {Parent[b]}
      /\ pc'[w] # "commit"
  BY Zenon DEF Enter, AddRemoveLeaves, ForkInv, TypeOK
<1>2. b \in leaves' /\ mode = "up"
  <2>1. b # Parent[b]
    BY BlockFacts DEF Enter, Acceptable, ForkInv, TypeOK
  <2>2. mode = "up"
    BY Zenon DEF Enter, ForkInv, LockInv
  <2> QED
    BY Zenon, <1>1, <2>1, <2>2
<1>3. \A v \in Writer : lock # v /\ (lock' = v => v = w)
  BY Zenon, <1>1, BlockFacts
<1>4. \A c \in stored : StateHash[c] \in stateDB
  BY Zenon, <1>3 DEF IndexInv
<1>5. \A c \in stored : Tip(c) => c \in leaves
  BY Zenon, <1>2, <1>3 DEF IndexInv
<1>6. \A c \in stored : Tip(c) => c \in leaves' \/ Parent[b] = c
  BY Zenon, <1>1, <1>5
<1>7. \A c : Tip(c)' <=> Tip(c)
  BY Zenon, <1>1 DEF Tip
<1> QED
  BY Zenon, <1>1, <1>2, <1>3, <1>4, <1>6, <1>7 DEF IndexInv

(* The steps of updateHashByHeight touch neither the index nor the states, and *)
(* it never fails.                                                             *)
LEMMA IndexUpdate ==
  ASSUME ForkInv, IndexInv, NEW w \in Writer,
         \/ DeleteBlockHash(w) \/ DeleteDone(w)
         \/ PutBlockHash(w) \/ PutBlockHashDone(w) \/ UpdateHashFails(w)
  PROVE  IndexInv'
<1>1. ~UpdateHashFails(w)
  BY Zenon, WalkBelowHead DEF UpdateHashFails
<1>2. UNCHANGED <<stored, stateDB, mode, leaves, lock, blk>>
  BY Zenon, <1>1 DEF DeleteBlockHash, DeleteDone, PutBlockHash, PutBlockHashDone, disk, index
<1>3. pc[w] \in {"delete", "overwrite"} /\ pc'[w] \in {"delete", "overwrite", "put"}
  BY Zenon, <1>1 DEF DeleteBlockHash, DeleteDone, PutBlockHash, PutBlockHashDone, ForkInv, TypeOK
<1>4. lock = w
  BY Zenon, <1>3, Holder DEF Locked
<1>5. pc[w] # "commit" /\ pc'[w] # "commit"
  BY Zenon, <1>3
<1>6. \A v \in Writer : lock = v => v = w
  BY Zenon, <1>4
<1> QED
  BY Zenon, <1>2, <1>4, <1>5, <1>6 DEF IndexInv, Tip

(* PutBlock: the block, a leaf already, takes the place of its parent as a tip. *)
LEMMA IndexPut ==
  ASSUME ForkInv, IndexInv, NEW w \in Writer, PutBlock(w)
  PROVE  IndexInv'
<1> DEFINE b == blk[w]
<1>1. /\ pc[w] = "put" /\ pc'[w] = "commit" /\ stored' = stored \cup {b}
      /\ UNCHANGED <<stateDB, mode, leaves, lock, blk>>
  BY Zenon DEF PutBlock, index, ForkInv, TypeOK
<1>2. lock = w /\ mode = "up" /\ \A v \in Writer : lock = v <=> v = w
  BY Zenon, <1>1, Holder DEF Locked
<1>3. b \in leaves /\ \A c \in stored : StateHash[c] \in stateDB
  BY Zenon, <1>1, <1>2 DEF IndexInv
<1>4. ASSUME NEW c \in stored', Tip(c)'
      PROVE  c \in leaves
  <2>1. Parent[b] # c
    BY Zenon, <1>1, <1>4 DEF Tip
  <2>2. CASE c = b
    BY Zenon, <1>3, <2>2
  <2>3. CASE c \in stored
    <3>1. Tip(c)
      BY Zenon, <1>1, <1>4 DEF Tip
    <3> QED
      BY Zenon, <1>2, <2>1, <2>3, <3>1 DEF IndexInv
  <2> QED
    BY Zenon, <1>1, <2>2, <2>3
<1>5. \A c \in stored' : StateHash[c] \in stateDB \/ c = b
  BY Zenon, <1>1, <1>3
<1> QED
  BY Zenon, <1>1, <1>2, <1>3, <1>4, <1>5 DEF IndexInv

(* The commit of the state batch completes the block. *)
LEMMA IndexCommit ==
  ASSUME ForkInv, IndexInv, NEW w \in Writer, CommitState(w)
  PROVE  IndexInv'
<1> DEFINE b == blk[w]
<1>1. /\ pc[w] = "commit" /\ stateDB' = stateDB \cup {StateHash[b]} /\ lock' = NoWriter
      /\ UNCHANGED <<stored, mode, leaves>>
  BY Zenon DEF CommitState, Return, index
<1>2. lock = w /\ mode = "up" /\ \A v \in Writer : lock = v <=> v = w
  BY Zenon, <1>1, Holder DEF Locked
<1>3. \A c \in stored : StateHash[c] \in stateDB \/ c = b
  BY Zenon, <1>1, <1>2 DEF IndexInv
<1>4. \A c \in stored : StateHash[c] \in stateDB'
  BY Zenon, <1>1, <1>3
<1>5. \A c \in stored : Tip(c) => c \in leaves
  BY Zenon, <1>1, <1>2 DEF IndexInv
<1>6. \A v \in Writer : lock' # v
  BY Zenon, <1>1, BlockFacts
<1> QED
  BY Zenon, <1>1, <1>2, <1>4, <1>5, <1>6 DEF IndexInv, Tip

(* For a uniform difficulty, and until the process dies for the first time:   *)
(* between two calls of WriteBlock the mapping from heights is HEAD's chain,   *)
(* the leaves in memory include every tip of the stored tree, and every stored *)
(* block can be built upon.                                                    *)
THEOREM IntactWhileAlive ==
  ASSUME UniformDifficulty
  PROVE  HistorySpec => []IntactUntilCrash
<1>1. HistoryInit => HistoryInv
  <2>1. Init => ForkInv
    BY Zenon, ForkInit
  <2>2. Init => CanonInv /\ IndexInv
    BY Zenon, BlockFacts DEF Init, CanonInv, IndexInv
  <2> QED
    BY Zenon, <2>1, <2>2 DEF HistoryInit, HistoryInv
<1>2. HistoryInv /\ [HistoryNext]_<<vars, crashed>> => HistoryInv'
  <2> SUFFICES ASSUME HistoryInv, [HistoryNext]_<<vars, crashed>>
               PROVE  HistoryInv'
    BY Zenon
  <2>1. ForkInv'
    BY Zenon, ForkStep DEF HistoryInv, HistoryNext
  <2>2. CASE crashed'
    BY Zenon, <2>1, <2>2 DEF HistoryInv
  <2>3. CASE ~crashed'
    <3>1. ~crashed /\ ForkInv /\ CanonInv /\ IndexInv /\ [Next]_vars
      BY <2>3 DEF HistoryInv, HistoryNext
    <3>2. CanonInv'
      BY Zenon, <3>1, CanonStep
    <3>3. IndexInv'
      <4>1. CASE UNCHANGED vars
        BY Zenon, <3>1, <4>1 DEF vars, disk, index, IndexInv, Tip
      <4>2. CASE StartUp
        BY Zenon, <3>1, <4>2, IndexStart
      <4>3. CASE \E w \in Writer : WriteBlock(w)
        BY Zenon, <3>1, <4>3, IndexOutside, IndexEnter, IndexUpdate, IndexPut, IndexCommit DEF WriteBlock
      <4> QED
        BY Zenon, <3>1, <4>1, <4>2, <4>3 DEF Next
    <3> QED
      BY Zenon, <2>1, <3>2, <3>3 DEF HistoryInv
  <2> QED
    BY Zenon, <2>2, <2>3
<1>3. HistoryInv => IntactUntilCrash
  <2> SUFFICES ASSUME ForkInv, CanonInv, IndexInv
               PROVE  CanonicalChain /\ TipsAreLeaves /\ StateAvailable
    BY Zenon DEF HistoryInv, IntactUntilCrash
  <2>1. CanonicalChain
    BY Zenon, CanonQuiet
  <2>2. Quiet => mode = "up" /\ \A w \in Writer : lock # w
    BY Zenon, BlockFacts DEF Quiet
  <2> QED
    BY Zenon, <2>1, <2>2 DEF IndexInv, Tip, TipsAreLeaves, StateAvailable
<1> QED
  BY <1>1, <1>2, <1>3, PTL DEF HistorySpec
=============================================================================

# A verification development for the go-seele node

This directory holds TLA+ models of the Go code of the node and of the C library that makes and
checks its signatures, the TLC configurations that check them on small instances, and TLAPS proofs
of the results that matter most.
`PROJECT.json` maps every definition to the lines it models, and lists runs, mutants,
findings, hazards and theorems.

Contents: 1 the system and its parts; 2 the block chain; 3 account state, block assembly and
the trie; 4 the miner; 5 the downloader; 6 the signature library; 7 what is proved; 8 where the code
departs from what one would expect; 9 what is not modelled, and why.

## 1. The system and its parts

A node is one process. It keeps a tree of blocks in a key-value store and account states
in a second one, collects transactions, mines, synchronises with its peers over TCP and
finds them over UDP. The parts, with the state each keeps and what makes it hard:

| part (package) | state | operations | what is hard about it | module |
|---|---|---|---|---|
| block chain (`core`, `core/store`) | stored blocks, total difficulties, height-to-hash mapping, HEAD; leaves and header chain in memory; committed state roots | `WriteBlock`, `NewBlockchain`, genesis set-up, readers | callers from several goroutines; several database writes per block and no transaction around them; crashes; readers without the lock | `Chain` |
| account state (`core/state`) | trie, cache of state objects, dirty flags | get, set, commit, copy | a bounded cache that commits and evicts in the middle of reads; copies that share objects | `Statedb` |
| pool and blocks (`core/tx_pool.go`, `miner/task.go`, `updateStateDB`) | two maps of transactions, the miner's block | add, remove, list; apply, seal, verify | the miner and `WriteBlock` must compute the same state; the two maps must agree | `BlockAssembly` |
| miner (`miner`) | flags, current task, stop and result channels | start, stop, callbacks, workers, saving | flags that callbacks, workers and the user change at once | `Miner`, `NonceSearch`, `NonceLoop` |
| downloader (`seele/download`) | sync status, task manager, peer connections | synchronise, fetch, deliver, cancel | answers that race registrations, connections that are closed or replaced, blocks out of order | `Downloader` |
| protocol (`seele`) | peers, chain heads, known transactions, sync channel | message handlers, broadcasts | a channel closed by one goroutine and used by another | answers only |
| transport (`p2p`) | peers, connections | connect, read and ping loops, stop | goroutines that wait for each other | no |
| discovery (`p2p/discovery`) | routing table, pending requests, node database | ping, find, expire | one loop that feeds its own channel | no |
| state trie (`trie`) | nodes in memory, nodes in the database | put, get, delete, commit, open | nodes changed in place, loaded on demand and skipped while clean; every node of the network must get the same root | `Trie` |
| merkle tree (`merkle`) | leaves and nodes | root of a block's transactions | odd numbers of leaves | `Merkle` |
| events, life cycle (`event`, `node`) | listeners; services | fire; start, stop, restart | callbacks under a lock; partial start | no |
| EVM (`core/vm`, `contract`) | machine state | execution | taken over from go-ethereum | no |
| signature library (`crypto/secp256k1/libsecp256k1`), in C: | | | | |
| - field (`field_10x26_impl.h`, `field_impl.h`) | ten words of 26 bits | add, multiply, normalize, invert | limbs that carry an excess from call to call; carries; hand-written chains of squarings | `FieldElement`, `FieldCalls`, `FieldLimbs`, `AdditionChains` |
| - scalars (`scalar_8x32_impl.h`, `scalar_impl.h`) | eight words of 32 bits | add, multiply, reduce, shift | carries in an accumulator of three words | `ScalarLimbs`, `AdditionChains` |
| - points (`group_impl.h`, `ecmult*_impl.h`) | affine and Jacobian points, tables, blinding | add, double, multiply | formulas with exceptional cases; digit forms of scalars | `Group`, `Ecmult`, `PointCalls` |
| - keys and signatures (`eckey_impl.h`, `ecdsa_impl.h`, `secp256k1.c`, `modules`, `ext.h`) | context, opaque objects | create, tweak, sign, verify, recover | failed calls; numbers between the order and the field's prime | `Ecdsa`, `Secp256k1`, `IdealEcdsa` |
| - encodings (`ecdsa_impl.h`, `contrib`) | none | parse, serialize, export, import | lengths in several forms | `Der` |
| - hashing (`hash_impl.h`, nonce function) | a block, a generator | write, finalize, generate | boundaries of blocks; a generator that renews its key late | `Hash` |
| tools (`cmd`, `rpc`, `monitor`, `log`, `common`) | configuration, keys | | I/O | no |

The parts meet in `WriteBlock`: the downloader, the handler of peers' blocks and the miner all
call it from goroutines of their own. The miner and the downloader also meet in the download
events, which forbid and allow mining. The signature library is called through `ext.h` and the
interface of `secp256k1.c` when transactions and messages of the discovery are signed or checked;
it keeps no state but its context, so its models share none with the others.

## 2. The block chain

### Modules

`Chain` models `core/blockchain.go`, `block_index.go`, `headerchain.go`, `genesis.go` and the
part of `core/store` they use. Its constants describe a finite universe of blocks (parent,
height, difficulty, state root) and which of them pass the checks that depend on the block
alone (`Valid`). Its variables are in two groups: what is on disk (`stored`, `td`, `canon`,
`head`, `stateDB`) and what is in memory (`leaves`, `best`, `curHeader`, the lock, and for every
goroutine in `WriteBlock` where it is and its locals). A crash clears the second group.

Every database write is one action, because the process can die, the write can fail or a reader
can look between any two: `DeleteBlockHash` and `PutBlockHash` are single turns of the loops
of `updateHashByHeight`, `PutBlock` is the batch of `putBlockInternal`, `CommitState` the last one.
`Enter` takes the lock, validates, and updates leaves and header chain, which no other goroutine
can see in between; `CheckExists` is apart from it because it runs without the lock.

`HeaviestChain` is the promise: a tree that grows by blocks whose parents are in it, and a head
that moves exactly when a strictly heavier block arrives. `ChainInv` has the inductive
invariants, `ChainProofs` the proofs, `MCChain` two block trees.
`ChainHistory` adds a variable that remembers whether the process has crashed, for what only holds
as long as it has not; `MCChainCrash` is its instance.

### Runs

| run | specification | checks |
|---|---|---|
| chain_crash | two writers, crashes, restarts | `IntactUntilCrash`: until the first crash, between writes the height mapping is HEAD's chain, the leaves in memory include the tips of the stored tree and every stored block has its account state; always `HeadHeaviest`, `CurrentBlockIsHead`, `ReadersFindBlocks` (lock-free readers never meet a gap, in the middle of a reorganisation either), `RefinesHeaviestChain` |
| chain_faults | two writers, failing writes, crashes during start-up, unequal difficulties, fairness | `StoredTree`: whatever write fails, every stored block but genesis has its parent in the store, one below it, with its account state, and carries the total difficulty of its chain; `HeadOnlyGetsHeavier`; `WriteBlockReturns` |
| chain_weights | unequal difficulties | a violation: `CurrentBlockIsHead` |

Bounds. The uniform tree has two chains of three blocks, a block of a wrong height, an orphan and
one with an invalid transaction: the loops of `updateHashByHeight` then run zero, one and several
times, ties occur, and the head can change sides twice. The tree of unequal difficulties has one
heavy block against three light ones, the smallest case in which mappings are deleted and then
missing, and a branch of middling weight that replaces a mapping. A crash that ends a running call
is left to chain_crash. Two writers are enough for every pair of calls to overlap; the proofs have any number.

Fairness. `WriteBlockReturns` assumes that a running goroutine goes on (weak fairness of its steps)
and that a goroutine that waits for the mutex gets it if it is free again and again (strong
fairness), which Go's mutex guarantees by its starvation mode.

## 3. Account state, block assembly and the trie

`StateObjects` has the operations of `Statedb` as functions of a state: a heap of state objects and
a Statedb that points to them, so that two copies can share an object. `Statedb` is the state
machine of one Statedb with a bounded cache; `AccountMap` is its promise, a plain map of accounts
with `Save` and `Open`. Accounts have a nonce, an amount and possibly code.

`BlockAssembly` uses the same operations for HEAD's Statedb, the miner's copy of it and the one
`WriteBlock` opens, next to the transaction pool. No lock keeps the pool and the RPC calls from
reading HEAD's Statedb while `applyTransactions` runs, and the copy shares its objects: so the miner
takes one step for each call it makes of the copy (the reward, and for every transaction
validation, nonce, transfer and commit), and `Validate` of the pool and `GetBalance` come between any
two of them. Such a read can find HEAD's cache full and commit it with half of the miner's
changes in it; it clears the dirty flags that the copy needs, and the history variable `spoiled` notes
that. Execution of contracts is left out: transactions are transfers.

`Trie` models `trie/trie.go`, on which `Statedb` builds: `insert`, `delete`, `get`, `hash` and
`decodeNode` are recursive operators on trees of leaf, extend, branch and hash nodes, and `Put`,
`Delete`, `Get`, `Commit`, `NewTrie` (`Open`) and `ShallowCopyTrie` are actions. The code changes nodes
in place; the operators return what the place holds afterwards, also when there is an error, and a
clean node keeps the hash it had, so that a change that is not marked would be lost here as well.
A hash is the node it stands for. During any operation the database may fail to answer.

`Merkle` models `merkle/merkle_tree.go`, the tree over a block's transactions, with hashes that do not
collide either: `NewTree`, `RebuildTree` and `RebuildTreeWith` are actions. `Statedb`, `Trie` and
`Merkle` are checked apart from each other in one run: a behaviour of `MCState` is one of the three.

| run | checks |
|---|---|
| state | account state: `TypeOK`; `CleanIsStored`: what is not dirty is in the trie; `RefinesAccountMap`: reads, changes, evictions and commits in any order look like a map. Trie: `TrieIsMap`: a map through splits, merges, loading and commits; `CommittedReadable`: a root that `Commit` returned keeps leading to what the trie held, whatever reads fail later; `RootIsContents`: without deletions the root depends on the contents only. Merkle tree: `RootTellsContents`: two lists of transactions have one root exactly when they are the same up to a repetition at the end, a tree that is rebuilt keeps its root, and searching agrees with the list |
| assembly | `SupplyConserved`; `NonceCountsSent`; `MinedBlockAccepted`: what the miner seals on HEAD `WriteBlock` accepts, whatever is read meanwhile, unless a read has `spoiled` it; `PoolConsistent` |
| assembly_stop | a violation: `MinedBlockAccepted` once mining can be stopped and started |

Bounds. For the account state three accounts and a cache of two force evictions by every operation;
symmetry of accounts is used. Nibbles of the trie are bits and there are four keys, of one and two bytes:
branch nodes below branch and extend nodes, a key that ends where another goes on, and extend nodes
cut at their start and at their end all occur. One key takes two values, one of them empty. The second
commit is the last step of a history: it is the first that meets nodes that are clean, loaded or
changed. Five transactions are the first number with a copied leaf and, two levels up, a node that is
its own pair; they are any of three contents, so that lists with repetitions occur.

The assembly has four accounts and caches of two, so that the caches of HEAD, of the miner and of
`WriteBlock` all evict, and three transactions: two of one account and nonce, of which one spends a reward
and one sends nothing, perhaps before its account exists. A pool of two, and two blocks: the second is
the first that is built on a state that another `WriteBlock` left behind. RPC calls ask for one
account (`Asked`); the pool reads the two senders. Blocks of other nodes hold at most one
transaction. The proofs have no such bounds.

## 4. The miner

`Miner` models `miner/miner.go` and the control of `miner/core.go` at the grain of single atomic
loads, stores, compare-and-swaps and channel operations: callers of `Start` and `Stop` (the RPC
service), the callbacks of new transactions and of the downloader, the `waitBlock` goroutines and
the workers. Tasks are told apart as the current one and former ones; `MaxFormer` says how many
workers of former tasks are kept, any of them. `NonceSearch` has the arithmetic that `Miner` leaves out:
how `commitTask` divides the nonces, and the order in which `StartMining` tries those of a worker.
`NonceLoop` is the loop of one worker whose range has no good nonce.

| run | checks |
|---|---|
| miner | `ResultsReceived`: the channel of results is emptied again unless the miner is being stopped or has no receiver; `CallbacksReturn`; `WorkersShareOut`: whenever a task is committed, the ranges of its workers follow one another and make up all nonces, and a worker keeps to its range, tries none of it twice in a round and comes to every nonce but perhaps the least |
| miner_stall | a violation: `StartStarts`: when `Start` returns without an error, somebody is at work on a block |
| nonce_range | a violation: `NoncesTraversed`: a worker that reports that its range has no nonce has tried those below its seed |

Bounds. One goroutine that calls `Start` or `Stop` or runs a callback, again and again, one
`waitBlock` goroutine and one worker per task; the violation of `StartStarts` has two `waitBlock`
goroutines and no events, so that only the user's own calls lead to it. Nonces are below 12, shared by
up to five workers, with every seed.
Fairness: every goroutine that can take a step eventually does; callers and faults are free.

## 5. The downloader

`Downloader` models one session: the caller in `Synchronise` and `doSynchronise` with the search
for the common ancestor, one `peerDownload` routine per connection, the task manager they share, its
`run` goroutine, the answers on their way, and `Cancel`. Every operation
under the task manager's lock is one step. A request puts the answer that `handleMsg` of the other
node gives into the connection's queue; `waitMsg` registers in a step of its own, because the request has
gone out by then. Blocks and headers are their heights; `Same` says up to which height a peer's
chain is the master's.

Peers leave and come back. A peer is its `peerID`, and `d.peers` has one connection for it: a new
connection takes the place of one that is still open (`conn` says "replaced"), while tasks and headers go
on belonging to the `peerID`. `doubled` remembers which peers have been connected twice at a time. Their
answers may reach the routine of the other connection, so `TasksAreHeld` leaves them out.

| run | checks |
|---|---|
| downloader | `TasksAreHeld`: a block marked as downloading has a routine of its peer that works on it; `WritesInOrder`; `DoneMeansWritten`; `SessionEnds`: a session ends, unless it is in one of four cases |

The four cases are ways in which the present code waits for ever; each is a definition that says
exactly when:

- `Starved`: `waitMsg` waits for an answer that does not come, because it came before the channel was
  registered, the peer lacks a height it was asked for, or another connection has replaced this one;
- `Orphaned`: a task of a peer that was connected twice is marked as downloading and nobody fetches it;
- `MasterMissed`: the master left between the search for the ancestor and the start of the routines
  (downloader.go:166), so that no routine fetches headers and none cancels;
- `LockedOut`: a peer registered between the first wait for the routines and the second one
  (downloader.go:176-179); `Synchronise` makes the second with `d.lock` held (133-135), and its
  routine needs that lock for its answers and for `Cancel`.

Bounds. A master that may come back on a second connection, before or after the first is closed, and a
second peer that agrees with it on one of two blocks and registers at any
moment, two connections of the three in a session (`MaxConn`); three local chains, so that the search
finds an ancestor at once, in the first answer, or not at all. Two blocks and two peers are
the smallest case in which blocks arrive out of order and a task changes hands. The proofs have any
number of peers, connections and blocks.
Fairness: goroutines run, timers fire, an answer that was sent arrives. That peers stay, that
sends succeed and that `WriteBlock` accepts is not assumed.

## 6. The signature library

The library computes with numbers of 256 bits. Its models keep the algorithms and make the numbers
small: the widths of words, limbs and bytes, the primes and the windows are constants. They follow
the build the node uses (`secp256.go`: limbs of 26 bits, words of 32 bits, no GMP, no assembly, no
endomorphism, `USE_FIELD_INV_BUILTIN`, `USE_SCALAR_INV_BUILTIN`). They are in two layers.

The lower layer, run `limbs`, has machine words. `FieldLimbs` has every function of
`field_10x26_impl.h` on limbs that wrap at the width of their words, with accumulators that wrap at
theirs; `FieldElement` is what each function promises: a number modulo p, a magnitude (how much
excess the limbs may carry) and whether it is normalized. `FieldCalls` is a caller with two elements
that makes any sequence of calls that the `VERIFY_CHECK`s allow; it is instantiated with both, and
`RefinesFieldElement` says that the first implements the second. `ScalarLimbs` has the words of
`scalar_8x32_impl.h` with the macros of its three-word accumulator. `AdditionChains` runs inversion
and square root on exponents, the real ones of 256 bits, as residues modulo primes whose product is
larger. `Der` has the strict parser and serializer of signatures and the lenient ones of `contrib`.
`Hash` has SHA-256 around an abstract transformation, HMAC, the generator of RFC 6979 and the nonce
function. These parts share no state, so a behaviour of `MCLimbs` runs one of them.

The upper layer, run `curve`, has numbers. `Group` has the formulas for points on top of `FieldElement`,
which also checks the magnitudes on the way (an element that breaks its limit becomes `Misused`, from
which no equation of the properties holds); `Ecmult` the tables, digit forms and the three
multiplications with blinding; `Ecdsa` keys and signatures. `PointCalls` is a caller of the group,
`Secp256k1` a caller of the whole interface with a context and one object of each type.
`IdealEcdsa` is the promise of `include/secp256k1.h` over an ideal group, in which a public key is
the number of its secret key.

| run | checks |
|---|---|
| limbs | `Verified`: all limbs keep to the limits `fe_verify` checks; `RefinesFieldElement`; `ScalarsExact`: words compute modulo n and stay below it; `ChainsReachTheirExponent`: p - 2, (p + 1) / 4, n - 2; `DerParsersAgree`: what the strict parser accepts is what the serializer writes and what the lax parser reads too; `ExportedKeysImport`; `PiecesHashAsAWhole`: cutting the data differently, or another content of the buffer before, does not change the digest; `NoncesFollowRfc6979`, and different arguments of the nonce function give different key data (the comment in `nonce_function_rfc6979`) |
| curve | `PointsFollowTheGroupLaw`: any sequence of additions, doublings, conversions and multiplications, with any blinding, gives the point of the group law; `PredicatesAgree`; `BlindingCancels`; `SignaturesVerify`; `RefinesIdealEcdsa`: every call gives the result, the output and the refusal that the ideal interface gives, and failed calls clear their outputs |

Bounds. Field elements have four limbs of 7 bits (the last of 6) in words of 11 bits, p = 2^27 - 135,
and accumulators of 23 bits; the code has the same parts between the first and the last limb, only
more of them. These numbers stand to each other as those of the code do: the largest magnitude just
fits a word, a column of products of the largest magnitudes that may be multiplied just fits an
accumulator, and the first two limbs of p differ from the others. The numbers given to elements
surround p and 2^27. Five calls build magnitudes to the limit, reduce, and compare. Scalars have four
words of 3 bits and n = 4013, so that the three rounds of `reduce_512` all have work to do. DER has
bytes of 5 bits, so that lengths from 16 on need a long form; inputs combine fifteen bodies of
integers, short and long lengths, wrong tags, and trailing and missing bytes. Blocks have 8 bytes, digests 4 and
lengths 2: padding meets every boundary. The curve is y^2 = x^3 + 7 over the field of 43 elements with
31 points, seven of them with an x between order and prime, and, as on the real curve, cube roots of
one, which the exceptional case of the addition needs. Four calls on points, or two calls that change
objects and a query, with keys, messages, tweaks and nonces that overflow, vanish or cancel.

## 7. What is proved

The block chain. For every tree of blocks, every number of writers and every height, from the
assumptions named in `Chain` (blocks have parents of type Block, heights and difficulties are
numbers) and, except for `TypeCorrect` and `StoreIsTree`, `UniformDifficulty`: all blocks but genesis have one
difficulty, which is what `prepareNewBlock` sets. The violation chain_weights shows why it is
needed.

| theorem | module | says |
|---|---|---|
| `TypeCorrect` | `ChainProofs` | types, with crashes or database errors |
| `StoreIsTree` | `ChainProofs` | `StoredTree`, with crashes or database errors |
| `ForkChoice`, `CurrentBlock`, `ReadersServed`, `HeadGrows` | `ChainProofs` | `HeadHeaviest`, `CurrentBlockIsHead`, `ReadersFindBlocks`, `HeadOnlyGetsHeavier`, with crashes and restarts |
| `Refinement` | `ChainProofs` | the stored tree and HEAD implement `HeaviestChain` |
| `CanonicalMapping` | `ChainProofs` | `CanonicalChain`, as long as the process lives |
| `IntactWhileAlive` | `ChainProofs` | `IntactUntilCrash`: the same with crashes, until the first one, and so for the leaves and the account states |

The argument. `ForkInv` says that the lock has one owner; that the store is a tree in which every
block carries its parent's weight plus its own; that weight and height order blocks alike; what the
writer that holds the lock knows of its block (`PendingInv`: it is attached, and `isHead` was
computed for the present HEAD, which nobody else can move); and that the best leaf is HEAD or the
block about to become HEAD. `HeadHeaviest` is not inductive without `PendingInv`, which in turn
needs `LeafInv`: `isHead` is decided by comparing with the leaves, not with HEAD.
`ReadersFindBlocks` stays true through a reorganisation because, with a uniform difficulty, the new
head is one higher than the old one, so that nothing below is deleted. `CanonInv` adds the shape of
the mapping while it is rewritten from the top down: the new chain above the cursor, the old one
below. It does not survive a crash, and neither does `CanonicalChain`.
`StoreIsTree` needs less: a block that has passed the checks keeps its place in the tree (`TreeInv`),
because nothing is ever taken from the databases but height mappings.
There is one lemma per action under the lock and one for the steps outside of it. `IntactUntilCrash`
holds between two writes only; `IndexInv` (in `ChainHistory`) says what the writer that holds the lock may have left open: its own block may lack its account state, and
the parent of its block may be a tip that is no leaf any more, because the leaves change before the
block is stored.

The account state. For all sets of accounts and every capacity of the cache that `CacheAssumption`
allows (at least one entry is evicted, and not more than there are), `StatedbProofs` shows:

| theorem | says |
|---|---|
| `CacheTransparent` | `RefinesAccountMap`: `Statedb` implements `AccountMap` |
| `CleanObjectsStored` | `CleanIsStored` |
| `StatedbTypes` | `TypeOK`, which includes that the order of use lists exactly the accounts in the cache |

The argument. What a Statedb shows for an account is the object that the cache points to or, without
one, the trie (`Shown`). `StateInv` says that the pointers of the cache are injective and lead to
objects of their own account (`Sound`), that a clean object equals the trie, that the order of use
lists each cached account once (`Ordered`), and that what was committed can be opened. Then
committing changes the trie under the objects but not what is shown (`CommitSound`); only then may
the oldest objects be forgotten (`EvictSound`), which is the order `cache` has them in; adding an
object shows what it was made from (`AddSound`). Each operation is a composition of these, and
changes what is shown of one account at most (`Changes`). The lemmas about the operations are in
`StateObjectsProofs`, because block assembly rests on them too.

The pool and the blocks. For any accounts, transactions, balances, reward, coinbases, capacities of
cache and pool (`CacheAssumption`, `PoolAssumption`, `AssemblyAssumption`) and any number of blocks of
our own and of other nodes, `AssemblyProofs` shows:

| theorem | says |
|---|---|
| `SupplyIsConserved` | `SupplyConserved`, with Stop and without |
| `NoncesCountSent` | `NonceCountsSent`, with Stop and without |
| `MinedBlocksAccepted` | `MinedBlockAccepted`, without Stop and whatever is read of HEAD between the miner's calls; with Stop the run assembly_stop has a counterexample |
| `PoolMapsAgree` | `PoolConsistent`, with Stop and without |

The argument. A Statedb is followed through the map of accounts that it shows. `Rewarded` and `Move` are
what a reward and a transaction do to a map, and `Leads(m, txs, n)` says that the transactions are
valid one after the other and lead from m to n. By induction over the transactions, `updateStateDB`
accepts exactly the transactions that lead somewhere, and shows where (`VerifyShows`,
`VerifyAccepts`). The miner is followed step by step: `CountShows` and `CallShows` say what the two halves
of a transaction do to the map of its copy. The two work on different Statedbs with different caches,
which evict at different moments; this is why they are compared through the map. `MoveTotal` and
`RewardTotal` say what happens to the sum of the balances, a sum over a finite set in an order that is
not known (`TotalChanges`), and `LeadsCounted` what happens to the nonces.

Two invariants put this together. `LedgerInv` holds with Stop: HEAD's root has the right sum and the
right nonces, and the live Statedbs are `Formed` (pointers lead to objects of their own account, and
so on), though not that they show HEAD's accounts, since an unfinished or abandoned block leaves its
changes in shared objects. It is enough because `WriteBlock` starts from the root, not from HEAD's
Statedb; what is needed is that no operation on one Statedb harms the objects of another (`Apart`).

`MinedInv` holds without Stop only. `refused` cannot be excluded from the present state of the chain
alone. As long as nothing is spoiled: while the miner does not work on HEAD, HEAD's Statedb shows
what its root has (`Mirrors`); while it does, the transactions sealed so far lead from HEAD's root
and the reward to what the copy shows, but for the part of the current transaction that is done
(`Halfway`, by the place of `applyTransactions`); a block sealed on HEAD leads from HEAD's root to the
root in its header. A miner that works on a former HEAD shares no object with the present one. Reads
of HEAD are the hard case: one that evicts without having cleared a dirty flag leaves every object
of the copy as it was (`SameObjects`, `SameHalfway`), and one that has cleared a flag has spoiled the block.

For the pool, `PoolConsistent` is inductive once the types of the maps are added (`PoolInv`). The case
that matters is two transactions of one account and nonce: the second replaces the first in the
collection and not in `hashToTxMap`, and removing either clears the entry, so that an entry never
outlives its transaction.

The miner. For every largest nonce and any numbers of processors and of threads asked for that do not
exceed it (`NonceAssumption`, `RangesAssumption`), `MinerProofs` shows:

| theorem | says |
|---|---|
| `WorkersShare` | the arithmetic of `NonceSearch`, for every number of workers and every seed |
| `RangesAreShared` | `WorkersShareOut`, whatever callers, callbacks and workers do, and whatever fails |

The argument. `Tries(w, k)` is the nonce that a worker tries after k others, in closed form: up from its
seed to the end of its range, then up from just above the least nonce of the range. One step of
`StartMining` leads from each to the next (`TriesNext`), so the loop runs through them (`TriedAre`, by
induction). `seed - 1`, where the loop ends, wraps to the greatest nonce for the seed 0 (`BeforeSeed`).
That each range begins where the one before it ends, and that the last one reaches the greatest
nonce, rests on the product of step and worker (`Multiples`, `Widths`). The invariant of the miner that
is needed is that `threads` is never more than there are nonces (`ThreadsInv`).

The downloader. For any set of peers, any chains and any limits on what is asked for at once,
`DownloaderProofs` shows, with peers that come and go, answers cut short, dropped or missed, cancelled
sessions and refused blocks:

| theorem | says |
|---|---|
| `DownloadingIsHeld` | `TasksAreHeld` |
| `BlocksWrittenInOrder` | `WritesInOrder` |
| `SuccessMeansWritten` | `DoneMeansWritten` |

The argument. `SessionInv` (in `DownloaderRoutineProofs`) relates the four actors. `RunInv`: until a
write fails, curNo is just past what has been written and what `run()` has in its hands, all of it
downloaded; so `isDone` means written once `run()` has ended, which `ResultInv` says of a session
that succeeded. `HeldInv` is `TasksAreHeld` with the type of the peer; a routine lets go of its
tasks in two places. `onPeerQuit` gives all tasks of its `peerID` back, those of another routine of the
same peer included. When blocks arrive, the routine goes on to
its loop and must have no task left: `AnswersInv` says that the answers on their way on the only open
connection of a peer are those to the last request of its routine and that, once the announcement (`Pre`)
has been handled, every task of the peer is among the blocks that follow, unless a routine of a former
connection is about to give them back. `ConnInv` says that a peer that was never doubled has one open
connection at most; routines of closed ones may still run. `PrepareInv` keeps the answers to the caller's
own requests apart from these: all have arrived before the routines are started. One lemma per action;
those of the routines and of messages to them are in `DownloaderRoutineProofs`. What `run()` takes
is a stretch of heights from curNo on, and `StretchIsInterval` gives its end from its cardinality.

The field. For every number and width of limbs, every prime of the form the code uses and every
magnitude limit that satisfy `LayoutAssumption` (the limbs of the largest magnitude fit a word; the
largest multiple of p that a negation adds exceeds them; the code's numbers do: 2 * 32 * (2^26 - 1) <
2^32, 32 * 0x3D1 <= 2^26, 32 * 2^6 < 2^26), `FieldLimbsProofs` shows:

| theorem | says |
|---|---|
| `AddIsExact`, `MulIntIsExact` | within the largest magnitude no word of `fe_add` and `fe_mul_int` wraps, and the result keeps to its magnitude |
| `NegateIsExact` | no limb of `fe_negate` borrows, and the result keeps to magnitude m + 1 |
| `LimbwiseCallsVerify` | `Verified`, for all sequences of the calls that work limb by limb and those that only look |

What `fe_verify` checks is not inductive: a normalized element of magnitude 0 may have any limbs below
the limit, and a sum with it has a magnitude that its limbs exceed. `Within` says that limbs keep to
the magnitude in any case; it is inductive and implies `FeVerify` (`WithinVerifies`). The theorem
covers the calls between two reductions; the reductions themselves, and products, are left to TLC.

Only model-checked: all liveness, and everything in sections 3 to 6 but the theorems above. Liveness
under fairness is out of the prover's reach. So are the induction theorems of the library, which have
an operator as a parameter; `Least` and `Induct` in `AssemblyProofs` take a set in its place, from the
well-foundedness of the natural numbers, and that is how the loops over the transactions are reasoned
about, and in `MinerProofs` those over the nonces. The same is not to be had for recursive operators,
which the prover does not support: what those of `Trie`, `Merkle`, `Ecmult`, `ScalarLimbs`, `Der` and
`Hash` compute is left to TLC, and with it everything that rests on them.

## 8. Where the code departs from what one would expect

Four are runs that end in a violation, with the comment they contradict under findings in
`PROJECT.json`: a light chain that overtakes a heavy one makes `CurrentBlock` return a block that is
not stored; a block prepared after Stop and Start on the same HEAD is refused; after Start, Stop,
Start nobody mines; a worker skips the least nonce of its range after its wrap-around. The
others were met while modelling. The steps that lead to them are in the models, and the properties above are stated so that they hold in spite of them:

- chain: a failed database write leaves its block among the leaves (blockchain.go:216), and a later,
  heavier block is then not made HEAD; a crash between `PutBlock` and the commit of the state
  (232) leaves a HEAD without account state, and `NewBlockchain` fails from then on; a crash inside the
  second loop of `updateHashByHeight` leaves entries of the old chain (374); two writers of one
  block both pass `HasBlock` (157); a block of a side chain moves the header chain.
- account state: `GetCopy` shares the objects (statedb.go:61), so that `CurrentState` shows the
  miner's unfinished block; a read of it that finds the cache full commits the miner's changes
  (statedb.go:162) and clears their dirty flags, so that the miner's own commit leaves them out and
  its block is refused (`spoiled`); `Commit` without a batch panics when there is new code
  (stateobject.go:132, called so in evm.go:64).
- trie: an extend node drops the error of an insertion below it (trie.go:225) and takes the nil that
  comes with it as its next node, so that a `Put` during a failed read reports success and cuts off
  a subtree; `commitOne` drops the error of `Put` in any case (statedb.go:150). `Delete` reports such
  errors as a missing key, and leaves shapes that insertions do not make, so that equal contents
  can have two roots; nothing in the node deletes.
- blocks: an account that does not exist may send a transaction without an amount (`Validate` reads
  its balance and nonce as zero), and `SetNonce` does nothing for it (statedb.go:123), so that its
  nonce does not count it.
- pool: transactions in blocks of other nodes stay in the pool; those of a block that is not
  written are lost (task.go:40); a transaction replaced by one of the same account and nonce stays in
  `hashToTxMap` (tx_collection.go:25).
- miner: a transaction event before the first Start sets `mining` without a `waitBlock` goroutine;
  a worker of a former task may store `isNonceFound` late and end the new workers; a block that is not
  saved leaves `mining` set; `Stop` blocks when too few goroutines receive; download events may be
  handled out of order and leave `canStart` at 0; the search for a nonce does not end if the seed is
  `min`.
- downloader: nothing asks again for an answer that was dropped; the four cases of section 5 in which a
  session does not end; a second connection of a peer replaces the first while the routine of
  the first goes on, and the first to close removes whichever is in `d.peers`; when
  `WriteBlock` refuses the last block, `curNo` has passed it and the session counts as done.

## 9. What is not modelled, and why

The C library. Other builds (limbs of 52 and words of 64 bits, assembly, GMP, the endomorphism, the
Java bindings) are not what the node compiles. Benchmarks, test programs and the generator of static
tables are no part of the node. The 64 rounds of SHA-256 are a fixed function without control. That
constant-time functions take constant time is not a property of values. NULL pointers and a failing
`malloc` end in callbacks that abort or panic.

The Go side. RPC, command line, monitor, log and key files are I/O and conversions. The EVM is an
interpreter taken over from go-ethereum: a model would be the interpreter again. Of these parts other
models use only what is said here:

- transport: messages of a connection arrive in order, or the peer is gone. Not modelled is how its
  goroutines end: `readLoop` can block on a protocol's channel whose handler has ended while `run`
  waits for it (p2p/peer.go:175), and a connection that finishes its handshake after the server's loop
  has left blocks on `addpeer` (p2p/server.go:320).
- protocol handlers: which peer is asked, and when, is free in `Downloader`. Not modelled: `Stop` closes
  `syncCh` while handlers may send on it (seeleprotocol.go:495), `resultCh` likewise (216); a
  transaction counts as known once its hash was announced, before it is received (296); at the limit
  a peer is dropped from the set while its handler goes on (peer_set.go:65).
- peer connections of the downloader: a message is received in the step that hands it over. The
  channel that `waitMsg` may have closed or left while `deliverMsg` sends on it (download/peer.go:79),
  and answers of a former session (download/taskMgr.go:297), need a model of more than one session.
- discovery: finds addresses only. Its callbacks feed the channel whose only reader runs them
  (udp.go:255).
- events: listeners run on goroutines of their own, in any order, which is how `Miner` has them.
- life cycle: one goroutine starts and stops services in order; `Stop` forgets them, so that
  `Restart` starts none (node/node.go:239).

These are left to properties that do not hold of the present code, and that no document of the
repository promises; a model of them would record defects rather than check a design. What would
extend the development most are proofs about the reductions and products of field elements.

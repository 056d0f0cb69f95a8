--------------------------- MODULE BlockAssembly ---------------------------
(***************************************************************************)
(* How transactions get into blocks: the pool validates them against the    *)
(* state of HEAD (core/tx_pool.go), the miner applies them to a copy of it   *)
(* and seals the root of the copy into a header (miner/task.go), and         *)
(* WriteBlock applies them to the parent's state again and compares roots    *)
(* (core/blockchain.go).  Blocks of other nodes move HEAD as well.           *)
(*                                                                         *)
(* The copy has HEAD's state objects, and no lock keeps the pool and the RPC *)
(* calls from reading HEAD while the miner changes them: the miner takes one *)
(* step for each of its calls of the copy, and reads of HEAD come between.   *)
(***************************************************************************)
EXTENDS StateObjects

CONSTANTS Tx, From, To, Amount, Nonce, \* transactions that are well formed and signed
          Capacity,                    \* TransactionPoolConfig.Capacity
          Coinbase, PeerCoinbase,      \* the creators of our blocks and of other nodes'
          Reward,                      \* what a creator earns
          Supply,                      \* the balances of the genesis state
          Asked,                       \* bound on the accounts that RPC calls ask for
          MaxHeight,                   \* bound on HEAD's height
          NoTx, NoTask

(* Capacity is a uint, and every transaction has a sender. *)
ASSUME PoolAssumption == Capacity \in Nat /\ From \in [Tx -> Account]

(* Validate refuses a negative amount, a nonce is a uint64 and an address an *)
(* array of bytes; the genesis balances and the reward are constants.        *)
ASSUME AssemblyAssumption ==
  /\ IsFiniteSet(Account) /\ Asked \cup {Coinbase, PeerCoinbase} \subseteq Account
  /\ To \in [Tx -> Account] /\ Amount \in [Tx -> Nat] /\ Nonce \in [Tx -> Nat]
  /\ Reward \in Nat /\ Supply \in [Account -> Nat]
  /\ NoTask \notin [height : Nat, txs : Seq(Tx), root : [Account -> Accounts \cup {NoAccount}]]

VARIABLES heap, head,      \* the live state objects; the Statedb of HEAD's block index
          root,            \* HEAD's state root: a trie that is in the database
          height,          \* HEAD's height
          onChain,         \* transactions of HEAD's chain, in order
          validated,       \* transactions between the two halves of AddTransaction
          hashToTxMap,     \* the transactions of the pool
          accountToTxsMap, \* the pool's txCollections: by account and nonce
          work,            \* applyTransactions: its copy, place and transactions, or NoWork
          task,            \* the block that the workers are sealing, or NoTask
          refused,         \* WriteBlock has refused a block of ours on HEAD
          spoiled          \* a read of HEAD has committed what the miner had changed

chain == <<heap, head, root, height, onChain>>
pool == <<validated, hashToTxMap, accountToTxsMap>>
marks == <<refused, spoiled>>
vars == <<chain, pool, work, task, marks>>

(* The places of applyTransactions, before each of its calls of the copy, are *)
(* "reward", "validate", "nonce", "call" and "commit".                       *)
NoWork == [at |-> "idle"]
Busy(w) == w.at # "idle"

Nonces == {Nonce[tx] : tx \in Tx}

GenesisTrie ==
  [a \in Account |-> IF Supply[a] = 0 THEN NoAccount ELSE [NewAccount EXCEPT !.amount = Supply[a]]]

Init ==
  /\ heap = <<>> /\ head = NewStatedb(GenesisTrie)
  /\ root = GenesisTrie /\ height = 0 /\ onChain = <<>>
  /\ validated = {} /\ hashToTxMap = {}
  /\ accountToTxsMap = [a \in Account |-> [n \in Nonces |-> NoTx]]
  /\ work = NoWork /\ task = NoTask /\ refused = FALSE /\ spoiled = FALSE

Reads(s, a) == GetStateObject(s, a)

(* Transaction.Validate, which also brings the sender's object into the cache. *)
Valid(s, tx) ==
  /\ Amount[tx] <= ReadAccount(s, From[tx]).amount
  /\ Nonce[tx] >= ReadAccount(s, From[tx]).nonce

(* processContract counts the transaction, if its sender exists. *)
CountNonce(s, tx) == SetNonce(s, From[tx], ReadAccount(s, From[tx]).nonce + 1)

(* evm.Call for a transfer: a recipient is created unless nothing is sent,   *)
(* the amount moves.  CanTransfer repeats a check of Validate.               *)
Call(s, tx) ==
  LET known == View(s.heap, s.db)[To[tx]] # NoAccount
  IN IF ~known /\ Amount[tx] = 0 THEN s
     ELSE AddBalance(AddBalance(GetOrNewStateObject(s, To[tx]), From[tx], -Amount[tx]),
                     To[tx], Amount[tx])

(* Mutants: the sender keeps the amount; the nonce stays. *)
ApplyTransactionFree(s, tx) ==
  AddBalance(GetOrNewStateObject(CountNonce(s, tx), To[tx]), To[tx], Amount[tx])
ApplyTransactionSameNonce(s, tx) == Call(s, tx)

(* ApplyTransaction, up to its Commit. *)
ApplyTransaction(s, tx) == Call(CountNonce(s, tx), tx)

ApplyReward(s, creator) == AddBalance(GetOrNewStateObject(s, creator), creator, Reward)

(* One round of updateStateDB: an invalid transaction refuses the block. *)
VerifyOne(acc, tx) ==
  LET r == Reads(acc.s, From[tx])
  IN [s |-> Commit(ApplyTransaction(r, tx)), ok |-> acc.ok /\ Valid(r, tx)]

(* Blockchain.updateStateDB *)
Verify(s, creator, txs) ==
  LET after[i \in 0 .. Len(txs)] ==
        IF i = 0 THEN [s |-> ApplyReward(s, creator), ok |-> TRUE]
        ELSE VerifyOne(after[i - 1], txs[i])
  IN after[Len(txs)]

(* The objects that HEAD's Statedb or the miner's copy points to. *)
Live(h, d, w) ==
  LET used == Cached(d) \cup (IF Busy(w) THEN Cached(w.db) ELSE {})
  IN [r \in DOMAIN h \cap used |-> h[r]]

(* A read of HEAD's Statedb.  When the account is not in a full cache, the   *)
(* cache is committed first, with what the miner has changed in it.          *)
ReadHead(s) ==
  /\ heap' = Live(s.heap, s.db, work) /\ head' = s.db
  /\ spoiled' = (spoiled \/ \E r \in Cached(head) : heap[r].dirty /\ ~s.heap[r].dirty)
  /\ UNCHANGED <<root, height, onChain, refused>>

(* GetBalance and GetAccountNonce of the RPC interface. *)
GetBalance(a) ==
  /\ ReadHead(Reads([heap |-> heap, db |-> head], a))
  /\ UNCHANGED <<pool, work, task>>

(* AddTransaction, before the lock: a valid transaction goes on to the pool. *)
Validate(tx) ==
  LET s == Reads([heap |-> heap, db |-> head], From[tx])
  IN /\ tx \notin validated \cup hashToTxMap
     /\ ReadHead(s)
     /\ validated' = IF Valid(s, tx) THEN validated \cup {tx} ELSE validated
     /\ UNCHANGED <<hashToTxMap, accountToTxsMap, work, task>>

(* AddTransaction, under the lock: a transaction of the same account and     *)
(* nonce is replaced in the collection, and stays in hashToTxMap.            *)
AddTransaction(tx) ==
  /\ tx \in validated /\ validated' = validated \ {tx}
  /\ IF tx \in hashToTxMap \/ Cardinality(hashToTxMap) >= Capacity
     THEN UNCHANGED <<hashToTxMap, accountToTxsMap>>
     ELSE /\ hashToTxMap' = hashToTxMap \cup {tx}
          /\ accountToTxsMap' = [accountToTxsMap EXCEPT ![From[tx]][Nonce[tx]] = tx]
  /\ UNCHANGED <<chain, work, task, marks>>

(* GetProcessableTransactions: accounts in any order, nonces ascending.  No   *)
(* transaction is listed twice, since its nonce is not below itself.          *)
Processable ==
  LET txs == (UNION {{accountToTxsMap[a][n] : n \in Nonces} : a \in Account}) \ {NoTx}
      grouped(q) ==
        \A i, j \in DOMAIN q : i < j /\ From[q[i]] = From[q[j]] =>
          Nonce[q[i]] < Nonce[q[j]] /\ \A k \in i .. j : From[q[k]] = From[q[i]]
  IN {q \in [1 .. Cardinality(txs) -> txs] : grouped(q)}

(* Mutant: the hash is forgotten, the collection keeps the transaction. *)
RemoveTransactionHashOnly(tx) ==
  hashToTxMap' = hashToTxMap \ {tx} /\ UNCHANGED accountToTxsMap

(* RemoveTransaction: what the collection has at the account and nonce goes. *)
RemoveTransaction(tx) ==
  IF tx \in hashToTxMap
  THEN /\ hashToTxMap' = hashToTxMap \ {tx}
       /\ accountToTxsMap' = [accountToTxsMap EXCEPT ![From[tx]][Nonce[tx]] = NoTx]
  ELSE UNCHANGED <<hashToTxMap, accountToTxsMap>>

(* Miner.prepareNewBlock reads HEAD and the pool.  GetCopy needs HEAD's trie *)
(* in the database; otherwise nothing is prepared.                           *)
PrepareNewBlock ==
  /\ ~Busy(work) /\ task = NoTask /\ height < MaxHeight
  /\ head.trie = root
  /\ \E q \in Processable :
       work' = [height |-> height, db |-> GetCopy(head), txs |-> q, sealed |-> <<>>, at |-> "reward"]
  /\ UNCHANGED <<chain, pool, task, marks>>

(* A step of applyTransactions that leaves the copy and the objects in s. *)
Copy == [heap |-> heap, db |-> work.db]
Continue(s, w) ==
  /\ work' = [w EXCEPT !.db = s.db] /\ heap' = Live(s.heap, head, work')
  /\ UNCHANGED <<validated, head, root, height, onChain, task, marks>>
At(at) == [work EXCEPT !.at = at]

TakeReward ==
  /\ work.at = "reward" /\ Continue(ApplyReward(Copy, Coinbase), At("validate"))
  /\ UNCHANGED <<hashToTxMap, accountToTxsMap>>

(* Mutant: the transaction is applied, valid or not. *)
ValidateNextAll ==
  /\ work.at = "validate" /\ work.txs # <<>>
  /\ RemoveTransaction(Head(work.txs))
  /\ Continue(Reads(Copy, From[Head(work.txs)]), At("nonce"))

(* RemoveTransaction, which touches the pool alone, and Validate: an invalid *)
(* transaction is left out.                                                  *)
ValidateNext ==
  /\ work.at = "validate" /\ work.txs # <<>>
  /\ RemoveTransaction(Head(work.txs))
  /\ \E s \in {Reads(Copy, From[Head(work.txs)])} :
       Continue(s, IF Valid(s, Head(work.txs)) THEN At("nonce")
                   ELSE [work EXCEPT !.txs = Tail(@)])

CountNext ==
  /\ work.at = "nonce" /\ Continue(CountNonce(Copy, Head(work.txs)), At("call"))
  /\ UNCHANGED <<hashToTxMap, accountToTxsMap>>

CallNext ==
  /\ work.at = "call" /\ Continue(Call(Copy, Head(work.txs)), At("commit"))
  /\ UNCHANGED <<hashToTxMap, accountToTxsMap>>

(* The Commit of processContract; the transaction belongs to the block. *)
CommitNext ==
  /\ work.at = "commit"
  /\ Continue(Commit(Copy), [At("validate") EXCEPT !.txs = Tail(@),
                                                  !.sealed = Append(@, Head(work.txs))])
  /\ UNCHANGED <<hashToTxMap, accountToTxsMap>>

(* The last Commit of applyTransactions, and commitTask. *)
Seal ==
  /\ work.at = "validate" /\ work.txs = <<>> /\ work' = NoWork
  /\ \E c \in {Commit(Copy)} :
       /\ task' = [height |-> work.height, txs |-> work.sealed, root |-> c.db.trie]
       /\ heap' = Live(c.heap, head, NoWork)
  /\ UNCHANGED <<pool, head, root, height, onChain, marks>>

(* applyTxs on HEAD's state, read from the database again, and its commit. *)
Result(creator, txs) ==
  LET v == Verify([heap |-> heap, db |-> NewStatedb(root)], creator, txs)
  IN [s |-> Commit(v.s), ok |-> v.ok]

NewHead(s, txs) ==
  /\ heap' = Live(s.heap, s.db, work) /\ head' = s.db /\ root' = s.db.trie
  /\ height' = height + 1 /\ onChain' = onChain \o txs
  /\ refused' = FALSE /\ spoiled' = FALSE

(* waitBlock gets the sealed block and saves it.  WriteBlock compares the    *)
(* root with the one in the header.  A block whose parent is no longer HEAD  *)
(* goes to a side chain.                                                     *)
SaveBlock ==
  /\ task # NoTask /\ task' = NoTask
  /\ \E r \in {Result(Coinbase, task.txs)} :
       IF task.height = height /\ r.ok /\ r.s.db.trie = task.root
       THEN NewHead(r.s, task.txs)
       ELSE /\ UNCHANGED <<chain, spoiled>>
            /\ refused' = (refused \/ task.height = height)
  /\ UNCHANGED <<pool, work>>

(* A block of another node on HEAD, with at most one transaction.            *)
NetworkBlock(txs) ==
  /\ height < MaxHeight
  /\ \E r \in {Result(PeerCoinbase, txs)} : r.ok /\ NewHead(r.s, txs)
  /\ UNCHANGED <<pool, work, task>>

(* Miner.Stop: the workers end and the task is forgotten. *)
Stop == task # NoTask /\ task' = NoTask /\ UNCHANGED <<chain, pool, work, marks>>

Next ==
  \/ \E tx \in Tx : Validate(tx) \/ AddTransaction(tx)
  \/ \E a \in Asked : GetBalance(a)
  \/ PrepareNewBlock
  \/ TakeReward \/ ValidateNext \/ CountNext \/ CallNext \/ CommitNext \/ Seal
  \/ SaveBlock
  \/ NetworkBlock(<<>>) \/ \E tx \in Tx : NetworkBlock(<<tx>>)

Spec == Init /\ [][Next]_vars
StopSpec == Init /\ [][Next \/ Stop]_vars
-----------------------------------------------------------------------------
Balances(m) == [a \in Account |-> IF m[a] = NoAccount THEN 0 ELSE m[a].amount]

Total(amounts) ==
  LET sum[S \in SUBSET Account] ==
        IF S = {} THEN 0 ELSE LET a == CHOOSE a \in S : TRUE IN amounts[a] + sum[S \ {a}]
  IN sum[Account]

(* No coin is made or lost: the balances of HEAD's state are those of genesis *)
(* and one reward for every block (updateStateDB, transferFunc).             *)
SupplyConserved == Total(Balances(root)) = Total(Supply) + height * Reward

(* The nonce of an account in HEAD's state is the number of its transactions *)
(* on the chain, so that two nodes with the same chain agree on it.  Only a   *)
(* transaction of amount zero may be missing: Validate lets an account that   *)
(* does not exist yet send it, and SetNonce then does nothing.                *)
NonceCountsSent ==
  \A a \in Account : root[a] # NoAccount =>
    LET sent == {i \in DOMAIN onChain : From[onChain[i]] = a}
        paid == {i \in sent : Amount[onChain[i]] > 0}
    IN root[a].nonce \in Cardinality(paid) .. Cardinality(sent)

(* What the miner seals on HEAD's state, WriteBlock accepts: whatever the    *)
(* pool and the RPC calls read meanwhile, and whatever the full caches of    *)
(* HEAD and of the copy evict, the root in the header is the one that        *)
(* updateStateDB computes.  The exception is a read of HEAD that commits its *)
(* full cache while the miner's changes are in it (spoiled): the flags are   *)
(* cleared for the copy as well, and its Commit leaves the changes out.      *)
(* ("GetCopy is a memory copy of state db", core/state/statedb.go:51.)       *)
MinedBlockAccepted == refused => spoiled

(* The two maps of the pool: what GetProcessableTransactions lists is in the *)
(* pool under its account and nonce, so that the miner is given no removed   *)
(* transaction again, and the pool never exceeds its capacity.               *)
PoolConsistent ==
  /\ Cardinality(hashToTxMap) <= Capacity
  /\ \A a \in Account, n \in Nonces :
       LET tx == accountToTxsMap[a][n]
       IN tx # NoTx => tx \in hashToTxMap /\ From[tx] = a /\ Nonce[tx] = n
=============================================================================

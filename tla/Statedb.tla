------------------------------ MODULE Statedb ------------------------------
(***************************************************************************)
(* core/state: a Statedb over the database of trie nodes, as the chain, the *)
(* pool, the miner and the RPC service use it.                              *)
(***************************************************************************)
EXTENDS StateObjects, FiniteSetsExt

CONSTANTS MaxChange,   \* bound on the nonces, balances and codes together
          MaxRoots     \* bound on the roots committed

VARIABLES heap,        \* state objects by pointer
          db,          \* the Statedb
          committed,   \* tries whose nodes are all in the database
          panicked     \* the process has died of a panic

vars == <<heap, db, committed, panicked>>

Now == [heap |-> heap, db |-> db]

(* Objects that the cache does not point to any more are gone. *)
Becomes(s) ==
  /\ db' = s.db
  /\ heap' = [r \in DOMAIN s.heap \cap Cached(s.db) |-> s.heap[r]]

Init ==
  /\ heap = <<>>
  /\ db = NewStatedb(EmptyTrie)
  /\ committed = {EmptyTrie}
  /\ panicked = FALSE

(* Caching one more object commits a full cache, without a batch. *)
CacheMissPanics(a) == db.cache[a] = Nil /\ CacheFull(Now) /\ CommitPanics(Now, FALSE)

(* An operation on account a: loads says that it caches an object on a miss. *)
Operate(a, loads, s) ==
  /\ ~panicked
  /\ IF loads /\ CacheMissPanics(a)
     THEN panicked' = TRUE /\ UNCHANGED <<heap, db>>
     ELSE Becomes(s) /\ UNCHANGED panicked
  /\ UNCHANGED committed

InTrie(a) == db.trie[a] # NoAccount

(* GetBalance, GetNonce, Exist, ... *)
DoRead(a) == Operate(a, InTrie(a), GetStateObject(Now, a))

DoGetOrNew(a) == Operate(a, TRUE, GetOrNewStateObject(Now, a))

Room ==
  LET weight(a) == LET v == ReadAccount(Now, a) IN v.amount + v.nonce + (IF v.code THEN 1 ELSE 0)
  IN MapThenSumSet(weight, Account) < MaxChange

DoAddBalance(a, n) ==
  /\ n > 0 => Room
  /\ Operate(a, InTrie(a), AddBalance(Now, a, n))

DoSetNonce(a) ==
  /\ Room
  /\ Operate(a, InTrie(a), SetNonce(Now, a, ReadAccount(Now, a).nonce + 1))

DoSetCode(a) ==
  /\ Room
  /\ Operate(a, InTrie(a), SetCode(Now, a))

(* Commit with a batch that is then committed, or without a batch, for the   *)
(* root hash alone.                                                          *)
DoCommit(batch) ==
  /\ ~panicked
  /\ batch => Cardinality(committed) < MaxRoots
  /\ IF CommitPanics(Now, batch)
     THEN panicked' = TRUE /\ UNCHANGED <<heap, db, committed>>
     ELSE /\ Becomes(Commit(Now))
          /\ committed' = IF batch THEN committed \cup {Commit(Now).db.trie} ELSE committed
          /\ UNCHANGED panicked

(* state.NewStatedb on a root in the database. *)
DoOpen ==
  /\ ~panicked
  /\ \E t \in committed : Becomes([heap |-> heap, db |-> NewStatedb(t)])
  /\ UNCHANGED <<committed, panicked>>

Next ==
  \/ \E a \in Account :
       \/ DoRead(a) \/ DoGetOrNew(a)
       \/ \E n \in {1, -1} : DoAddBalance(a, n)
       \/ DoSetNonce(a) \/ DoSetCode(a)
  \/ \E batch \in BOOLEAN : DoCommit(batch)
  \/ DoOpen

Spec == Init /\ [][Next]_vars
-----------------------------------------------------------------------------
(* Types; the cache never holds more than its capacity, and the LRU order    *)
(* lists exactly the cached addresses.                                       *)
TypeOK ==
  /\ heap \in [DOMAIN heap -> [account : Accounts, dirty : BOOLEAN, dirtyCode : BOOLEAN]]
  /\ db.trie \in [Account -> Accounts \cup {NoAccount}]
  /\ db.cache \in [Account -> DOMAIN heap \cup {Nil}]
  /\ Len(db.order) <= StateCacheCapacity
  /\ \A a \in Account : db.cache[a] # Nil <=> a \in Range(db.order)

(* A clean object may be dropped: its account is in the trie as it is in the *)
(* cache, so that neither an eviction nor a Commit that skips it loses a     *)
(* change (Commit, RemoveOldest).                                            *)
CleanIsStored ==
  \A a \in Account :
    db.cache[a] # Nil /\ ~heap[db.cache[a]].dirty => db.trie[a] = heap[db.cache[a]].account

Map == INSTANCE AccountMap WITH accounts <- View(heap, db), snapshots <- committed
(* The cache is transparent: reads, evictions and commits in any order show  *)
(* the accounts of a plain map (AccountMap) of which snapshots are kept.     *)
RefinesAccountMap == Map!Spec
=============================================================================

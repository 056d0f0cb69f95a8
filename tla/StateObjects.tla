---------------------------- MODULE StateObjects ----------------------------
(***************************************************************************)
(* The operations of core/state on one Statedb, as functions.              *)
(*                                                                         *)
(* A Statedb has a trie (what its root hash stands for) and an LRU cache of *)
(* pointers to state objects.  The objects themselves are in a heap, since  *)
(* a Statedb and its copies share them.  An operation takes and returns     *)
(* [heap |-> ..., db |-> ...].                                              *)
(***************************************************************************)
EXTENDS Integers, Sequences, Functions, FiniteSets

CONSTANTS Account,            \* addresses
          NoAccount,          \* the trie has no value for an address
          StateCacheCapacity, \* objects in the cache of one Statedb (1000)
          CacheEvict          \* objects evicted from a full cache (a quarter)

ASSUME CacheAssumption ==
  /\ StateCacheCapacity \in Nat \ {0}
  /\ CacheEvict \in 1 .. StateCacheCapacity
  /\ NoAccount \notin [nonce : Nat, amount : Nat, code : BOOLEAN]

Accounts == [nonce : Nat, amount : Nat, code : BOOLEAN]
Nil == 0
NewAccount == [nonce |-> 0, amount |-> 0, code |-> FALSE]
EmptyTrie == [a \in Account |-> NoAccount]

(* Statedb: order lists the cached addresses, the oldest first. *)
NewStatedb(trie) == [trie |-> trie, cache |-> [a \in Account |-> Nil], order |-> <<>>]

(* What an account is, seen through the cache. *)
View(heap, db) ==
  [a \in Account |-> IF db.cache[a] = Nil THEN db.trie[a] ELSE heap[db.cache[a]].account]

Cached(db) == {db.cache[a] : a \in Account} \ {Nil}

(* A new object gets a pointer that is in no use. *)
Fresh(heap) == CHOOSE r \in 1 .. Cardinality(DOMAIN heap) + 1 : r \notin DOMAIN heap

(* Mutant: a dirty object is marked clean, but its account is not put. *)
CommitCleanOnly(s) ==
  [s EXCEPT !.heap = [r \in DOMAIN s.heap |->
     IF r \in Cached(s.db) THEN [s.heap[r] EXCEPT !.dirty = FALSE, !.dirtyCode = FALSE] ELSE s.heap[r]]]

(* Commit: every dirty object of the cache is put into the trie and is clean *)
(* afterwards.                                                               *)
Commit(s) ==
  [heap |-> [r \in DOMAIN s.heap |->
               IF r \in Cached(s.db) THEN [s.heap[r] EXCEPT !.dirty = FALSE, !.dirtyCode = FALSE]
                                     ELSE s.heap[r]],
   db |-> [s.db EXCEPT !.trie = [a \in Account |->
             IF s.db.cache[a] # Nil /\ s.heap[s.db.cache[a]].dirty
             THEN s.heap[s.db.cache[a]].account ELSE s.db.trie[a]]]]

(* serializeCode writes to the batch it is given: without a batch, new code  *)
(* makes Commit panic.                                                       *)
CommitPanics(s, batch) == ~batch /\ \E r \in Cached(s.db) : s.heap[r].dirtyCode

(* Mutant: an entry is dropped from the order and stays in the cache. *)
RemoveOldestKeepsEntry(db, n) == [db EXCEPT !.order = SubSeq(@, n + 1, Len(@))]

(* lru.RemoveOldest, n times. *)
RemoveOldest(db, n) ==
  [db EXCEPT !.order = SubSeq(@, n + 1, Len(@)),
             !.cache = [a \in Account |-> IF a \in Range(SubSeq(db.order, 1, n)) THEN Nil ELSE @[a]]]

(* Mutant: the cache is emptied without a commit. *)
MakeRoomUncommitted(s) ==
  IF Len(s.db.order) = StateCacheCapacity
  THEN [s EXCEPT !.db = RemoveOldest(@, CacheEvict)] ELSE s

(* The first half of Statedb.cache: a full cache is committed, and a part of *)
(* it evicted.                                                               *)
MakeRoom(s) ==
  IF Len(s.db.order) = StateCacheCapacity
  THEN LET c == Commit(s) IN [c EXCEPT !.db = RemoveOldest(@, CacheEvict)] ELSE s

CacheFull(s) == Len(s.db.order) = StateCacheCapacity

(* Statedb.cache *)
Cache(s, a, object) ==
  LET m == MakeRoom(s)
      r == Fresh(m.heap)
  IN [heap |-> [x \in DOMAIN m.heap \cup {r} |-> IF x = r THEN object ELSE m.heap[x]],
      db |-> [m.db EXCEPT !.cache[a] = r, !.order = Append(@, a)]]

(* lru.Get: the entry of a becomes the youngest. *)
Touch(order, a) ==
  LET i == CHOOSE j \in DOMAIN order : order[j] = a
  IN SubSeq(order, 1, i - 1) \o SubSeq(order, i + 1, Len(order)) \o <<a>>

(* getStateObject: a hit becomes the youngest entry; a miss is loaded from   *)
(* the trie, if it is there.                                                 *)
GetStateObject(s, a) ==
  CASE s.db.cache[a] # Nil -> [s EXCEPT !.db.order = Touch(@, a)]
    [] s.db.cache[a] = Nil /\ s.db.trie[a] = NoAccount -> s
    [] OTHER -> Cache(s, a, [account |-> s.db.trie[a], dirty |-> FALSE, dirtyCode |-> FALSE])

GetOrNewStateObject(s, a) ==
  LET g == GetStateObject(s, a)
  IN IF g.db.cache[a] # Nil THEN g
     ELSE Cache(g, a, [account |-> NewAccount, dirty |-> TRUE, dirtyCode |-> FALSE])

(* The setters change an account that exists, and nothing otherwise. *)
Modify(s, a, account) ==
  LET g == GetStateObject(s, a)
  IN IF g.db.cache[a] = Nil THEN g
     ELSE [g EXCEPT !.heap[g.db.cache[a]].account = account, !.heap[g.db.cache[a]].dirty = TRUE]

ReadAccount(s, a) ==
  LET v == View(s.heap, s.db)[a] IN IF v = NoAccount THEN NewAccount ELSE v

(* SetAmount ignores a negative amount. *)
AddBalance(s, a, n) ==
  IF ReadAccount(s, a).amount + n < 0 THEN GetStateObject(s, a)
  ELSE Modify(s, a, [ReadAccount(s, a) EXCEPT !.amount = @ + n])

SetNonce(s, a, n) == Modify(s, a, [ReadAccount(s, a) EXCEPT !.nonce = n])

(* setCode: the account's code hash changes and the code is to be written. *)
SetCode(s, a) ==
  LET m == Modify(s, a, [ReadAccount(s, a) EXCEPT !.code = TRUE])
  IN IF m.db.cache[a] = Nil THEN m ELSE [m EXCEPT !.heap[m.db.cache[a]].dirtyCode = TRUE]

(* GetCopy: the trie of the same root, loaded from the database again, and a *)
(* cache with the same pointers.                                             *)
GetCopy(db) == db
=============================================================================

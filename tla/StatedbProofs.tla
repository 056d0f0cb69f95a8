---------------------------- MODULE StatedbProofs ----------------------------
(*****************************************************************************)
(* The LRU cache of a Statedb is transparent, for every number of accounts   *)
(* and every capacity: no clean object differs from the trie, and every step *)
(* is a step of AccountMap.                                                  *)
(*****************************************************************************)
EXTENDS Statedb, StateObjectsProofs

(* The inductive invariant: what is committed can be opened. *)
StateInv ==
  /\ SoundState(Now)
  /\ committed \subseteq [Account -> Accounts \cup {NoAccount}]

(* What s shows of account a becomes an account; the others stay. *)
Changes(s, t, a) ==
  \E account \in Accounts : View(t.heap, t.db) = [View(s.heap, s.db) EXCEPT ![a] = account]

(* A setter, or the creation of an account, changes it or nothing. *)
LEMMA OneChanges ==
  ASSUME NEW s, NEW t, NEW a, NEW account \in Accounts,
         \/ View(t.heap, t.db) = Put(View(s.heap, s.db), a, account)
         \/ View(t.heap, t.db) = Open(View(s.heap, s.db), a)
  PROVE  SameView(t, s) \/ Changes(s, t, a)
  BY Zenon, NoAccountIsNone DEF Put, Open, SameView, Changes

(* Objects that nothing points to go. *)
LEMMA BecomesSound ==
  ASSUME NEW s, SoundState(s), Becomes(s)
  PROVE  SoundState(Now)' /\ View(heap, db)' = View(s.heap, s.db)
<1> DEFINE t == s.db.trie
           cache == s.db.cache
           h == s.heap
<1>1. /\ heap' = [r \in DOMAIN h \cap Cached(s.db) |-> h[r]] /\ db' = s.db
      /\ Shaped(s) /\ Sound(h, t, cache) /\ Ordered(s.db.order, cache)
  BY Zenon DEF Becomes, SoundState
<1>2. \A a \in Account : cache[a] # Nil => cache[a] \in Cached(s.db)
  BY Zenon DEF Cached
<1> HIDE DEF h, t, cache
<1>3. DOMAIN heap' \subseteq DOMAIN h /\ \A r \in DOMAIN heap' : heap'[r] = h[r]
  BY Zenon, <1>1
<1>4. \A a \in Account : cache[a] # Nil => cache[a] \in DOMAIN heap'
  BY Zenon, <1>1, <1>2 DEF Sound
<1>5. IsFiniteSet(DOMAIN heap')
  BY Zenon, <1>1, <1>3, FS_Subset DEF Sound
<1>6. heap' \in [DOMAIN heap' -> Object]
  BY Zenon, <1>1, <1>3 DEF Sound
<1>7. cache \in [Account -> DOMAIN heap' \cup {Nil}]
  BY Zenon, <1>1, <1>4 DEF Sound
<1>8. Sound(heap', t, cache)
  BY Zenon, <1>1, <1>3, <1>4, <1>5, <1>6, <1>7 DEF Sound
<1>9. Shown(heap', t, cache) = Shown(h, t, cache)
  BY Zenon, <1>3, <1>4 DEF Shown
<1>10. SoundState(Now)'
  BY Zenon, <1>1, <1>8 DEF SoundState, Shaped, Now, t, cache
<1>11. View(heap, db)' = View(s.heap, s.db)
  BY Zenon, <1>1, <1>9 DEF View, Shown, h, t, cache
<1> QED
  BY Zenon, <1>10, <1>11

(* A step shows what it may: one account changes, a snapshot is kept, or one *)
(* is opened.                                                                *)
Shows == Map!Next \/ UNCHANGED <<View(heap, db), committed>>

(* An operation of the Statedb, done or failed, is a step of the map. *)
LEMMA OperateSound ==
  ASSUME StateInv, NEW a \in Account, NEW loads, NEW s, SoundState(s),
         SameView(s, Now) \/ Changes(Now, s, a), Operate(a, loads, s)
  PROVE  StateInv' /\ Shows
<1>1. committed' = committed
  BY Zenon DEF Operate
<1>2. CASE Becomes(s)
  <2>1. SoundState(Now)' /\ View(heap, db)' = View(s.heap, s.db)
    BY Zenon, <1>2, BecomesSound
  <2>2. StateInv'
    BY Zenon, <1>1, <2>1 DEF StateInv
  <2>3. CASE SameView(s, Now)
    <3>1. View(heap, db)' = View(heap, db)
      BY Zenon, <2>1, <2>3 DEF SameView, Now
    <3> QED
      BY Zenon, <1>1, <2>2, <3>1 DEF Shows
  <2>4. CASE Changes(Now, s, a)
    <3>1. PICK account \in Accounts : View(s.heap, s.db) = [View(heap, db) EXCEPT ![a] = account]
      BY Zenon, <2>4 DEF Changes, Now
    <3>2. View(heap, db) \in [Account -> Accounts \cup {NoAccount}]
      BY ViewType DEF StateInv, Now
    <3>3. View(heap, db)'[a] = account
      BY Zenon, <2>1, <3>1, <3>2
    <3>4. Map!Change(a)
      BY Zenon, <1>1, <2>1, <3>1, <3>3, NoAccountIsNone DEF Map!Change
    <3> QED
      BY Zenon, <2>2, <3>4 DEF Shows, Map!Next
  <2> QED
    BY Zenon, <2>3, <2>4
<1>3. CASE UNCHANGED <<heap, db>>
  BY Zenon, <1>1, <1>3 DEF StateInv, Shows, Now, View, SoundState
<1> QED
  BY Zenon, <1>2, <1>3 DEF Operate

(* Commit, with or without a batch, is a step of the map. *)
LEMMA CommitSteps ==
  ASSUME StateInv, NEW batch \in BOOLEAN, DoCommit(batch)
  PROVE  StateInv' /\ Shows
<1>1. CASE UNCHANGED <<heap, db, committed>>
  BY Zenon, <1>1 DEF StateInv, Shows, Now, View, SoundState
<1>2. CASE ~UNCHANGED <<heap, db, committed>>
  <2> DEFINE c == Commit(Now)
  <2>1. Becomes(c) /\ committed' = IF batch THEN committed \cup {c.db.trie} ELSE committed
    BY Zenon, <1>2 DEF DoCommit
  <2>2. SoundState(Now) /\ SoundState(c) /\ SameView(c, Now)
    BY Zenon, CommitSound DEF StateInv
  <2>3. SoundState(Now)' /\ View(heap, db)' = View(heap, db)
    BY SMTT(30), <2>1, <2>2, BecomesSound DEF SameView, Now
  <2>4. c.db.trie = View(heap, db)
    BY Zenon, <2>2, CommitMirrors DEF Mirrors, Now
  <2>5. View(heap, db) \in [Account -> Accounts \cup {NoAccount}]
    BY <2>2, ViewType DEF Now
  <2>6. StateInv'
    BY Zenon, <2>1, <2>3, <2>4, <2>5 DEF StateInv
  <2>7. Shows
    BY Zenon, <2>1, <2>3, <2>4 DEF Shows, Map!Next, Map!Save
  <2> QED
    BY Zenon, <2>6, <2>7
<1> QED
  BY Zenon, <1>1, <1>2

(* NewStatedb on a committed root is a step of the map. *)
LEMMA OpenSteps ==
  ASSUME StateInv, DoOpen
  PROVE  StateInv' /\ Shows
<1>1. PICK t \in committed : Becomes([heap |-> heap, db |-> NewStatedb(t)])
  BY Zenon DEF DoOpen
<1> DEFINE s == [heap |-> heap, db |-> NewStatedb(t)]
<1>2. t \in [Account -> Accounts \cup {NoAccount}]
  BY Zenon DEF StateInv
<1>3. /\ Shaped(s) /\ s.heap = heap /\ s.db.trie = t /\ s.db.order = <<>>
      /\ s.db.cache = [a \in Account |-> Nil]
  BY Zenon DEF NewStatedb, Shaped
<1>4. Sound(heap, db.trie, db.cache)
  BY Zenon DEF StateInv, SoundState, Now
<1>5. Becomes(s)
  BY Zenon, <1>1
<1> HIDE DEF s
<1>6. Sound(s.heap, s.db.trie, s.db.cache)
  BY Zenon, <1>2, <1>3, <1>4 DEF Sound
<1>7. Ordered(s.db.order, s.db.cache)
  BY <1>3, CacheAssumption DEF Ordered
<1>8. SoundState(s)
  BY Zenon, <1>3, <1>6, <1>7 DEF SoundState
<1>9. View(s.heap, s.db) = t
  BY Zenon, <1>2, <1>3 DEF View
<1>10. SoundState(Now)' /\ View(heap, db)' = t
  BY Zenon, <1>5, <1>8, <1>9, BecomesSound
<1>11. UNCHANGED committed
  BY Zenon DEF DoOpen
<1> QED
  BY Zenon, <1>10, <1>11 DEF StateInv, Shows, Map!Next, Map!Open

(* Every step keeps the invariant and is one of AccountMap. *)
LEMMA StatedbSteps ==
  ASSUME StateInv, [Next]_vars
  PROVE  StateInv' /\ Shows
<1>1. SoundState(Now)
  BY Zenon DEF StateInv
<1>2. ASSUME NEW a \in Account, DoRead(a) PROVE StateInv' /\ Shows
  BY Zenon, <1>1, <1>2, GetSound, OperateSound DEF DoRead
<1>3. ASSUME NEW a \in Account, DoGetOrNew(a) PROVE StateInv' /\ Shows
  <2> DEFINE s == GetOrNewStateObject(Now, a)
  <2>1. SoundState(s) /\ (SameView(s, Now) \/ Changes(Now, s, a))
    BY Zenon, <1>1, GetOrNewSound, OneChanges, NoAccountIsNone
  <2> QED
    BY Zenon, <1>3, <2>1, OperateSound DEF DoGetOrNew
<1>4. ASSUME NEW a \in Account, NEW n \in {1, -1}, DoAddBalance(a, n) PROVE StateInv' /\ Shows
  <2> DEFINE s == AddBalance(Now, a, n)
             old == ReadAccount(Now, a)
  <2>1. old \in Accounts /\ n \in Int
    BY <1>1, ReadAccountType
  <2>2. /\ SoundState(s)
        /\ View(s.heap, s.db) = IF old.amount + n < 0 THEN View(Now.heap, Now.db)
                                ELSE Put(View(Now.heap, Now.db), a, [old EXCEPT !.amount = @ + n])
    BY Zenon, <1>1, <2>1, AddBalanceSound
  <2> HIDE DEF s, old
  <2>3. ~(old.amount + n < 0) => [old EXCEPT !.amount = @ + n] \in Accounts
    BY <2>1 DEF Accounts
  <2>4. SameView(s, Now) \/ Changes(Now, s, a)
    BY Zenon, <2>2, <2>3, OneChanges DEF SameView
  <2> QED
    BY Zenon, <1>4, <2>2, <2>4, OperateSound DEF DoAddBalance, s
<1>5. ASSUME NEW a \in Account, DoSetNonce(a) PROVE StateInv' /\ Shows
  <2> DEFINE old == ReadAccount(Now, a)
             s == SetNonce(Now, a, old.nonce + 1)
  <2>1. old.nonce + 1 \in Nat /\ [old EXCEPT !.nonce = old.nonce + 1] \in Accounts
    BY <1>1, ReadAccountType DEF Accounts
  <2>2. SoundState(s) /\ (SameView(s, Now) \/ Changes(Now, s, a))
    BY Zenon, <1>1, <2>1, SetNonceSound, OneChanges
  <2> QED
    BY Zenon, <1>5, <2>2, OperateSound DEF DoSetNonce
<1>6. ASSUME NEW a \in Account, DoSetCode(a) PROVE StateInv' /\ Shows
  <2> DEFINE s == SetCode(Now, a)
  <2>1. [ReadAccount(Now, a) EXCEPT !.code = TRUE] \in Accounts
    BY Zenon, <1>1, ReadAccountType DEF Accounts
  <2>2. SoundState(s) /\ (SameView(s, Now) \/ Changes(Now, s, a))
    BY Zenon, <1>1, <2>1, SetCodeSound, OneChanges
  <2> QED
    BY Zenon, <1>6, <2>2, OperateSound DEF DoSetCode
<1>7. ASSUME NEW batch \in BOOLEAN, DoCommit(batch) PROVE StateInv' /\ Shows
  BY Zenon, <1>7, CommitSteps
<1>8. CASE DoOpen
  BY Zenon, <1>8, OpenSteps
<1>9. CASE UNCHANGED vars
  BY Zenon, <1>9 DEF vars, StateInv, Shows, Now, View, SoundState
<1> QED
  BY Zenon, <1>2, <1>3, <1>4, <1>5, <1>6, <1>7, <1>8, <1>9 DEF Next

(* The invariant holds of an empty Statedb, which shows no account. *)
LEMMA StatedbInit ==
  ASSUME Init
  PROVE  StateInv /\ View(heap, db) = EmptyTrie
<1>1. /\ heap = <<>> /\ committed = {EmptyTrie} /\ db.trie = EmptyTrie
      /\ db.cache = [a \in Account |-> Nil] /\ db.order = <<>>
      /\ DOMAIN db = {"trie", "cache", "order"}
  BY Zenon DEF Init, NewStatedb
<1>2. EmptyTrie \in [Account -> Accounts \cup {NoAccount}]
  BY Zenon DEF EmptyTrie
<1>3. DOMAIN heap = {} /\ IsFiniteSet(DOMAIN heap)
  BY <1>1, FS_EmptySet
<1>4. Sound(heap, db.trie, db.cache)
  BY <1>1, <1>2, <1>3 DEF Sound
<1>5. Ordered(db.order, db.cache)
  BY <1>1, CacheAssumption DEF Ordered
<1>6. StateInv
  BY Zenon, <1>1, <1>2, <1>4, <1>5 DEF StateInv, SoundState, Shaped, Now
<1> QED
  BY Zenon, <1>1, <1>2, <1>6 DEF View

(* StateInv is an invariant. *)
LEMMA StatedbInvariant == Spec => []StateInv
<1>1. Init => StateInv
  BY Zenon, StatedbInit
<1>2. StateInv /\ [Next]_vars => StateInv'
  BY Zenon, StatedbSteps
<1> QED
  BY <1>1, <1>2, PTL DEF Spec

(* No change is lost when a clean object is evicted or skipped by Commit, for *)
(* every number of accounts and every capacity of the cache.                  *)
THEOREM CleanObjectsStored == Spec => []CleanIsStored
<1>1. StateInv => CleanIsStored
  BY Zenon DEF StateInv, SoundState, Sound, Now, CleanIsStored
<1> QED
  BY <1>1, StatedbInvariant, PTL

(* The cache keeps to its capacity, and the LRU order lists what is cached.   *)
THEOREM StatedbTypes == Spec => []TypeOK
<1>1. StateInv => TypeOK
  <2> SUFFICES ASSUME StateInv PROVE TypeOK
    BY Zenon
  <2>1. Sound(heap, db.trie, db.cache) /\ Ordered(db.order, db.cache)
    BY Zenon DEF StateInv, SoundState, Now
  <2>2. DOMAIN db.order = 1 .. Len(db.order)
    BY <2>1 DEF Ordered
  <2> QED
    BY <2>1, <2>2 DEF Sound, Ordered, TypeOK, Object, Range
<1> QED
  BY <1>1, StatedbInvariant, PTL

(* The cache is transparent: a Statedb is a plain map of accounts.            *)
THEOREM CacheTransparent == Spec => RefinesAccountMap
<1>1. Init => Map!Init
  BY Zenon, StatedbInit DEF Map!Init, Map!NoAccounts, Init, EmptyTrie
<1>2. StateInv /\ [Next]_vars => [Map!Next]_<<View(heap, db), committed>>
  BY Zenon, StatedbSteps DEF Shows
<1> QED
  BY <1>1, <1>2, StatedbInvariant, PTL DEF Spec, RefinesAccountMap, Map!Spec
=============================================================================

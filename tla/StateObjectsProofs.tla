------------------------- MODULE StateObjectsProofs -------------------------
(*****************************************************************************)
(* What the operations of StateObjects do, for every number of accounts and  *)
(* every capacity of the cache: the accounts they show, and which objects    *)
(* they leave alone.                                                         *)
(*****************************************************************************)
EXTENDS StateObjects, FiniteSetTheorems, TLAPS

Object == [account : Accounts, dirty : BOOLEAN, dirtyCode : BOOLEAN]

(* A cache that points to objects of its own, of which the clean ones are in *)
(* the trie.                                                                 *)
Sound(objects, trie, cache) ==
  /\ IsFiniteSet(DOMAIN objects) /\ DOMAIN objects \subseteq Nat \ {Nil}
  /\ objects \in [DOMAIN objects -> Object]
  /\ trie \in [Account -> Accounts \cup {NoAccount}]
  /\ cache \in [Account -> DOMAIN objects \cup {Nil}]
  /\ \A a, b \in Account : cache[a] = cache[b] /\ cache[a] # Nil => a = b
  /\ \A a \in Account :
       cache[a] # Nil /\ ~objects[cache[a]].dirty => trie[a] = objects[cache[a]].account

(* The LRU order lists the cached addresses, each once. *)
Ordered(order, cache) ==
  /\ order \in Seq(Account) /\ Len(order) <= StateCacheCapacity
  /\ \A i, j \in DOMAIN order : order[i] = order[j] => i = j
  /\ \A a \in Account : cache[a] # Nil <=> \E i \in DOMAIN order : order[i] = a

Shaped(s) == DOMAIN s = {"heap", "db"} /\ DOMAIN s.db = {"trie", "cache", "order"}

SoundState(s) ==
  /\ Shaped(s)
  /\ Sound(s.heap, s.db.trie, s.db.cache)
  /\ Ordered(s.db.order, s.db.cache)

(* The accounts seen through the cache: View, of the parts of a Statedb. *)
Shown(objects, trie, cache) ==
  [a \in Account |-> IF cache[a] = Nil THEN trie[a] ELSE objects[cache[a]].account]

(* What s shows is what t shows. *)
SameView(s, t) == View(s.heap, s.db) = View(t.heap, t.db)

(* The value for a missing account is not an account. *)
LEMMA NoAccountIsNone == NoAccount \notin Accounts /\ NewAccount \in Accounts
  BY Zenon, CacheAssumption DEF Accounts, NewAccount

(* Fresh finds a pointer that is in no use. *)
LEMMA FreshIsFree ==
  ASSUME NEW h, IsFiniteSet(DOMAIN h)
  PROVE  Fresh(h) \in Nat \ {0} /\ Fresh(h) \notin DOMAIN h
<1> DEFINE n == Cardinality(DOMAIN h)
<1>1. n \in Nat
  BY Zenon, FS_CardinalityType
<1>2. Cardinality(1 .. n + 1) = n + 1
  BY <1>1, FS_Interval
<1>3. ~ (1 .. n + 1 \subseteq DOMAIN h)
  BY <1>1, <1>2, FS_Subset
<1>4. \E r \in 1 .. n + 1 : r \notin DOMAIN h
  BY Zenon, <1>3
<1> QED
  BY <1>1, <1>4 DEF Fresh

(* An object once it is committed. *)
Clean(o) == [o EXCEPT !.dirty = FALSE, !.dirtyCode = FALSE]

(* Clean keeps the account of an object and its type. *)
LEMMA CleanObject ==
  ASSUME NEW o \in Object
  PROVE  Clean(o) \in Object /\ Clean(o).account = o.account /\ ~Clean(o).dirty
  BY ZenonT(40) DEF Clean, Object

(* The fields of what Commit returns. *)
LEMMA CommitFields ==
  ASSUME NEW s, Shaped(s)
  PROVE  /\ Shaped(Commit(s))
         /\ Commit(s).db.cache = s.db.cache /\ Commit(s).db.order = s.db.order
         /\ Commit(s).heap = [r \in DOMAIN s.heap |->
              IF r \in Cached(s.db) THEN Clean(s.heap[r]) ELSE s.heap[r]]
         /\ Commit(s).db.trie = [a \in Account |->
              IF s.db.cache[a] # Nil /\ s.heap[s.db.cache[a]].dirty
              THEN s.heap[s.db.cache[a]].account ELSE s.db.trie[a]]
  BY Zenon DEF Commit, Clean, Shaped

(* Commit leaves only clean objects in the cache and shows the same accounts. *)
LEMMA CommitSound ==
  ASSUME NEW s, SoundState(s)
  PROVE  /\ SoundState(Commit(s)) /\ SameView(Commit(s), s)
         /\ Commit(s).db.cache = s.db.cache
         /\ \A a \in Account : s.db.cache[a] # Nil => ~Commit(s).heap[s.db.cache[a]].dirty
         /\ \A a \in Account : s.db.cache[a] = Nil => Commit(s).db.trie[a] = s.db.trie[a]
<1> USE DEF SoundState
<1> DEFINE h == s.heap
           t == s.db.trie
           cache == s.db.cache
           h2 == Commit(s).heap
           t2 == Commit(s).db.trie
<1>1. /\ h2 = [r \in DOMAIN h |-> IF r \in Cached(s.db) THEN Clean(h[r]) ELSE h[r]]
      /\ t2 = [a \in Account |-> IF cache[a] # Nil /\ h[cache[a]].dirty
                                 THEN h[cache[a]].account ELSE t[a]]
  BY Zenon, CommitFields
<1>2. Sound(h, t, cache)
  BY Zenon
<1>3. \A a \in Account : cache[a] # Nil => cache[a] \in Cached(s.db)
  BY Zenon DEF Cached
<1> HIDE DEF h, t, cache, h2, t2
<1>4. DOMAIN h2 = DOMAIN h /\ h2 \in [DOMAIN h -> Object]
  BY Zenon, <1>1, <1>2, CleanObject DEF Sound
<1>5. \A a \in Account : cache[a] # Nil =>
        /\ cache[a] \in DOMAIN h /\ h[cache[a]] \in Object
        /\ h2[cache[a]] = Clean(h[cache[a]])
  BY Zenon, <1>1, <1>2, <1>3 DEF Sound
<1>6. \A a \in Account : cache[a] # Nil =>
        h2[cache[a]].account = h[cache[a]].account /\ ~h2[cache[a]].dirty
  BY Zenon, <1>5, CleanObject
<1>7. \A a \in Account : cache[a] # Nil => t2[a] = h[cache[a]].account
  BY Zenon, <1>1, <1>2 DEF Sound
<1>8. \A a \in Account : cache[a] = Nil => t2[a] = t[a]
  BY Zenon, <1>1
<1>9. t2 \in [Account -> Accounts \cup {NoAccount}]
  <2>1. \A a \in Account : t2[a] \in Accounts \cup {NoAccount}
    BY Zenon, <1>2, <1>5, <1>7, <1>8 DEF Sound, Object
  <2> QED
    BY Zenon, <1>1, <2>1
<1>10. Sound(h2, t2, cache)
  BY Zenon, <1>2, <1>4, <1>6, <1>7, <1>9 DEF Sound
<1>11. [a \in Account |-> IF cache[a] = Nil THEN t2[a] ELSE h2[cache[a]].account]
       = [a \in Account |-> IF cache[a] = Nil THEN t[a] ELSE h[cache[a]].account]
  BY Zenon, <1>6, <1>8
<1>12. SameView(Commit(s), s)
  BY ZenonT(40), <1>11, CommitFields DEF SameView, View, h, t, cache, h2, t2
<1>13. SoundState(Commit(s))
  BY Zenon, <1>10, CommitFields DEF cache, h2, t2
<1> QED
  BY Zenon, <1>6, <1>8, <1>12, <1>13, CommitFields DEF t, cache, h2, t2

(* Clean objects can be evicted. *)
Without(cache, E) == [a \in Account |-> IF a \in E THEN Nil ELSE cache[a]]

(* Forgetting clean objects changes nothing that is shown. *)
LEMMA EvictSound ==
  ASSUME NEW h, NEW t, NEW cache, Sound(h, t, cache),
         \A a \in Account : cache[a] # Nil => ~h[cache[a]].dirty, NEW E
  PROVE  /\ Sound(h, t, Without(cache, E))
         /\ Shown(h, t, Without(cache, E)) = Shown(h, t, cache)
<1> DEFINE cache2 == Without(cache, E)
<1>1. Sound(h, t, cache2)
  BY Zenon DEF Sound, Without
<1>2. \A a \in Account : (IF cache2[a] = Nil THEN t[a] ELSE h[cache2[a]].account)
                       = (IF cache[a] = Nil THEN t[a] ELSE h[cache[a]].account)
  BY Zenon DEF Sound, Without
<1> QED
  BY Zenon, <1>1, <1>2 DEF Shown

(* Positions of a sequence of length m and of its suffix after n. *)
LEMMA Suffix ==
  ASSUME NEW m \in Nat, NEW n \in Nat, NEW l, l = m - n
  PROVE  /\ \A i \in 1 .. l : n + i \in 1 .. m
         /\ \A k \in 1 .. m : k > n => k - n \in 1 .. l /\ n + (k - n) = k
  OBVIOUS

(* The oldest entries of the order go. *)
LEMMA OldestOrdered ==
  ASSUME NEW order, NEW cache \in [Account -> Nat], Ordered(order, cache),
         Len(order) = StateCacheCapacity
  PROVE  /\ Ordered(SubSeq(order, CacheEvict + 1, Len(order)),
                    Without(cache, Range(SubSeq(order, 1, CacheEvict))))
         /\ Len(SubSeq(order, CacheEvict + 1, Len(order))) < StateCacheCapacity
<1> DEFINE n == CacheEvict
           old == SubSeq(order, 1, n)
           new == SubSeq(order, n + 1, Len(order))
           cache2 == Without(cache, Range(old))
<1>1. n \in Nat /\ n >= 1 /\ n <= Len(order) /\ order \in Seq(Account) /\ Len(order) \in Nat
  BY CacheAssumption DEF Ordered
<1>2. /\ new \in Seq(Account) /\ Len(new) = Len(order) - n
      /\ \A i \in 1 .. Len(new) : new[i] = order[n + i]
      /\ DOMAIN new = 1 .. Len(new) /\ DOMAIN order = 1 .. Len(order)
  BY SMTT(60), <1>1
<1>3. /\ old \in Seq(Account) /\ Len(old) = n
      /\ \A i \in 1 .. n : old[i] = order[i]
      /\ DOMAIN old = 1 .. n
  BY <1>1
<1> HIDE DEF n, old, new
<1>10. /\ \A i \in 1 .. Len(new) : n + i \in 1 .. Len(order)
       /\ \A k \in 1 .. Len(order) : k > n => k - n \in 1 .. Len(new) /\ n + (k - n) = k
  BY Zenon, <1>1, <1>2, Suffix
<1>4. \A a : a \in Range(old) <=> \E i \in 1 .. n : order[i] = a
  BY SMTT(30), <1>3 DEF Range
<1>5. ASSUME NEW i \in DOMAIN new, NEW j \in DOMAIN new, new[i] = new[j] PROVE i = j
  <2>1. i \in 1 .. Len(new) /\ j \in 1 .. Len(new)
    BY Zenon, <1>2
  <2>4. n + i \in DOMAIN order /\ n + j \in DOMAIN order
    BY Zenon, <1>2, <1>10, <2>1
  <2>2. order[n + i] = order[n + j]
    BY Zenon, <1>2, <1>5, <2>1
  <2>3. n + i = n + j
    BY Zenon, <2>2, <2>4 DEF Ordered
  <2> QED
    BY <1>1, <2>1, <2>3
<1>6. \A a \in Account : cache2[a] # Nil <=> cache[a] # Nil /\ a \notin Range(old)
  BY Zenon DEF Without
<1>7. ASSUME NEW a \in Account, cache2[a] # Nil PROVE \E i \in DOMAIN new : new[i] = a
  <2>1. PICK k \in 1 .. Len(order) : order[k] = a
    BY <1>1, <1>6, <1>7 DEF Ordered
  <2>2. k > n
    BY <1>1, <1>4, <1>6, <1>7, <2>1
  <2>3. k - n \in 1 .. Len(new) /\ new[k - n] = order[n + (k - n)] /\ n + (k - n) = k
    BY Zenon, <1>2, <1>10, <2>2
  <2> QED
    BY Zenon, <1>2, <2>1, <2>3
<1>8. ASSUME NEW a \in Account, NEW i \in DOMAIN new, new[i] = a PROVE cache2[a] # Nil
  <2>1. i \in 1 .. Len(new) /\ n + i \in 1 .. Len(order) /\ order[n + i] = a
    BY SMTT(60), <1>1, <1>2, <1>8
  <2>2. cache[a] # Nil
    BY <1>1, <2>1 DEF Ordered
  <2>3. \A k \in 1 .. n : k \in DOMAIN order /\ k # n + i
    BY SMTT(30), <1>1, <2>1
  <2>4. n + i \in DOMAIN order
    BY <1>1, <2>1
  <2>5. \A k \in 1 .. n : order[k] # a
    BY Zenon, <2>1, <2>3, <2>4 DEF Ordered
  <2> QED
    BY Zenon, <1>4, <1>6, <2>2, <2>5
<1>9. Ordered(new, cache2) /\ Len(new) < StateCacheCapacity
  BY <1>1, <1>2, <1>5, <1>7, <1>8 DEF Ordered
<1> QED
  BY Zenon, <1>9 DEF n, old, new

(* A new entry is the youngest. *)
LEMMA AppendOrdered ==
  ASSUME NEW order, NEW cache \in [Account -> Nat], Ordered(order, cache),
         Len(order) < StateCacheCapacity,
         NEW a \in Account, cache[a] = Nil, NEW r \in Nat \ {0}
  PROVE  Ordered(Append(order, a), [cache EXCEPT ![a] = r])
<1> DEFINE new == Append(order, a)
<1>1. /\ order \in Seq(Account) /\ Len(order) \in Nat /\ StateCacheCapacity \in Nat
  BY CacheAssumption DEF Ordered
<1>2. /\ new \in Seq(Account) /\ Len(new) = Len(order) + 1 /\ DOMAIN new = 1 .. Len(order) + 1
      /\ \A i \in DOMAIN new : new[i] = IF i = Len(order) + 1 THEN a ELSE order[i]
      /\ new[Len(order) + 1] = a /\ \A i \in DOMAIN order : i \in DOMAIN new /\ new[i] = order[i]
  BY <1>1
<1>3. \A i \in DOMAIN order : order[i] # a
  BY Zenon DEF Ordered
<1> HIDE DEF new
<1>4. ASSUME NEW i \in DOMAIN new, NEW j \in DOMAIN new, new[i] = new[j] PROVE i = j
  <2>1. \A k \in DOMAIN new : k = Len(order) + 1 \/ k \in DOMAIN order
    BY <1>1, <1>2
  <2> QED
    BY SMTT(30), <1>2, <1>3, <1>4, <2>1 DEF Ordered
<1>5. \A b \in Account : [cache EXCEPT ![a] = r][b] # Nil <=> \E i \in DOMAIN new : new[i] = b
  <2> TAKE b \in Account
  <2>1. CASE b = a
    BY <1>1, <1>2, <2>1 DEF Nil
  <2>2. CASE b # a
    BY <1>1, <1>2, <2>2 DEF Ordered
  <2> QED
    BY Zenon, <2>1, <2>2
<1>6. Ordered(new, [cache EXCEPT ![a] = r])
  BY <1>1, <1>2, <1>4, <1>5 DEF Ordered
<1> QED
  BY Zenon, <1>6 DEF new

(* The entries of a concatenation. *)
LEMMA Joined ==
  ASSUME NEW S, NEW p \in Seq(S), NEW q \in Seq(S)
  PROVE  /\ p \o q \in Seq(S) /\ Len(p \o q) = Len(p) + Len(q)
         /\ \A i \in 1 .. Len(p) + Len(q) : (p \o q)[i] = IF i <= Len(p) THEN p[i] ELSE q[i - Len(p)]
  OBVIOUS

(* lru.Get changes the order only. *)
LEMMA TouchOrdered ==
  ASSUME NEW order, NEW cache \in [Account -> Nat], Ordered(order, cache),
         NEW a \in Account, cache[a] # Nil
  PROVE  Ordered(Touch(order, a), cache)
<1> DEFINE k == CHOOSE j \in DOMAIN order : order[j] = a
           rest == SubSeq(order, 1, k - 1) \o SubSeq(order, k + 1, Len(order))
           new == Touch(order, a)
           n == Len(order)
<1>1. order \in Seq(Account) /\ n \in Nat /\ k \in 1 .. n /\ order[k] = a
  BY DEF Ordered
<1>2. new = rest \o <<a>>
  BY Zenon DEF Touch
<1> HIDE DEF k, new
<1>3. /\ rest \in Seq(Account) /\ Len(rest) = n - 1
      /\ \A i \in 1 .. n - 1 : rest[i] = IF i < k THEN order[i] ELSE order[i + 1]
  <2> DEFINE p == SubSeq(order, 1, k - 1)
             q == SubSeq(order, k + 1, n)
  <2>1. /\ p \in Seq(Account) /\ Len(p) = k - 1
        /\ \A i \in 1 .. k - 1 : p[i] = order[i]
    BY <1>1
  <2>2. /\ q \in Seq(Account) /\ Len(q) = n - k
        /\ \A i \in 1 .. n - k : q[i] = order[k + i]
    BY <1>1
  <2>3. rest = p \o q
    BY Zenon
  <2> HIDE DEF p, q, rest, n
  <2>4. /\ rest \in Seq(Account) /\ Len(rest) = n - 1
        /\ \A i \in 1 .. n - 1 : rest[i] = IF i <= k - 1 THEN p[i] ELSE q[i - (k - 1)]
    <3>1. /\ rest \in Seq(Account) /\ Len(rest) = Len(p) + Len(q)
          /\ \A i \in 1 .. Len(p) + Len(q) : rest[i] = IF i <= Len(p) THEN p[i] ELSE q[i - Len(p)]
      BY Zenon, <2>1, <2>2, <2>3, Joined
    <3>2. Len(p) + Len(q) = n - 1
      BY <1>1, <2>1, <2>2
    <3> QED
      BY Zenon, <2>1, <3>1, <3>2
  <2>5. ASSUME NEW i \in 1 .. n - 1, i >= k PROVE rest[i] = order[i + 1]
    <3>1. i - (k - 1) \in 1 .. n - k /\ k + (i - (k - 1)) = i + 1
      BY <1>1, <2>5
    <3>2. q[i - (k - 1)] = order[k + (i - (k - 1))]
      BY Zenon, <2>2, <3>1
    <3>3. rest[i] = q[i - (k - 1)]
      BY <1>1, <2>4, <2>5
    <3> QED
      BY Zenon, <3>1, <3>2, <3>3
  <2> QED
    BY SMTT(30), <1>1, <2>1, <2>4, <2>5
<1> HIDE DEF rest
<1>4. /\ new \in Seq(Account) /\ Len(new) = n /\ new[n] = a
      /\ \A i \in 1 .. n - 1 : new[i] = IF i < k THEN order[i] ELSE order[i + 1]
  <2>1. /\ new \in Seq(Account) /\ Len(new) = n /\ new[n] = a
        /\ \A i \in 1 .. n - 1 : new[i] = rest[i]
    BY SMTT(30), <1>1, <1>2, <1>3
  <2> QED
    BY Zenon, <1>3, <2>1
<1> HIDE DEF n
<1>5. \A i, j \in 1 .. n : order[i] = order[j] => i = j
  BY <1>1 DEF Ordered, n
<1> DEFINE src(i) == IF i = n THEN k ELSE IF i < k THEN i ELSE i + 1
<1>10. \A i \in 1 .. n : src(i) \in 1 .. n /\ new[i] = order[src(i)]
  BY SMTT(60), <1>1, <1>4
<1>6. ASSUME NEW i \in 1 .. n, NEW j \in 1 .. n, new[i] = new[j] PROVE i = j
  <2>1. src(i) = src(j)
    <3> HIDE DEF src
    <3> QED BY Zenon, <1>5, <1>6, <1>10
  <2> QED
    BY <1>1, <2>1
<1>7. \A b \in Account : (\E i \in 1 .. n : order[i] = b) <=> (\E i \in 1 .. n : new[i] = b)
  <2> TAKE b \in Account
  <2>1. ASSUME NEW i \in 1 .. n, order[i] = b PROVE \E j \in 1 .. n : new[j] = b
    <3>1. CASE i < k
      BY <1>1, <1>4, <2>1, <3>1
    <3>2. CASE i = k
      BY <1>1, <1>4, <2>1, <3>2
    <3>3. CASE i > k
      <4>1. i - 1 \in 1 .. n - 1 /\ ~ (i - 1 < k) /\ (i - 1) + 1 = i
        BY <1>1, <3>3
      <4>2. new[i - 1] = b /\ i - 1 \in 1 .. n
        BY <1>1, <1>4, <2>1, <4>1
      <4> QED
        BY Zenon, <4>2
    <3> QED
      BY <1>1, <3>1, <3>2, <3>3
  <2>2. ASSUME NEW i \in 1 .. n, new[i] = b PROVE \E j \in 1 .. n : order[j] = b
    BY Zenon, <1>10, <2>2
  <2> QED
    BY Zenon, <2>1, <2>2
<1>8. DOMAIN order = 1 .. n /\ DOMAIN new = 1 .. n /\ Len(order) = n
  BY <1>1, <1>4 DEF n
<1>9. Ordered(new, cache)
  BY Zenon, <1>4, <1>6, <1>7, <1>8 DEF Ordered
<1> QED
  BY Zenon, <1>9 DEF new

(* The fields of what RemoveOldest returns. *)
LEMMA RemoveOldestFields ==
  ASSUME NEW d, DOMAIN d = {"trie", "cache", "order"}, NEW n
  PROVE  /\ DOMAIN RemoveOldest(d, n) = {"trie", "cache", "order"}
         /\ RemoveOldest(d, n).trie = d.trie
         /\ RemoveOldest(d, n).cache = Without(d.cache, Range(SubSeq(d.order, 1, n)))
         /\ RemoveOldest(d, n).order = SubSeq(d.order, n + 1, Len(d.order))
  BY Zenon DEF RemoveOldest, Without

(* The first half of Statedb.cache. *)
LEMMA MakeRoomSound ==
  ASSUME NEW s, SoundState(s)
  PROVE  /\ SoundState(MakeRoom(s)) /\ SameView(MakeRoom(s), s)
         /\ Len(MakeRoom(s).db.order) < StateCacheCapacity
         /\ \A a \in Account : s.db.cache[a] = Nil =>
              MakeRoom(s).db.cache[a] = Nil /\ MakeRoom(s).db.trie[a] = s.db.trie[a]
<1>1. CASE ~CacheFull(s)
  <2>1. MakeRoom(s) = s
    BY Zenon, <1>1 DEF MakeRoom, CacheFull
  <2>2. Len(s.db.order) < StateCacheCapacity
    BY <1>1, CacheAssumption DEF CacheFull, SoundState, Ordered
  <2> QED
    BY Zenon, <2>1, <2>2 DEF SameView
<1>2. CASE CacheFull(s)
  <2> DEFINE c == Commit(s)
             m == MakeRoom(s)
             E == Range(SubSeq(c.db.order, 1, CacheEvict))
  <2>1. SoundState(c) /\ c.db.cache = s.db.cache /\ c.db.order = s.db.order /\ SameView(c, s)
    BY Zenon, CommitSound, CommitFields DEF SoundState
  <2>2. \A a \in Account : s.db.cache[a] = Nil => c.db.trie[a] = s.db.trie[a]
    BY Zenon, CommitSound
  <2>3. \A a \in Account : c.db.cache[a] # Nil => ~c.heap[c.db.cache[a]].dirty
    BY Zenon, <2>1, CommitSound
  <2>4. m = [c EXCEPT !.db = RemoveOldest(c.db, CacheEvict)]
    BY Zenon, <1>2 DEF MakeRoom, CacheFull
  <2> HIDE DEF c, m
  <2>5. Shaped(c) /\ Shaped(m) /\ m.heap = c.heap /\ m.db = RemoveOldest(c.db, CacheEvict)
    <3>1. Shaped(c)
      BY Zenon, <2>1 DEF SoundState
    <3>2. DOMAIN RemoveOldest(c.db, CacheEvict) = {"trie", "cache", "order"}
      BY Zenon, <3>1, RemoveOldestFields DEF Shaped
    <3> QED
      BY Zenon, <2>4, <3>1, <3>2 DEF Shaped
  <2>6. /\ m.db.trie = c.db.trie /\ m.db.cache = Without(c.db.cache, E)
        /\ m.db.order = SubSeq(c.db.order, CacheEvict + 1, Len(c.db.order))
    <3>1. DOMAIN c.db = {"trie", "cache", "order"}
      BY Zenon, <2>5 DEF Shaped
    <3>2. LET d == RemoveOldest(c.db, CacheEvict)
          IN  /\ d.trie = c.db.trie /\ d.cache = Without(c.db.cache, E)
              /\ d.order = SubSeq(c.db.order, CacheEvict + 1, Len(c.db.order))
      BY Zenon, <3>1, RemoveOldestFields
    <3> QED
      BY Zenon, <2>5, <3>2
  <2>7. Ordered(m.db.order, m.db.cache) /\ Len(m.db.order) < StateCacheCapacity
    <3>1. c.db.cache \in [Account -> Nat]
      BY <2>1 DEF SoundState, Sound, Nil
    <3> QED
      BY ZenonT(40), <1>2, <2>1, <2>6, <3>1, OldestOrdered DEF SoundState, CacheFull
  <2> HIDE DEF E
  <2>8. /\ Sound(c.heap, c.db.trie, m.db.cache)
        /\ Shown(c.heap, c.db.trie, m.db.cache) = Shown(c.heap, c.db.trie, c.db.cache)
    BY <2>1, <2>3, <2>6, EvictSound DEF SoundState
  <2>9. SoundState(m)
    BY Zenon, <2>5, <2>6, <2>7, <2>8 DEF SoundState
  <2>10. SameView(m, s)
    BY ZenonT(40), <2>1, <2>5, <2>6, <2>8 DEF SameView, View, Shown
  <2>11. \A a \in Account : s.db.cache[a] = Nil => m.db.cache[a] = Nil /\ m.db.trie[a] = s.db.trie[a]
    BY ZenonT(40), <2>1, <2>2, <2>6 DEF Without
  <2> QED
    BY Zenon, <2>7, <2>9, <2>10, <2>11 DEF m
<1> QED
  BY Zenon, <1>1, <1>2

(* A pointer in no use gets the object of an account that is not cached. *)
Add(h, r, object) == [x \in DOMAIN h \cup {r} |-> IF x = r THEN object ELSE h[x]]

(* A new object for an account without one shows what it was made from. *)
LEMMA AddSound ==
  ASSUME NEW h, NEW t, NEW cache, Sound(h, t, cache), NEW a \in Account, cache[a] = Nil,
         NEW object \in Object, ~object.dirty => t[a] = object.account,
         NEW r \in Nat \ {0}, r \notin DOMAIN h
  PROVE  /\ Sound(Add(h, r, object), t, [cache EXCEPT ![a] = r])
         /\ Shown(Add(h, r, object), t, [cache EXCEPT ![a] = r])
            = [Shown(h, t, cache) EXCEPT ![a] = object.account]
<1> DEFINE h2 == Add(h, r, object)
           cache2 == [cache EXCEPT ![a] = r]
<1>1. DOMAIN h2 = DOMAIN h \cup {r} /\ h2 \in [DOMAIN h2 -> Object] /\ Nil \notin DOMAIN h2
  BY Zenon DEF Sound, Nil, Add
<1>2. IsFiniteSet(DOMAIN h2)
  BY <1>1, FS_AddElement DEF Sound
<1>3. cache2 \in [Account -> DOMAIN h2 \cup {Nil}]
  BY Zenon, <1>1 DEF Sound
<1>4. \A b \in Account : IF b = a THEN cache2[b] = r /\ r # Nil /\ h2[r] = object
                         ELSE /\ cache2[b] = cache[b] /\ cache[b] # r
                              /\ cache[b] # Nil => h2[cache[b]] = h[cache[b]]
  BY DEF Sound, Nil, Add
<1> HIDE DEF h2, cache2
<1>5. Sound(h2, t, cache2)
  BY <1>1, <1>2, <1>3, <1>4 DEF Sound
<1>6. \A b \in Account : (IF cache2[b] = Nil THEN t[b] ELSE h2[cache2[b]].account)
        = (IF b = a THEN object.account ELSE IF cache[b] = Nil THEN t[b] ELSE h[cache[b]].account)
  BY Zenon, <1>4
<1>7. Shown(h2, t, cache2) = [Shown(h, t, cache) EXCEPT ![a] = object.account]
  BY ZenonT(40), <1>6 DEF Shown
<1> QED
  BY Zenon, <1>5, <1>7 DEF h2, cache2

(* View is Shown of the fields of a Statedb. *)
LEMMA ViewIsShown ==
  \A s : View(s.heap, s.db) = Shown(s.heap, s.db.trie, s.db.cache)
  BY Zenon DEF View, Shown

(* Statedb.cache *)
LEMMA CacheSound ==
  ASSUME NEW s, SoundState(s), NEW a \in Account, s.db.cache[a] = Nil,
         NEW object \in Object, ~object.dirty => s.db.trie[a] = object.account
  PROVE  /\ SoundState(Cache(s, a, object)) /\ Cache(s, a, object).db.cache[a] # Nil
         /\ View(Cache(s, a, object).heap, Cache(s, a, object).db)
            = [View(s.heap, s.db) EXCEPT ![a] = object.account]
<1> DEFINE m == MakeRoom(s)
           r == Fresh(m.heap)
           c == Cache(s, a, object)
<1>1. /\ SoundState(m) /\ SameView(m, s) /\ Len(m.db.order) < StateCacheCapacity
      /\ m.db.cache[a] = Nil /\ m.db.trie[a] = s.db.trie[a]
  BY SMTT(30), MakeRoomSound
<1>2. r \in Nat \ {0} /\ r \notin DOMAIN m.heap
  BY Zenon, <1>1, FreshIsFree DEF SoundState, Sound
<1>3. /\ Shaped(c) /\ c.heap = Add(m.heap, r, object) /\ c.db.trie = m.db.trie
      /\ c.db.cache = [m.db.cache EXCEPT ![a] = r] /\ c.db.order = Append(m.db.order, a)
  <2>1. c = [heap |-> Add(m.heap, r, object),
             db |-> [m.db EXCEPT !.cache[a] = r, !.order = Append(m.db.order, a)]]
    BY Zenon DEF Cache, Add
  <2> HIDE DEF m, r, c
  <2>2. DOMAIN m.db = {"trie", "cache", "order"}
    BY Zenon, <1>1 DEF SoundState, Shaped
  <2>3. /\ DOMAIN c = {"heap", "db"} /\ c.heap = Add(m.heap, r, object)
        /\ c.db = [m.db EXCEPT !.cache[a] = r, !.order = Append(m.db.order, a)]
    BY Zenon, <2>1
  <2>4. /\ DOMAIN c.db = {"trie", "cache", "order"}
        /\ c.db.trie = m.db.trie /\ c.db.cache = [m.db.cache EXCEPT ![a] = r]
        /\ c.db.order = Append(m.db.order, a)
    BY Zenon, <2>2, <2>3
  <2> QED
    BY Zenon, <2>3, <2>4 DEF Shaped
<1> HIDE DEF m, r, c
<1>4. /\ Sound(c.heap, c.db.trie, c.db.cache)
      /\ Shown(c.heap, c.db.trie, c.db.cache)
         = [Shown(m.heap, m.db.trie, m.db.cache) EXCEPT ![a] = object.account]
  BY SMTT(30), <1>1, <1>2, <1>3, AddSound DEF SoundState
<1>5. m.db.cache \in [Account -> Nat]
  BY <1>1 DEF SoundState, Sound, Nil
<1>6. c.db.cache[a] # Nil
  BY Zenon, <1>2, <1>3, <1>5 DEF Nil
<1>7. Ordered(c.db.order, c.db.cache)
  <2>1. Ordered(m.db.order, m.db.cache)
    BY Zenon, <1>1 DEF SoundState
  <2>2. Ordered(Append(m.db.order, a), [m.db.cache EXCEPT ![a] = r])
    BY Zenon, <1>1, <1>2, <1>5, <2>1, AppendOrdered
  <2> QED
    BY Zenon, <1>3, <2>2
<1>8. View(c.heap, c.db) = [View(s.heap, s.db) EXCEPT ![a] = object.account]
  BY Zenon, <1>1, <1>4, ViewIsShown DEF SameView
<1>9. SoundState(c)
  BY Zenon, <1>3, <1>4, <1>7 DEF SoundState
<1> QED
  BY Zenon, <1>6, <1>8, <1>9 DEF c

(* Account a of a map of accounts, if it exists, is replaced; or it is made. *)
Put(m, a, account) == IF m[a] = NoAccount THEN m ELSE [m EXCEPT ![a] = account]
Open(m, a) == IF m[a] = NoAccount THEN [m EXCEPT ![a] = NewAccount] ELSE m

(* What is shown of an account is an account or none. *)
LEMMA ViewType ==
  ASSUME NEW s, SoundState(s)
  PROVE  View(s.heap, s.db) \in [Account -> Accounts \cup {NoAccount}]
<1>1. Sound(s.heap, s.db.trie, s.db.cache)
  BY Zenon DEF SoundState
<1>2. \A a \in Account : s.db.cache[a] # Nil => s.heap[s.db.cache[a]].account \in Accounts
  BY Zenon, <1>1 DEF Sound, Object
<1>3. \A a \in Account : s.db.trie[a] \in Accounts \cup {NoAccount}
  BY Zenon, <1>1 DEF Sound
<1> QED
  BY Zenon, <1>2, <1>3 DEF View

(* What a getter reads is an account. *)
LEMMA ReadAccountType ==
  ASSUME NEW s, SoundState(s), NEW a \in Account
  PROVE  ReadAccount(s, a) \in Accounts
  BY Zenon, ViewType, NoAccountIsNone DEF ReadAccount

(* getStateObject: a hit, a miss and an account that does not exist. *)
LEMMA GetSound ==
  ASSUME NEW s, SoundState(s), NEW a \in Account
  PROVE  /\ SoundState(GetStateObject(s, a)) /\ SameView(GetStateObject(s, a), s)
         /\ GetStateObject(s, a).db.cache[a] = Nil <=> View(s.heap, s.db)[a] = NoAccount
<1> DEFINE g == GetStateObject(s, a)
<1>1. Shaped(s) /\ Sound(s.heap, s.db.trie, s.db.cache) /\ Ordered(s.db.order, s.db.cache)
  BY Zenon DEF SoundState
<1>2. CASE s.db.cache[a] # Nil
  <2>1. g = [s EXCEPT !.db.order = Touch(s.db.order, a)]
    BY Zenon, <1>2 DEF GetStateObject
  <2>2. /\ Shaped(g) /\ g.heap = s.heap /\ g.db.trie = s.db.trie /\ g.db.cache = s.db.cache
        /\ g.db.order = Touch(s.db.order, a)
    BY Zenon, <1>1, <2>1 DEF Shaped
  <2>3. s.db.cache \in [Account -> Nat]
    BY <1>1 DEF Sound, Nil
  <2>4. Ordered(g.db.order, g.db.cache)
    BY SMTT(30), <1>1, <1>2, <2>2, <2>3, TouchOrdered
  <2>5. View(s.heap, s.db)[a] \in Accounts
    BY Zenon, <1>1, <1>2 DEF View, Sound, Object
  <2> HIDE DEF g
  <2>6. SoundState(g)
    BY Zenon, <1>1, <2>2, <2>4 DEF SoundState
  <2>7. SameView(g, s)
    BY Zenon, <2>2, ViewIsShown DEF SameView
  <2>8. g.db.cache[a] # Nil
    BY Zenon, <1>2, <2>2
  <2> QED
    BY Zenon, <2>5, <2>6, <2>7, <2>8, NoAccountIsNone DEF g
<1>3. CASE s.db.cache[a] = Nil /\ s.db.trie[a] = NoAccount
  <2>1. g = s
    BY Zenon, <1>3 DEF GetStateObject
  <2>2. View(s.heap, s.db)[a] = NoAccount
    BY Zenon, <1>3 DEF View
  <2> QED
    BY Zenon, <1>3, <2>1, <2>2 DEF SameView
<1>4. CASE s.db.cache[a] = Nil /\ s.db.trie[a] # NoAccount
  <2> DEFINE object == [account |-> s.db.trie[a], dirty |-> FALSE, dirtyCode |-> FALSE]
  <2>1. g = Cache(s, a, object)
    BY Zenon, <1>4 DEF GetStateObject
  <2>2. object \in Object /\ ~object.dirty /\ object.account = s.db.trie[a]
    BY Zenon, <1>1, <1>4 DEF Sound, Object
  <2>3. View(s.heap, s.db)[a] = s.db.trie[a]
    BY Zenon, <1>4 DEF View
  <2> HIDE DEF object, g
  <2>4. /\ SoundState(g) /\ g.db.cache[a] # Nil
        /\ View(g.heap, g.db) = [View(s.heap, s.db) EXCEPT ![a] = object.account]
    BY <1>4, <2>1, <2>2, CacheSound
  <2>5. SameView(g, s)
    BY Zenon, <2>2, <2>3, <2>4, ViewType DEF SameView
  <2> QED
    BY Zenon, <1>4, <2>3, <2>4, <2>5 DEF g
<1> QED
  BY Zenon, <1>2, <1>3, <1>4

(* GetOrNewStateObject creates an account that does not exist. *)
LEMMA GetOrNewSound ==
  ASSUME NEW s, SoundState(s), NEW a \in Account
  PROVE  /\ SoundState(GetOrNewStateObject(s, a))
         /\ View(GetOrNewStateObject(s, a).heap, GetOrNewStateObject(s, a).db)
            = Open(View(s.heap, s.db), a)
<1> DEFINE g == GetStateObject(s, a)
           object == [account |-> NewAccount, dirty |-> TRUE, dirtyCode |-> FALSE]
           n == GetOrNewStateObject(s, a)
<1>1. SoundState(g) /\ SameView(g, s) /\ (g.db.cache[a] = Nil <=> View(s.heap, s.db)[a] = NoAccount)
  BY Zenon, GetSound
<1>2. n = IF g.db.cache[a] # Nil THEN g ELSE Cache(g, a, object)
  BY Zenon DEF GetOrNewStateObject
<1>3. object \in Object /\ object.dirty = TRUE /\ object.account = NewAccount
  BY Zenon, NoAccountIsNone DEF Object
<1> HIDE DEF g, object, n
<1>4. CASE g.db.cache[a] # Nil
  BY Zenon, <1>1, <1>2, <1>4 DEF Open, SameView, n
<1>5. CASE g.db.cache[a] = Nil
  <2>1. SoundState(n) /\ View(n.heap, n.db) = [View(g.heap, g.db) EXCEPT ![a] = object.account]
    BY Zenon, <1>1, <1>2, <1>3, <1>5, CacheSound
  <2> QED
    BY Zenon, <1>1, <1>3, <1>5, <2>1 DEF Open, SameView, n
<1> QED
  BY Zenon, <1>4, <1>5

(* The object of a cached account is replaced by one that is dirty or stored. *)
LEMMA ReplaceSound ==
  ASSUME NEW h, NEW t, NEW cache, Sound(h, t, cache), NEW a \in Account, cache[a] # Nil,
         NEW object \in Object, ~object.dirty => t[a] = object.account
  PROVE  /\ Sound([h EXCEPT ![cache[a]] = object], t, cache)
         /\ Shown([h EXCEPT ![cache[a]] = object], t, cache)
            = [Shown(h, t, cache) EXCEPT ![a] = object.account]
<1> DEFINE p == cache[a]
           h2 == [h EXCEPT ![p] = object]
<1>1. p \in DOMAIN h /\ DOMAIN h2 = DOMAIN h /\ h2 \in [DOMAIN h -> Object] /\ h2[p] = object
  BY Zenon DEF Sound
<1>2. \A b \in Account : b # a /\ cache[b] # Nil => cache[b] # p /\ cache[b] \in DOMAIN h
  BY Zenon DEF Sound
<1> HIDE DEF p
<1>3. \A b \in Account : b # a /\ cache[b] # Nil => h2[cache[b]] = h[cache[b]]
  BY Zenon, <1>2
<1> HIDE DEF h2
<1>4. Sound(h2, t, cache)
  BY Zenon, <1>1, <1>3 DEF Sound, p
<1>5. \A b \in Account : (IF cache[b] = Nil THEN t[b] ELSE h2[cache[b]].account)
        = (IF b = a THEN object.account ELSE IF cache[b] = Nil THEN t[b] ELSE h[cache[b]].account)
  BY Zenon, <1>1, <1>3 DEF p
<1>6. Shown(h2, t, cache) = [Shown(h, t, cache) EXCEPT ![a] = object.account]
  BY Zenon, <1>5 DEF Shown
<1> QED
  BY Zenon, <1>4, <1>6 DEF h2, p

(* The setters: a new account for one that exists. *)
LEMMA ModifySound ==
  ASSUME NEW s, SoundState(s), NEW a \in Account, NEW account \in Accounts
  PROVE  /\ SoundState(Modify(s, a, account))
         /\ View(Modify(s, a, account).heap, Modify(s, a, account).db)
            = Put(View(s.heap, s.db), a, account)
<1> DEFINE g == GetStateObject(s, a)
           p == g.db.cache[a]
           m == Modify(s, a, account)
<1>1. SoundState(g) /\ SameView(g, s) /\ (p = Nil <=> View(s.heap, s.db)[a] = NoAccount)
  BY Zenon, GetSound
<1>2. m = IF p = Nil THEN g ELSE [g EXCEPT !.heap[p].account = account, !.heap[p].dirty = TRUE]
  BY Zenon DEF Modify
<1> HIDE DEF g, m
<1>3. CASE p = Nil
  BY Zenon, <1>1, <1>2, <1>3 DEF Put, SameView, m
<1>4. CASE p # Nil
  <2> DEFINE object == [g.heap[p] EXCEPT !.account = account, !.dirty = TRUE]
  <2>1. Shaped(g) /\ Sound(g.heap, g.db.trie, g.db.cache) /\ Ordered(g.db.order, g.db.cache)
    BY Zenon, <1>1 DEF SoundState
  <2>2. m.db = g.db /\ DOMAIN m = {"heap", "db"} /\ m.heap = [g.heap EXCEPT ![p] = object]
    BY Zenon, <1>2, <1>4, <2>1 DEF Shaped
  <2>3. g.heap[p] \in Object
    BY Zenon, <1>4, <2>1 DEF Sound
  <2>4. object \in Object /\ object.dirty = TRUE /\ object.account = account
    BY Zenon, <2>3 DEF Object
  <2> HIDE DEF object
  <2>5. /\ Sound(m.heap, g.db.trie, g.db.cache)
        /\ Shown(m.heap, g.db.trie, g.db.cache)
           = [Shown(g.heap, g.db.trie, g.db.cache) EXCEPT ![a] = account]
    BY <1>4, <2>1, <2>2, <2>4, ReplaceSound
  <2>6. SoundState(m)
    BY Zenon, <2>1, <2>2, <2>5 DEF SoundState, Shaped
  <2>7. View(m.heap, m.db) = [View(s.heap, s.db) EXCEPT ![a] = account]
    BY Zenon, <1>1, <2>2, <2>5, ViewIsShown DEF SameView
  <2> QED
    BY Zenon, <1>1, <1>4, <2>6, <2>7 DEF Put, m
<1> QED
  BY Zenon, <1>3, <1>4

(* AddBalance changes one account at most. *)
LEMMA AddBalanceSound ==
  ASSUME NEW s, SoundState(s), NEW a \in Account, NEW n \in Int
  PROVE  /\ SoundState(AddBalance(s, a, n))
         /\ LET old == ReadAccount(s, a)
            IN  View(AddBalance(s, a, n).heap, AddBalance(s, a, n).db)
                = IF old.amount + n < 0 THEN View(s.heap, s.db)
                  ELSE Put(View(s.heap, s.db), a, [old EXCEPT !.amount = @ + n])
<1> DEFINE old == ReadAccount(s, a)
<1>1. old \in Accounts
  BY Zenon, ReadAccountType
<1>2. CASE old.amount + n < 0
  BY Zenon, <1>2, GetSound DEF AddBalance, SameView
<1>3. CASE ~(old.amount + n < 0)
  <2>1. [old EXCEPT !.amount = @ + n] \in Accounts
    <3> HIDE DEF old
    <3> QED BY <1>1, <1>3 DEF Accounts
  <2>2. AddBalance(s, a, n) = Modify(s, a, [old EXCEPT !.amount = @ + n])
    BY Zenon, <1>3 DEF AddBalance
  <2> QED
    BY Zenon, <1>3, <2>1, <2>2, ModifySound
<1> QED
  BY Zenon, <1>2, <1>3

(* SetNonce changes one account at most. *)
LEMMA SetNonceSound ==
  ASSUME NEW s, SoundState(s), NEW a \in Account, NEW n \in Nat
  PROVE  /\ SoundState(SetNonce(s, a, n))
         /\ View(SetNonce(s, a, n).heap, SetNonce(s, a, n).db)
            = Put(View(s.heap, s.db), a, [ReadAccount(s, a) EXCEPT !.nonce = n])
<1>1. [ReadAccount(s, a) EXCEPT !.nonce = n] \in Accounts
  BY Zenon, ReadAccountType DEF Accounts
<1> QED
  BY Zenon, <1>1, ModifySound DEF SetNonce

(* SetCode changes one account at most; dirtyCode is not part of what is shown. *)
LEMMA SetCodeSound ==
  ASSUME NEW s, SoundState(s), NEW a \in Account
  PROVE  /\ SoundState(SetCode(s, a))
         /\ View(SetCode(s, a).heap, SetCode(s, a).db)
            = Put(View(s.heap, s.db), a, [ReadAccount(s, a) EXCEPT !.code = TRUE])
<1> DEFINE m == Modify(s, a, [ReadAccount(s, a) EXCEPT !.code = TRUE])
           p == m.db.cache[a]
           c == SetCode(s, a)
<1>1. [ReadAccount(s, a) EXCEPT !.code = TRUE] \in Accounts
  BY Zenon, ReadAccountType DEF Accounts
<1>2. /\ SoundState(m)
      /\ View(m.heap, m.db) = Put(View(s.heap, s.db), a, [ReadAccount(s, a) EXCEPT !.code = TRUE])
  BY Zenon, <1>1, ModifySound
<1>3. c = IF p = Nil THEN m ELSE [m EXCEPT !.heap[p].dirtyCode = TRUE]
  BY Zenon DEF SetCode
<1> HIDE DEF m, c
<1>4. CASE p = Nil
  BY Zenon, <1>2, <1>3, <1>4 DEF c
<1>5. CASE p # Nil
  <2> DEFINE object == [m.heap[p] EXCEPT !.dirtyCode = TRUE]
  <2>1. Shaped(m) /\ Sound(m.heap, m.db.trie, m.db.cache) /\ Ordered(m.db.order, m.db.cache)
    BY Zenon, <1>2 DEF SoundState
  <2>2. c.db = m.db /\ DOMAIN c = {"heap", "db"} /\ c.heap = [m.heap EXCEPT ![p] = object]
    BY Zenon, <1>3, <1>5, <2>1 DEF Shaped
  <2>3. m.heap[p] \in Object /\ (~m.heap[p].dirty => m.db.trie[a] = m.heap[p].account)
    BY Zenon, <1>5, <2>1 DEF Sound
  <2>4. /\ object \in Object /\ object.account = m.heap[p].account
        /\ ~object.dirty => m.db.trie[a] = object.account
    BY Zenon, <2>3 DEF Object
  <2>5. Shown(m.heap, m.db.trie, m.db.cache)[a] = m.heap[p].account
    BY SMTT(30), <1>5 DEF Shown
  <2> HIDE DEF object
  <2>6. /\ Sound(c.heap, m.db.trie, m.db.cache)
        /\ Shown(c.heap, m.db.trie, m.db.cache)
           = [Shown(m.heap, m.db.trie, m.db.cache) EXCEPT ![a] = object.account]
    BY <1>5, <2>1, <2>2, <2>4, ReplaceSound
  <2>7. Shown(c.heap, m.db.trie, m.db.cache) = Shown(m.heap, m.db.trie, m.db.cache)
    BY ZenonT(40), <2>4, <2>5, <2>6 DEF Shown
  <2>8. SoundState(c)
    BY Zenon, <2>1, <2>2, <2>6 DEF SoundState, Shaped
  <2>9. View(c.heap, c.db) = View(m.heap, m.db)
    BY Zenon, <2>2, <2>7, ViewIsShown
  <2> QED
    BY Zenon, <1>2, <2>8, <2>9 DEF c
<1> QED
  BY Zenon, <1>4, <1>5

(* A heap of objects, and a Statedb that points into it.  A Statedb whose    *)
(* objects a copy of it has changed is still formed, though no longer sound. *)
HeapOK(h) ==
  /\ IsFiniteSet(DOMAIN h) /\ DOMAIN h \subseteq Nat \ {Nil}
  /\ h \in [DOMAIN h -> Object]

DbOK(d) ==
  /\ DOMAIN d = {"trie", "cache", "order"}
  /\ d.trie \in [Account -> Accounts \cup {NoAccount}]
  /\ d.cache \in [Account -> Nat]
  /\ \A a, b \in Account : d.cache[a] = d.cache[b] /\ d.cache[a] # Nil => a = b
  /\ Ordered(d.order, d.cache)

Formed(h, d) ==
  HeapOK(h) /\ DbOK(d) /\ \A a \in Account : d.cache[a] # Nil => d.cache[a] \in DOMAIN h

FormedState(s) == DOMAIN s = {"heap", "db"} /\ Formed(s.heap, s.db)

(* Nothing is waiting for a commit: the trie and the objects have the        *)
(* accounts of m.                                                            *)
Mirrors(h, d, m) ==
  /\ d.trie = m
  /\ \A a \in Account : d.cache[a] # Nil =>
       ~h[d.cache[a]].dirty /\ h[d.cache[a]].account = m[a]

(* From s to t, the objects of other Statedbs stay as they are, and only new *)
(* objects come into the cache.                                              *)
Frame(s, t) ==
  /\ DOMAIN s.heap \subseteq DOMAIN t.heap
  /\ Cached(t.db) \cap DOMAIN s.heap \subseteq Cached(s.db)
  /\ \A r \in DOMAIN s.heap \ Cached(s.db) : t.heap[r] = s.heap[r]

(* A step after a step. *)
LEMMA FrameChain ==
  ASSUME NEW s, NEW t, NEW u, Frame(s, t), Frame(t, u)
  PROVE  Frame(s, u)
  BY Zenon DEF Frame

(* The pointers of a cache. *)
LEMMA CachedAre ==
  ASSUME NEW d, d.cache \in [Account -> Nat]
  PROVE  \A r : r \in Cached(d) <=> r # Nil /\ \E a \in Account : d.cache[a] = r
  BY Zenon DEF Cached

(* A sound Statedb is formed. *)
LEMMA SoundIsFormed ==
  ASSUME NEW s, SoundState(s)
  PROVE  FormedState(s)
  BY DEF SoundState, Shaped, Sound, FormedState, Formed, HeapOK, DbOK, Nil

(* A formed Statedb that mirrors a map is sound and shows the map. *)
LEMMA MirrorSound ==
  ASSUME NEW s, NEW m, FormedState(s), Mirrors(s.heap, s.db, m)
  PROVE  SoundState(s) /\ View(s.heap, s.db) = m
<1>1. /\ DOMAIN s = {"heap", "db"} /\ HeapOK(s.heap) /\ DbOK(s.db)
      /\ \A a \in Account : s.db.cache[a] # Nil => s.db.cache[a] \in DOMAIN s.heap
  BY Zenon DEF FormedState, Formed
<1>2. s.db.cache \in [Account -> DOMAIN s.heap \cup {Nil}]
  BY Zenon, <1>1 DEF DbOK
<1>3. Sound(s.heap, s.db.trie, s.db.cache)
  BY Zenon, <1>1, <1>2 DEF Sound, HeapOK, DbOK, Mirrors
<1>4. SoundState(s)
  BY Zenon, <1>1, <1>3 DEF SoundState, Shaped, DbOK
<1>5. View(s.heap, s.db) = m
  BY Zenon, <1>1 DEF View, Mirrors, DbOK
<1> QED
  BY Zenon, <1>4, <1>5

(* Commit makes a sound Statedb mirror what it shows. *)
LEMMA CommitMirrors ==
  ASSUME NEW s, SoundState(s)
  PROVE  Mirrors(Commit(s).heap, Commit(s).db, View(s.heap, s.db))
<1> DEFINE c == Commit(s)
           m == View(s.heap, s.db)
<1>1. /\ SoundState(c) /\ View(c.heap, c.db) = m /\ c.db.cache = s.db.cache
      /\ \A a \in Account : c.db.cache[a] # Nil => ~c.heap[c.db.cache[a]].dirty
  BY Zenon, CommitSound DEF SameView
<1> HIDE DEF c, m
<1>2. Sound(c.heap, c.db.trie, c.db.cache)
  BY Zenon, <1>1 DEF SoundState
<1>3. m = [a \in Account |-> IF c.db.cache[a] = Nil THEN c.db.trie[a]
                             ELSE c.heap[c.db.cache[a]].account]
  BY Zenon, <1>1 DEF View
<1>4. \A a \in Account : c.db.cache[a] # Nil => c.heap[c.db.cache[a]].account = m[a]
  BY Zenon, <1>3
<1>5. \A a \in Account : c.db.trie[a] = m[a]
  BY Zenon, <1>1, <1>2, <1>3 DEF Sound
<1>6. c.db.trie = m
  BY Zenon, <1>2, <1>3, <1>5 DEF Sound
<1> QED
  BY Zenon, <1>1, <1>4, <1>6 DEF Mirrors, c, m

(* What becomes of the objects that are there: nothing, or they are clean. *)
Kept(s, t) ==
  /\ DOMAIN s.heap \subseteq DOMAIN t.heap
  /\ \A r \in DOMAIN s.heap :
       \/ t.heap[r] = s.heap[r]
       \/ r \in Cached(s.db) /\ t.heap[r] = Clean(s.heap[r])

(* Nothing happens. *)
LEMMA SelfKept == \A s : Kept(s, s) /\ Frame(s, s)
  BY Zenon DEF Kept, Frame

(* Commit of a formed Statedb. *)
LEMMA CommitFormed ==
  ASSUME NEW s, FormedState(s)
  PROVE  /\ FormedState(Commit(s)) /\ Kept(s, Commit(s)) /\ DOMAIN Commit(s).heap = DOMAIN s.heap
         /\ Commit(s).db.cache = s.db.cache /\ Commit(s).db.order = s.db.order
         /\ \A m : Mirrors(s.heap, s.db, m) => Commit(s).db.trie = m
<1> DEFINE c == Commit(s)
<1>1. /\ DOMAIN s = {"heap", "db"} /\ HeapOK(s.heap) /\ DbOK(s.db)
      /\ \A a \in Account : s.db.cache[a] # Nil => s.db.cache[a] \in DOMAIN s.heap
  BY Zenon DEF FormedState, Formed
<1>2. /\ Shaped(c) /\ c.db.cache = s.db.cache /\ c.db.order = s.db.order
      /\ c.heap = [r \in DOMAIN s.heap |->
           IF r \in Cached(s.db) THEN Clean(s.heap[r]) ELSE s.heap[r]]
      /\ c.db.trie = [a \in Account |->
           IF s.db.cache[a] # Nil /\ s.heap[s.db.cache[a]].dirty
           THEN s.heap[s.db.cache[a]].account ELSE s.db.trie[a]]
  BY Zenon, <1>1, CommitFields DEF Shaped, DbOK
<1> HIDE DEF c
<1>3. /\ DOMAIN c.heap = DOMAIN s.heap
      /\ \A r \in DOMAIN s.heap : c.heap[r] = IF r \in Cached(s.db) THEN Clean(s.heap[r]) ELSE s.heap[r]
  BY Zenon, <1>2
<1>8. Kept(s, c)
  BY SMTT(30), <1>3 DEF Kept
<1>4. HeapOK(c.heap)
  <2>1. \A r \in DOMAIN s.heap : c.heap[r] \in Object
    BY Zenon, <1>1, <1>3, CleanObject DEF HeapOK
  <2> QED
    BY Zenon, <1>1, <1>2, <1>3, <2>1 DEF HeapOK
<1>5. c.db.trie \in [Account -> Accounts \cup {NoAccount}]
  <2>1. \A a \in Account : s.db.cache[a] # Nil => s.heap[s.db.cache[a]].account \in Accounts
    BY Zenon, <1>1 DEF HeapOK, Object
  <2> QED
    BY Zenon, <1>1, <1>2, <2>1 DEF DbOK
<1>6. FormedState(c)
  BY Zenon, <1>1, <1>2, <1>3, <1>4, <1>5 DEF FormedState, Formed, DbOK, Shaped
<1>7. ASSUME NEW m, Mirrors(s.heap, s.db, m) PROVE c.db.trie = m
  <2>1. s.db.trie = m /\ m \in [Account -> Accounts \cup {NoAccount}]
    BY Zenon, <1>1, <1>7 DEF Mirrors, DbOK
  <2>2. \A a \in Account : c.db.trie[a] = m[a]
    BY Zenon, <1>2, <1>7, <2>1 DEF Mirrors
  <2> QED
    BY Zenon, <1>2, <2>1, <2>2
<1> QED
  BY Zenon, <1>2, <1>3, <1>6, <1>7, <1>8 DEF c

(* The first half of Statedb.cache, on a formed Statedb. *)
LEMMA MakeRoomFormed ==
  ASSUME NEW s, FormedState(s)
  PROVE  /\ FormedState(MakeRoom(s)) /\ Kept(s, MakeRoom(s))
         /\ DOMAIN MakeRoom(s).heap = DOMAIN s.heap
         /\ \A a \in Account : MakeRoom(s).db.cache[a] \in {Nil, s.db.cache[a]}
         /\ Len(MakeRoom(s).db.order) < StateCacheCapacity
         /\ \A m : Mirrors(s.heap, s.db, m) => MakeRoom(s).db.trie = m
<1>1. CASE ~CacheFull(s)
  <2>1. MakeRoom(s) = s
    BY Zenon, <1>1 DEF MakeRoom, CacheFull
  <2>2. Len(s.db.order) < StateCacheCapacity
    BY <1>1, CacheAssumption DEF CacheFull, FormedState, Formed, DbOK, Ordered
  <2> QED
    BY Zenon, <2>1, <2>2, SelfKept DEF Mirrors
<1>2. CASE CacheFull(s)
  <2> DEFINE c == Commit(s)
             m == MakeRoom(s)
             E == Range(SubSeq(c.db.order, 1, CacheEvict))
  <2>1. /\ FormedState(c) /\ Kept(s, c) /\ DOMAIN c.heap = DOMAIN s.heap
        /\ c.db.cache = s.db.cache /\ c.db.order = s.db.order
        /\ \A n : Mirrors(s.heap, s.db, n) => c.db.trie = n
    BY Zenon, CommitFormed
  <2>2. m = [c EXCEPT !.db = RemoveOldest(c.db, CacheEvict)]
    BY Zenon, <1>2 DEF MakeRoom, CacheFull
  <2> HIDE DEF c, m
  <2>3. DOMAIN c = {"heap", "db"} /\ HeapOK(c.heap) /\ DbOK(c.db)
    BY Zenon, <2>1 DEF FormedState, Formed
  <2>4. DOMAIN c.db = {"trie", "cache", "order"}
    BY Zenon, <2>3 DEF DbOK
  <2>5. DOMAIN m = {"heap", "db"} /\ m.heap = c.heap /\ m.db = RemoveOldest(c.db, CacheEvict)
    BY Zenon, <2>2, <2>3
  <2>6. /\ DOMAIN m.db = {"trie", "cache", "order"}
        /\ m.db.trie = c.db.trie /\ m.db.cache = Without(c.db.cache, E)
        /\ m.db.order = SubSeq(c.db.order, CacheEvict + 1, Len(c.db.order))
    <3>1. LET d == RemoveOldest(c.db, CacheEvict)
          IN  /\ DOMAIN d = {"trie", "cache", "order"}
              /\ d.trie = c.db.trie /\ d.cache = Without(c.db.cache, E)
              /\ d.order = SubSeq(c.db.order, CacheEvict + 1, Len(c.db.order))
      BY Zenon, <2>4, RemoveOldestFields
    <3> QED
      BY Zenon, <2>5, <3>1
  <2>7. Ordered(m.db.order, m.db.cache) /\ Len(m.db.order) < StateCacheCapacity
    <3>1. /\ Ordered(c.db.order, c.db.cache) /\ c.db.cache \in [Account -> Nat]
          /\ Len(c.db.order) = StateCacheCapacity
      BY Zenon, <1>2, <2>1, <2>3 DEF DbOK, CacheFull
    <3> QED
      BY ZenonT(40), <2>6, <3>1, OldestOrdered
  <2> HIDE DEF E
  <2>8. \A a \in Account : m.db.cache[a] = IF a \in E THEN Nil ELSE s.db.cache[a]
    BY Zenon, <2>1, <2>6 DEF Without
  <2>9. m.db.cache \in [Account -> Nat]
    BY <2>3, <2>6 DEF DbOK, Without, Nil
  <2>10. DbOK(m.db)
    BY <2>1, <2>3, <2>6, <2>7, <2>8, <2>9 DEF DbOK
  <2>11. FormedState(m)
    BY Zenon, <2>1, <2>3, <2>5, <2>8, <2>10 DEF FormedState, Formed
  <2>12. Kept(s, m)
    BY Zenon, <2>1, <2>5 DEF Kept
  <2> QED
    BY Zenon, <2>1, <2>5, <2>6, <2>7, <2>8, <2>11, <2>12 DEF m
<1> QED
  BY Zenon, <1>1, <1>2

(* Statedb.cache, on a formed Statedb. *)
LEMMA CacheFormed ==
  ASSUME NEW s, FormedState(s), NEW a \in Account, s.db.cache[a] = Nil, NEW object \in Object
  PROVE  /\ FormedState(Cache(s, a, object)) /\ Kept(s, Cache(s, a, object))
         /\ Frame(s, Cache(s, a, object))
         /\ \A m : Mirrors(s.heap, s.db, m) /\ ~object.dirty /\ object.account = m[a] =>
              Mirrors(Cache(s, a, object).heap, Cache(s, a, object).db, m)
<1> DEFINE m == MakeRoom(s)
           r == Fresh(m.heap)
           c == Cache(s, a, object)
<1>1. /\ FormedState(m) /\ Kept(s, m) /\ DOMAIN m.heap = DOMAIN s.heap
      /\ \A b \in Account : m.db.cache[b] \in {Nil, s.db.cache[b]}
      /\ Len(m.db.order) < StateCacheCapacity
      /\ \A n : Mirrors(s.heap, s.db, n) => m.db.trie = n
  BY Zenon, MakeRoomFormed
<1>2. r \in Nat \ {0} /\ r \notin DOMAIN m.heap
  BY Zenon, <1>1, FreshIsFree DEF FormedState, Formed, HeapOK
<1>3. c = [heap |-> Add(m.heap, r, object),
           db |-> [m.db EXCEPT !.cache[a] = r, !.order = Append(m.db.order, a)]]
  BY Zenon DEF Cache, Add
<1> HIDE DEF m, r, c
<1>4. /\ HeapOK(m.heap) /\ DbOK(m.db) /\ m.db.cache[a] = Nil
      /\ \A b \in Account : m.db.cache[b] # Nil => m.db.cache[b] \in DOMAIN m.heap
  BY Zenon, <1>1 DEF FormedState, Formed
<1>5. DOMAIN m.db = {"trie", "cache", "order"} /\ m.db.cache \in [Account -> Nat]
  BY Zenon, <1>4 DEF DbOK
<1>6. /\ DOMAIN c = {"heap", "db"} /\ c.heap = Add(m.heap, r, object)
      /\ DOMAIN c.db = {"trie", "cache", "order"} /\ c.db.trie = m.db.trie
      /\ c.db.cache = [m.db.cache EXCEPT ![a] = r] /\ c.db.order = Append(m.db.order, a)
  BY Zenon, <1>3, <1>5
<1>7. /\ DOMAIN c.heap = DOMAIN m.heap \cup {r} /\ c.heap[r] = object
      /\ \A x \in DOMAIN m.heap : c.heap[x] = m.heap[x]
  BY Zenon, <1>2, <1>6 DEF Add
<1>8. HeapOK(c.heap)
  <2>1. IsFiniteSet(DOMAIN c.heap)
    BY <1>4, <1>7, FS_AddElement DEF HeapOK
  <2>2. c.heap \in [DOMAIN c.heap -> Object]
    BY Zenon, <1>4, <1>6, <1>7 DEF HeapOK, Add
  <2> QED
    BY Zenon, <1>2, <1>4, <1>7, <2>1, <2>2 DEF HeapOK, Nil
<1>9. \A b \in Account : c.db.cache[b] = IF b = a THEN r ELSE m.db.cache[b]
  BY Zenon, <1>5, <1>6
<1>10. Ordered(c.db.order, c.db.cache)
  BY <1>1, <1>2, <1>4, <1>5, <1>6, AppendOrdered DEF DbOK
<1>11. DbOK(c.db)
  <2>1. c.db.cache \in [Account -> Nat]
    BY Zenon, <1>2, <1>5, <1>6
  <2>2. \A b, d \in Account : c.db.cache[b] = c.db.cache[d] /\ c.db.cache[b] # Nil => b = d
    BY Zenon, <1>2, <1>4, <1>9 DEF DbOK
  <2> QED
    BY Zenon, <1>4, <1>6, <1>10, <2>1, <2>2 DEF DbOK
<1>12. FormedState(c)
  BY Zenon, <1>4, <1>6, <1>7, <1>8, <1>9, <1>11 DEF FormedState, Formed
<1>13. Kept(s, c)
  BY Zenon, <1>1, <1>7 DEF Kept
<1>14. Frame(s, c)
  <2>1. \A x \in Cached(c.db) \cap DOMAIN s.heap : x \in Cached(s.db)
    <3>1. s.db.cache \in [Account -> Nat] /\ c.db.cache \in [Account -> Nat]
      BY Zenon, <1>11 DEF FormedState, Formed, DbOK
    <3>2. ASSUME NEW b \in Account, c.db.cache[b] # Nil, c.db.cache[b] \in DOMAIN s.heap
          PROVE  c.db.cache[b] = s.db.cache[b]
      BY Zenon, <1>1, <1>2, <1>9, <3>2
    <3> TAKE x \in Cached(c.db) \cap DOMAIN s.heap
    <3>3. PICK b \in Account : c.db.cache[b] = x /\ x # Nil
      BY Zenon, <3>1, CachedAre
    <3>4. s.db.cache[b] = x
      BY Zenon, <3>2, <3>3
    <3> QED
      BY Zenon, <3>1, <3>3, <3>4, CachedAre
  <2> QED
    BY Zenon, <1>13, <2>1 DEF Frame, Kept
<1>15. ASSUME NEW n, Mirrors(s.heap, s.db, n), ~object.dirty, object.account = n[a]
       PROVE  Mirrors(c.heap, c.db, n)
  <2>1. c.db.trie = n
    BY Zenon, <1>1, <1>6, <1>15
  <2>2. ASSUME NEW b \in Account, c.db.cache[b] # Nil
        PROVE  ~c.heap[c.db.cache[b]].dirty /\ c.heap[c.db.cache[b]].account = n[b]
    <3>1. CASE b = a
      BY Zenon, <1>7, <1>9, <1>15, <3>1
    <3>2. CASE b # a
      <4> DEFINE x == s.db.cache[b]
      <4>1. c.db.cache[b] = x /\ x # Nil /\ x \in DOMAIN s.heap /\ c.heap[x] = m.heap[x]
        BY Zenon, <1>1, <1>4, <1>7, <1>9, <2>2, <3>2
      <4>2. ~s.heap[x].dirty /\ s.heap[x].account = n[b] /\ s.heap[x] \in Object
        BY Zenon, <1>15, <4>1 DEF Mirrors, FormedState, Formed, HeapOK
      <4>3. m.heap[x] = s.heap[x] \/ m.heap[x] = Clean(s.heap[x])
        BY Zenon, <1>1, <4>1 DEF Kept
      <4> QED
        BY <4>1, <4>2, <4>3, CleanObject
    <3> QED
      BY Zenon, <3>1, <3>2
  <2> QED
    BY Zenon, <2>1, <2>2 DEF Mirrors
<1> QED
  BY Zenon, <1>12, <1>13, <1>14, <1>15 DEF c

(* getStateObject, on a formed Statedb: what mirrors a map keeps doing so. *)
LEMMA GetFormed ==
  ASSUME NEW s, FormedState(s), NEW a \in Account
  PROVE  /\ FormedState(GetStateObject(s, a)) /\ Kept(s, GetStateObject(s, a))
         /\ Frame(s, GetStateObject(s, a))
         /\ \A m : Mirrors(s.heap, s.db, m) =>
              Mirrors(GetStateObject(s, a).heap, GetStateObject(s, a).db, m)
<1> DEFINE g == GetStateObject(s, a)
<1>1. /\ DOMAIN s = {"heap", "db"} /\ HeapOK(s.heap) /\ DbOK(s.db)
      /\ \A b \in Account : s.db.cache[b] # Nil => s.db.cache[b] \in DOMAIN s.heap
  BY Zenon DEF FormedState, Formed
<1>2. CASE s.db.cache[a] # Nil
  <2>1. g = [s EXCEPT !.db.order = Touch(s.db.order, a)]
    BY Zenon, <1>2 DEF GetStateObject
  <2>2. /\ DOMAIN g = {"heap", "db"} /\ g.heap = s.heap /\ g.db.trie = s.db.trie
        /\ g.db.cache = s.db.cache /\ DOMAIN g.db = {"trie", "cache", "order"}
        /\ g.db.order = Touch(s.db.order, a)
    BY Zenon, <1>1, <2>1 DEF DbOK
  <2> HIDE DEF g
  <2>3. Ordered(g.db.order, g.db.cache)
    BY SMTT(30), <1>1, <1>2, <2>2, TouchOrdered DEF DbOK
  <2>4. FormedState(g)
    BY Zenon, <1>1, <2>2, <2>3 DEF FormedState, Formed, DbOK
  <2>5. Kept(s, g) /\ Frame(s, g)
    BY Zenon, <2>2 DEF Kept, Frame, Cached
  <2>6. \A m : Mirrors(s.heap, s.db, m) => Mirrors(g.heap, g.db, m)
    BY Zenon, <2>2 DEF Mirrors
  <2> QED
    BY Zenon, <2>4, <2>5, <2>6 DEF g
<1>3. CASE s.db.cache[a] = Nil /\ s.db.trie[a] = NoAccount
  BY Zenon, <1>3, SelfKept DEF GetStateObject
<1>4. CASE s.db.cache[a] = Nil /\ s.db.trie[a] # NoAccount
  <2> DEFINE object == [account |-> s.db.trie[a], dirty |-> FALSE, dirtyCode |-> FALSE]
  <2>1. g = Cache(s, a, object)
    BY Zenon, <1>4 DEF GetStateObject
  <2>2. object \in Object /\ ~object.dirty /\ object.account = s.db.trie[a]
    BY Zenon, <1>1, <1>4 DEF DbOK, Object
  <2> HIDE DEF object, g
  <2>3. /\ FormedState(g) /\ Kept(s, g) /\ Frame(s, g)
        /\ \A m : Mirrors(s.heap, s.db, m) /\ object.account = m[a] => Mirrors(g.heap, g.db, m)
    BY Zenon, <1>4, <2>1, <2>2, CacheFormed
  <2>4. \A m : Mirrors(s.heap, s.db, m) => object.account = m[a]
    BY Zenon, <2>2 DEF Mirrors
  <2> QED
    BY Zenon, <2>3, <2>4 DEF g
<1> QED
  BY Zenon, <1>2, <1>3, <1>4

(* An operation on a formed Statedb leaves it formed, and touches the objects *)
(* of its own cache only.                                                     *)
Apart(s, t) == FormedState(t) /\ Frame(s, t)

(* One operation after the other. *)
LEMMA ApartChain ==
  ASSUME NEW s, NEW t, NEW u, Apart(s, t), Apart(t, u)
  PROVE  Apart(s, u)
  BY Zenon, FrameChain DEF Apart

(* getStateObject *)
LEMMA GetApart ==
  ASSUME NEW s, FormedState(s), NEW a \in Account
  PROVE  Apart(s, GetStateObject(s, a))
  BY Zenon, GetFormed DEF Apart

(* Commit *)
LEMMA CommitApart ==
  ASSUME NEW s, FormedState(s)
  PROVE  Apart(s, Commit(s))
<1>1. FormedState(Commit(s)) /\ Kept(s, Commit(s)) /\ Commit(s).db.cache = s.db.cache
  BY Zenon, CommitFormed
<1>2. Cached(Commit(s).db) = Cached(s.db)
  BY Zenon, <1>1 DEF Cached
<1> QED
  BY Zenon, <1>1, <1>2 DEF Kept, Frame, Apart

(* GetOrNewStateObject *)
LEMMA GetOrNewApart ==
  ASSUME NEW s, FormedState(s), NEW a \in Account
  PROVE  Apart(s, GetOrNewStateObject(s, a))
<1> DEFINE g == GetStateObject(s, a)
           object == [account |-> NewAccount, dirty |-> TRUE, dirtyCode |-> FALSE]
<1>1. Apart(s, g)
  BY Zenon, GetApart
<1>2. object \in Object
  BY Zenon, NoAccountIsNone DEF Object
<1>3. GetOrNewStateObject(s, a) = IF g.db.cache[a] # Nil THEN g ELSE Cache(g, a, object)
  BY Zenon DEF GetOrNewStateObject
<1> HIDE DEF g, object
<1>4. g.db.cache[a] = Nil => Apart(g, Cache(g, a, object))
  BY Zenon, <1>1, <1>2, CacheFormed DEF Apart
<1> QED
  BY Zenon, <1>1, <1>3, <1>4, ApartChain

(* The setters, with an account to set. *)
LEMMA ModifyApart ==
  ASSUME NEW s, FormedState(s), NEW a \in Account, NEW account \in Accounts
  PROVE  Apart(s, Modify(s, a, account))
<1> DEFINE g == GetStateObject(s, a)
           p == g.db.cache[a]
           m == Modify(s, a, account)
           object == [g.heap[p] EXCEPT !.account = account, !.dirty = TRUE]
<1>1. Apart(s, g)
  BY Zenon, GetApart
<1>2. m = IF p = Nil THEN g ELSE [g EXCEPT !.heap[p].account = account, !.heap[p].dirty = TRUE]
  BY Zenon DEF Modify
<1> HIDE DEF g, m
<1>3. CASE p = Nil
  BY Zenon, <1>1, <1>2, <1>3 DEF m
<1>4. CASE p # Nil
  <2>1. /\ DOMAIN g = {"heap", "db"} /\ HeapOK(g.heap) /\ DbOK(g.db)
        /\ \A b \in Account : g.db.cache[b] # Nil => g.db.cache[b] \in DOMAIN g.heap
    BY Zenon, <1>1 DEF Apart, FormedState, Formed
  <2>2. /\ DOMAIN m = {"heap", "db"} /\ m.db = g.db
        /\ m.heap = [g.heap EXCEPT ![p] = object]
    BY Zenon, <1>2, <1>4, <2>1
  <2>3. p \in Cached(g.db) /\ p \in DOMAIN g.heap
    BY Zenon, <1>4, <2>1 DEF Cached
  <2>4. object \in Object
    BY Zenon, <2>1, <2>3 DEF HeapOK, Object
  <2> HIDE DEF p, object
  <2>5. HeapOK(m.heap) /\ DOMAIN m.heap = DOMAIN g.heap
    <3>1. g.heap \in [DOMAIN g.heap -> Object]
      BY Zenon, <2>1 DEF HeapOK
    <3>2. DOMAIN m.heap = DOMAIN g.heap /\ m.heap \in [DOMAIN g.heap -> Object]
      BY Zenon, <2>2, <2>4, <3>1
    <3> QED
      BY Zenon, <2>1, <3>2 DEF HeapOK
  <2>6. FormedState(m)
    BY Zenon, <2>1, <2>2, <2>5 DEF FormedState, Formed
  <2>7. Frame(g, m)
    BY Zenon, <2>2, <2>3 DEF Frame
  <2> QED
    BY Zenon, <1>1, <2>6, <2>7, ApartChain DEF m, Apart
<1> QED
  BY Zenon, <1>3, <1>4

(* An account that is read. *)
LEMMA ReadFormed ==
  ASSUME NEW s, FormedState(s), NEW a \in Account
  PROVE  LET account == ReadAccount(s, a)
         IN account \in Accounts /\ account.amount \in Nat /\ account.nonce \in Nat
<1>1. s.db.cache[a] # Nil => s.heap[s.db.cache[a]].account \in Accounts
  BY Zenon DEF FormedState, Formed, HeapOK, Object
<1>2. s.db.trie[a] \in Accounts \cup {NoAccount}
  BY Zenon DEF FormedState, Formed, DbOK
<1>3. View(s.heap, s.db)[a] = IF s.db.cache[a] = Nil THEN s.db.trie[a] ELSE s.heap[s.db.cache[a]].account
  BY Zenon DEF View
<1>4. ReadAccount(s, a) \in Accounts
  BY Zenon, <1>1, <1>2, <1>3, NoAccountIsNone DEF ReadAccount
<1> QED
  BY Zenon, <1>4 DEF Accounts

(* AddBalance and SetNonce *)
LEMMA SettersApart ==
  ASSUME NEW s, FormedState(s), NEW a \in Account
  PROVE  (\A n \in Int : Apart(s, AddBalance(s, a, n))) /\ \A n \in Nat : Apart(s, SetNonce(s, a, n))
<1> DEFINE old == ReadAccount(s, a)
<1>1. old \in Accounts /\ old.amount \in Nat /\ old.nonce \in Nat
  BY Zenon, ReadFormed
<1>2. ASSUME NEW n \in Int PROVE Apart(s, AddBalance(s, a, n))
  <2>1. CASE old.amount + n < 0
    BY Zenon, <2>1, GetApart DEF AddBalance
  <2>2. CASE ~(old.amount + n < 0)
    <3>1. [old EXCEPT !.amount = @ + n] \in Accounts
      <4> HIDE DEF old
      <4> QED BY <1>1, <2>2 DEF Accounts
    <3>2. AddBalance(s, a, n) = Modify(s, a, [old EXCEPT !.amount = @ + n])
      BY Zenon, <2>2 DEF AddBalance
    <3> HIDE DEF old
    <3> QED
      BY Zenon, <3>1, <3>2, ModifyApart
  <2> QED
    BY Zenon, <2>1, <2>2
<1>3. ASSUME NEW n \in Nat PROVE Apart(s, SetNonce(s, a, n))
  <2>1. [old EXCEPT !.nonce = n] \in Accounts
    <3> HIDE DEF old
    <3> QED BY Zenon, <1>1 DEF Accounts
  <2> QED
    BY Zenon, <2>1, ModifyApart DEF SetNonce
<1> QED
  BY Zenon, <1>2, <1>3

=============================================================================

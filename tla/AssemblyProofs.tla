---------------------------- MODULE AssemblyProofs ----------------------------
(***************************************************************************)
(* BlockAssembly for every set of accounts and transactions, every capacity *)
(* of the caches and of the pool: the two maps of the pool agree, balances   *)
(* add up to the genesis supply and the rewards, nonces count what is sent,  *)
(* and what the miner seals on HEAD is accepted, unless a read of HEAD has   *)
(* committed what the miner had changed.                                     *)
(*                                                                         *)
(* A Statedb is followed through what it shows: a map of accounts (Map).     *)
(* Rewarded and Move are what a reward and a transaction do to the map, and  *)
(* Leads says that transactions are valid one after the other and lead from  *)
(* one map to another.  applyTransactions and updateStateDB are shown to     *)
(* compute Leads, by induction over the transactions.                        *)
(***************************************************************************)
EXTENDS BlockAssembly, StateObjectsProofs, WellFoundedInduction

(* A set of numbers has a least one. *)
LEMMA Least ==
  ASSUME NEW S \in SUBSET Nat, S # {}
  PROVE  \E n \in S : \A m \in S : n <= m
<1> DEFINE R == {ss \in Nat \X Nat : ss[1] < ss[2]}
<1>1. IsWellFoundedOn(R, Nat)
  BY Zenon, NatLessThanWellFounded DEF OpToRel
<1>2. \A x, y \in Nat : <<y, x>> \in R <=> y < x
  BY Zenon
<1> HIDE DEF R
<1>3. PICK n \in S : \A m \in S : <<m, n>> \notin R
  BY Zenon, <1>1, WFMin
<1>4. \A m \in S : ~(m < n)
  BY Zenon, <1>2, <1>3
<1> QED
  BY <1>4

(* Induction over the numbers of a set. *)
LEMMA Induct ==
  ASSUME NEW S, 0 \in S, \A n \in Nat : n \in S => n + 1 \in S
  PROVE  Nat \subseteq S
<1> DEFINE C == Nat \ S
<1>1. SUFFICES ASSUME C # {} PROVE FALSE
  BY Zenon
<1>2. PICK n \in C : \A m \in C : n <= m
  BY Zenon, <1>1, Least
<1>3. n # 0 /\ n - 1 \in Nat /\ n - 1 \in S
  BY <1>2
<1> QED
  BY <1>3, <1>2

-----------------------------------------------------------------------------
(* Sums over sets of accounts, as Total takes them.                          *)
First(S) == CHOOSE a \in S : TRUE

Sums(amounts, f) ==
  f = [S \in SUBSET Account |-> IF S = {} THEN 0 ELSE amounts[First(S)] + f[S \ {First(S)}]]

(* A set of accounts without its first. *)
LEMMA WithoutFirst ==
  ASSUME NEW S \in SUBSET Account, S # {}
  PROVE  /\ First(S) \in S /\ S \ {First(S)} \in SUBSET Account
         /\ Cardinality(S) \in Nat /\ Cardinality(S \ {First(S)}) = Cardinality(S) - 1
         /\ Cardinality(S) # 0
<1>1. First(S) \in S
  BY Zenon DEF First
<1>2. IsFiniteSet(S)
  BY Zenon, AssemblyAssumption, FS_Subset
<1> QED
  BY Zenon, <1>1, <1>2, FS_RemoveElement, FS_CardinalityType, FS_EmptySet

(* Total is the value of such a function at the set of all accounts. *)
LEMMA TotalSums ==
  ASSUME NEW amounts
  PROVE  \E f : Sums(amounts, f) /\ Total(amounts) = f[Account]
<1> DEFINE Upto(n) == {S \in SUBSET Account : Cardinality(S) <= n}
           Part(n, h) == h = [S \in Upto(n) |->
                                IF S = {} THEN 0 ELSE amounts[First(S)] + h[S \ {First(S)}]]
           N == {n \in Nat : \E h : Part(n, h)}
<1>1. 0 \in N
  <2>1. ASSUME NEW S \in Upto(0) PROVE S = {}
    <3>1. S \in SUBSET Account /\ Cardinality(S) <= 0
      BY Zenon
    <3>2. S # {} => Cardinality(S) \in Nat \ {0}
      BY Zenon, <3>1, WithoutFirst
    <3> QED
      BY <3>1, <3>2
  <2>2. Part(0, [S \in Upto(0) |-> 0])
    BY Zenon, <2>1
  <2> HIDE DEF Part
  <2> QED
    BY Zenon, <2>2
<1>2. ASSUME NEW n \in Nat, n \in N PROVE n + 1 \in N
  <2>1. PICK h : Part(n, h)
    BY Zenon, <1>2
  <2> DEFINE g == [S \in Upto(n + 1) |-> IF S = {} THEN 0 ELSE amounts[First(S)] + h[S \ {First(S)}]]
  <2>2. ASSUME NEW S \in Upto(n + 1), S # {} PROVE S \ {First(S)} \in Upto(n)
    BY <2>2, WithoutFirst
  <2>3. \A S \in Upto(n) : S \in Upto(n + 1) /\ g[S] = h[S]
    <3> TAKE S \in Upto(n)
    <3>1. S \in Upto(n + 1)
      <4>1. Cardinality(S) \in Nat
        BY Zenon, AssemblyAssumption, FS_Subset, FS_CardinalityType
      <4> QED
        BY <4>1
    <3> QED
      BY Zenon, <2>1, <3>1
  <2>4. Part(n + 1, g)
    <3>1. ASSUME NEW S \in Upto(n + 1), S # {} PROVE g[S] = amounts[First(S)] + g[S \ {First(S)}]
      BY Zenon, <2>2, <2>3, <3>1
    <3> QED
      BY Zenon, <3>1
  <2> HIDE DEF Part, g
  <2> QED
    BY <2>4
<1>3. \E h : Part(Cardinality(Account), h)
  <2>1. Cardinality(Account) \in Nat
    BY Zenon, AssemblyAssumption, FS_CardinalityType
  <2> QED
    BY Zenon, <1>1, <1>2, <2>1, Induct
<1>4. Upto(Cardinality(Account)) = SUBSET Account
  BY Zenon, AssemblyAssumption, FS_Subset
<1>5. \E h : Sums(amounts, h)
  <2>1. PICK h : Part(Cardinality(Account), h)
    BY Zenon, <1>3
  <2>2. Sums(amounts, h)
    BY Zenon, <1>4, <2>1 DEF Sums
  <2> QED
    BY Zenon, <2>2
<1>6. Total(amounts) = (CHOOSE f : Sums(amounts, f))[Account]
  BY Zenon DEF Total, Sums, First
<1> QED
  BY Zenon, <1>5, <1>6

(* What such a function is at a set, and that it is a number. *)
LEMMA SumsAt ==
  ASSUME NEW amounts \in [Account -> Int], NEW f, Sums(amounts, f)
  PROVE  /\ f[{}] = 0
         /\ \A S \in SUBSET Account : f[S] \in Int
         /\ \A S \in SUBSET Account : S # {} => f[S] = amounts[First(S)] + f[S \ {First(S)}]
<1>1. /\ f[{}] = 0
      /\ \A S \in SUBSET Account : S # {} => f[S] = amounts[First(S)] + f[S \ {First(S)}]
  <2>1. \A S \in SUBSET Account :
          f[S] = IF S = {} THEN 0 ELSE amounts[First(S)] + f[S \ {First(S)}]
    BY Zenon DEF Sums
  <2> QED
    BY Zenon, <2>1
<1> DEFINE N == {n \in Nat : \A S \in SUBSET Account : Cardinality(S) = n => f[S] \in Int}
<1>2. 0 \in N
  <2>1. \A S \in SUBSET Account : Cardinality(S) = 0 => S = {}
    BY Zenon, WithoutFirst
  <2>2. f[{}] \in Int
    BY <1>1
  <2> QED
    BY Zenon, <2>1, <2>2
<1>3. ASSUME NEW n \in Nat, n \in N PROVE n + 1 \in N
  <2> SUFFICES ASSUME NEW S \in SUBSET Account, Cardinality(S) = n + 1 PROVE f[S] \in Int
    OBVIOUS
  <2>1. S # {}
    BY FS_EmptySet
  <2>2. f[S \ {First(S)}] \in Int /\ First(S) \in Account
    BY <1>3, <2>1, WithoutFirst
  <2>3. f[S] = amounts[First(S)] + f[S \ {First(S)}]
    BY Zenon, <1>1, <2>1
  <2> QED
    BY <2>2, <2>3
<1>4. Nat \subseteq N
  BY Zenon, <1>2, <1>3, Induct
<1>5. \A S \in SUBSET Account : Cardinality(S) \in Nat
  BY Zenon, AssemblyAssumption, FS_Subset, FS_CardinalityType
<1> QED
  BY Zenon, <1>1, <1>4, <1>5

(* One balance changes: so does the sum, by as much. *)
LEMMA TotalChanges ==
  ASSUME NEW b \in [Account -> Int], NEW a \in Account, NEW n \in Int
  PROVE  Total([b EXCEPT ![a] = @ + n]) = Total(b) + n /\ Total(b) \in Int
<1> DEFINE c == [b EXCEPT ![a] = @ + n]
<1>1. c \in [Account -> Int] /\ \A x \in Account : c[x] = b[x] + (IF x = a THEN n ELSE 0)
  OBVIOUS
<1>2. PICK f : Sums(b, f) /\ Total(b) = f[Account]
  BY Zenon, TotalSums
<1>3. PICK g : Sums(c, g) /\ Total(c) = g[Account]
  BY Zenon, TotalSums
<1> HIDE DEF c
<1>4. /\ f[{}] = 0 /\ \A S \in SUBSET Account : f[S] \in Int
      /\ \A S \in SUBSET Account : S # {} => f[S] = b[First(S)] + f[S \ {First(S)}]
  BY Zenon, <1>2, SumsAt
<1>5. /\ g[{}] = 0 /\ \A S \in SUBSET Account : g[S] \in Int
      /\ \A S \in SUBSET Account : S # {} => g[S] = c[First(S)] + g[S \ {First(S)}]
  BY Zenon, <1>1, <1>3, SumsAt
<1> DEFINE By(S) == g[S] = f[S] + (IF a \in S THEN n ELSE 0)
           N == {k \in Nat : \A S \in SUBSET Account : Cardinality(S) = k => By(S)}
<1>6. 0 \in N
  <2>1. \A S \in SUBSET Account : Cardinality(S) = 0 => S = {}
    BY Zenon, WithoutFirst
  <2>2. By({})
    BY <1>4, <1>5
  <2> HIDE DEF By
  <2> QED
    BY Zenon, <2>1, <2>2
<1>7. ASSUME NEW k \in Nat, k \in N PROVE k + 1 \in N
  <2> SUFFICES ASSUME NEW S \in SUBSET Account, Cardinality(S) = k + 1 PROVE By(S)
    OBVIOUS
  <2> DEFINE x == First(S)
             T == S \ {x}
  <2>1. S # {}
    BY FS_EmptySet
  <2>2. x \in S /\ x \in Account /\ T \in SUBSET Account /\ Cardinality(T) = k
    BY <2>1, WithoutFirst
  <2>3. f[S] = b[x] + f[T] /\ g[S] = c[x] + g[T]
    BY Zenon, <1>4, <1>5, <2>1
  <2>4. g[T] = f[T] + (IF a \in T THEN n ELSE 0)
    BY Zenon, <1>7, <2>2
  <2>5. a \in T <=> a \in S /\ a # x
    BY Zenon
  <2>6. f[T] \in Int /\ b[x] \in Int /\ c[x] = b[x] + (IF x = a THEN n ELSE 0)
    BY Zenon, <1>1, <1>4, <2>2
  <2> HIDE DEF x, T
  <2> QED
    BY <2>2, <2>3, <2>4, <2>5, <2>6
<1>8. Nat \subseteq N
  BY Zenon, <1>6, <1>7, Induct
<1>9. Cardinality(Account) \in Nat
  BY Zenon, AssemblyAssumption, FS_CardinalityType
<1>10. By(Account)
  BY Zenon, <1>8, <1>9
<1> QED
  BY Zenon, <1>2, <1>3, <1>4, <1>10 DEF c

-----------------------------------------------------------------------------
(* What the operations do to a map of accounts, which is what a Statedb      *)
(* shows.                                                                    *)
Map == [Account -> Accounts \cup {NoAccount}]

Held(m, a) == IF m[a] = NoAccount THEN NewAccount ELSE m[a]

Pay(m, a, n) == Put(m, a, [Held(m, a) EXCEPT !.amount = @ + n])

Count(m, tx) == Put(m, From[tx], [Held(m, From[tx]) EXCEPT !.nonce = @ + 1])

Rewarded(m, creator) == Pay(Open(m, creator), creator, Reward)

Allowed(m, tx) ==
  Amount[tx] <= Held(m, From[tx]).amount /\ Nonce[tx] >= Held(m, From[tx]).nonce

Move(m, tx) ==
  LET n == Count(m, tx)
  IN IF n[To[tx]] = NoAccount /\ Amount[tx] = 0 THEN n
     ELSE Pay(Pay(Open(n, To[tx]), From[tx], -Amount[tx]), To[tx], Amount[tx])

(* The fields of a transaction. *)
LEMMA TxFields ==
  ASSUME NEW tx \in Tx
  PROVE  From[tx] \in Account /\ To[tx] \in Account /\ Amount[tx] \in Nat /\ Nonce[tx] \in Nat
  BY Zenon, PoolAssumption, AssemblyAssumption

(* What is held is an account. *)
LEMMA HeldType ==
  ASSUME NEW m \in Map, NEW a \in Account
  PROVE  Held(m, a) \in Accounts /\ Held(m, a).amount \in Nat /\ Held(m, a).nonce \in Nat
<1>1. Held(m, a) \in Accounts
  BY Zenon, NoAccountIsNone DEF Held, Map
<1> QED
  BY Zenon, <1>1 DEF Accounts

(* ReadAccount reads what is shown. *)
LEMMA ReadIsHeld ==
  \A s, a : ReadAccount(s, a) = Held(View(s.heap, s.db), a)
  BY Zenon DEF ReadAccount, Held

(* An account that is put in place of another one. *)
LEMMA PutHolds ==
  ASSUME NEW m \in Map, NEW a \in Account, NEW account \in Accounts
  PROVE  /\ Put(m, a, account) \in Map
         /\ \A b \in Account :
              /\ Put(m, a, account)[b] = NoAccount <=> m[b] = NoAccount
              /\ Held(Put(m, a, account), b)
                 = IF b = a /\ m[a] # NoAccount THEN account ELSE Held(m, b)
<1> DEFINE p == Put(m, a, account)
<1>1. p \in Map /\ \A b \in Account : p[b] = IF b = a /\ m[a] # NoAccount THEN account ELSE m[b]
  BY Zenon DEF Put, Map
<1> HIDE DEF p
<1> QED
  BY Zenon, <1>1, NoAccountIsNone DEF Held, p

(* Creating an account changes nothing that is held. *)
LEMMA OpenHolds ==
  ASSUME NEW m \in Map, NEW a \in Account
  PROVE  /\ Open(m, a) \in Map /\ Open(m, a)[a] # NoAccount
         /\ \A b \in Account : /\ m[b] # NoAccount => Open(m, a)[b] # NoAccount
                               /\ Held(Open(m, a), b) = Held(m, b)
<1> DEFINE p == Open(m, a)
<1>1. p \in Map /\ \A b \in Account : p[b] = IF b = a /\ m[a] = NoAccount THEN NewAccount ELSE m[b]
  BY Zenon, NoAccountIsNone DEF Open, Map
<1> HIDE DEF p
<1> QED
  BY Zenon, <1>1, NoAccountIsNone DEF Held, p

(* A payment to an account that exists, or of nothing. *)
LEMMA PayHolds ==
  ASSUME NEW m \in Map, NEW a \in Account, NEW n \in Int, Held(m, a).amount + n >= 0,
         m[a] # NoAccount \/ n = 0
  PROVE  /\ Pay(m, a, n) \in Map
         /\ \A b \in Account :
              /\ Pay(m, a, n)[b] = NoAccount <=> m[b] = NoAccount
              /\ Held(Pay(m, a, n), b).nonce = Held(m, b).nonce
              /\ Held(Pay(m, a, n), b).amount = Held(m, b).amount + (IF b = a THEN n ELSE 0)
<1> DEFINE old == Held(m, a)
           new == [old EXCEPT !.amount = @ + n]
           p == Pay(m, a, n)
<1>1. old \in Accounts /\ old.amount \in Nat
  BY Zenon, HeldType
<1>2. p = Put(m, a, new)
  BY Zenon DEF Pay
<1> HIDE DEF old, p
<1>3. new \in Accounts /\ new.nonce = old.nonce /\ new.amount = old.amount + n
  BY <1>1 DEF Accounts, old
<1> HIDE DEF new
<1>4. p \in Map /\ \A b \in Account : /\ p[b] = NoAccount <=> m[b] = NoAccount
                                      /\ Held(p, b) = IF b = a /\ m[a] # NoAccount THEN new ELSE Held(m, b)
  BY Zenon, <1>2, <1>3, PutHolds
<1>5. ASSUME NEW b \in Account
      PROVE  /\ Held(p, b).nonce = Held(m, b).nonce
             /\ Held(p, b).amount = Held(m, b).amount + (IF b = a THEN n ELSE 0)
  <2>1. Held(m, b).amount \in Nat
    BY Zenon, HeldType
  <2>2. CASE b = a /\ m[a] # NoAccount
    BY Zenon, <1>3, <1>4, <2>2 DEF old
  <2>3. CASE ~(b = a /\ m[a] # NoAccount)
    BY <1>4, <2>1, <2>3
  <2> QED
    BY Zenon, <2>2, <2>3
<1> QED
  BY Zenon, <1>4, <1>5 DEF p

(* The nonce of the sender goes up, if the sender exists. *)
LEMMA CountHolds ==
  ASSUME NEW m \in Map, NEW tx \in Tx
  PROVE  /\ Count(m, tx) \in Map
         /\ \A b \in Account :
              /\ Count(m, tx)[b] = NoAccount <=> m[b] = NoAccount
              /\ Held(Count(m, tx), b).amount = Held(m, b).amount
              /\ Held(Count(m, tx), b).nonce = Held(m, b).nonce
                   + (IF b = From[tx] /\ m[b] # NoAccount THEN 1 ELSE 0)
<1> DEFINE a == From[tx]
           old == Held(m, a)
           new == [old EXCEPT !.nonce = @ + 1]
           p == Count(m, tx)
<1>1. a \in Account /\ old \in Accounts /\ old.nonce \in Nat
  BY Zenon, TxFields, HeldType
<1>2. p = Put(m, a, new)
  BY Zenon DEF Count
<1> HIDE DEF a, old, p
<1>3. new \in Accounts /\ new.amount = old.amount /\ new.nonce = old.nonce + 1
  BY <1>1 DEF Accounts
<1> HIDE DEF new
<1>4. p \in Map /\ \A b \in Account : /\ p[b] = NoAccount <=> m[b] = NoAccount
                                      /\ Held(p, b) = IF b = a /\ m[a] # NoAccount THEN new ELSE Held(m, b)
  BY Zenon, <1>1, <1>2, <1>3, PutHolds
<1>5. ASSUME NEW b \in Account
      PROVE  /\ Held(p, b).amount = Held(m, b).amount
             /\ Held(p, b).nonce = Held(m, b).nonce + (IF b = a /\ m[b] # NoAccount THEN 1 ELSE 0)
  <2>1. Held(m, b).nonce \in Nat
    BY Zenon, HeldType
  <2>2. CASE b = a /\ m[a] # NoAccount
    BY Zenon, <1>3, <1>4, <2>2 DEF old
  <2>3. CASE ~(b = a /\ m[a] # NoAccount)
    BY <1>4, <2>1, <2>3
  <2> QED
    BY Zenon, <2>2, <2>3
<1> QED
  BY Zenon, <1>4, <1>5 DEF p, a

(* What a transaction moves: the nonce of a sender that exists goes up, and  *)
(* the amount goes from one account to the other.                            *)
LEMMA MoveHolds ==
  ASSUME NEW m \in Map, NEW tx \in Tx, Allowed(m, tx)
  PROVE  /\ Move(m, tx) \in Map
         /\ \A b \in Account :
              /\ m[b] # NoAccount => Move(m, tx)[b] # NoAccount
              /\ Held(Move(m, tx), b).nonce = Held(m, b).nonce
                   + (IF b = From[tx] /\ m[b] # NoAccount THEN 1 ELSE 0)
              /\ Held(Move(m, tx), b).amount
                 = (Held(m, b).amount + (IF b = From[tx] THEN -Amount[tx] ELSE 0))
                   + (IF b = To[tx] THEN Amount[tx] ELSE 0)
<1> DEFINE n == Count(m, tx)
           o == Open(n, To[tx])
           p == Pay(o, From[tx], -Amount[tx])
           q == Pay(p, To[tx], Amount[tx])
           v == Move(m, tx)
<1>1. From[tx] \in Account /\ To[tx] \in Account /\ Amount[tx] \in Nat /\ -Amount[tx] \in Int
  BY TxFields
<1>2. v = IF n[To[tx]] = NoAccount /\ Amount[tx] = 0 THEN n ELSE q
  BY Zenon DEF Move
<1>3. /\ n \in Map
      /\ \A b \in Account :
           /\ n[b] = NoAccount <=> m[b] = NoAccount
           /\ Held(n, b).amount = Held(m, b).amount
           /\ Held(n, b).nonce = Held(m, b).nonce
                + (IF b = From[tx] /\ m[b] # NoAccount THEN 1 ELSE 0)
  BY Zenon, CountHolds
<1>4. \A b \in Account : Held(m, b).amount \in Nat /\ Held(m, b).nonce \in Nat
  BY Zenon, HeldType
<1>12. Amount[tx] <= Held(m, From[tx]).amount
  BY Zenon DEF Allowed
<1> HIDE DEF n, v
<1>5. CASE n[To[tx]] = NoAccount /\ Amount[tx] = 0
  BY <1>1, <1>2, <1>3, <1>4, <1>5 DEF v
<1>6. CASE ~(n[To[tx]] = NoAccount /\ Amount[tx] = 0)
  <2>1. /\ o \in Map /\ o[To[tx]] # NoAccount
        /\ \A b \in Account : (n[b] # NoAccount => o[b] # NoAccount) /\ Held(o, b) = Held(n, b)
    BY Zenon, <1>1, <1>3, OpenHolds
  <2> HIDE DEF o
  <2>2. Held(o, From[tx]).amount + -Amount[tx] >= 0
    BY <1>1, <1>3, <1>4, <1>12, <2>1
  <2>3. o[From[tx]] # NoAccount \/ -Amount[tx] = 0
    <3>1. CASE m[From[tx]] = NoAccount
      <4>1. Held(m, From[tx]).amount = 0
        BY Zenon, <3>1 DEF Held, NewAccount
      <4> QED
        BY <1>1, <1>12, <4>1
    <3>2. CASE m[From[tx]] # NoAccount
      BY Zenon, <1>1, <1>3, <2>1, <3>2
    <3> QED
      BY Zenon, <3>1, <3>2
  <2>4. /\ p \in Map
        /\ \A b \in Account :
             /\ p[b] = NoAccount <=> o[b] = NoAccount
             /\ Held(p, b).nonce = Held(o, b).nonce
             /\ Held(p, b).amount = Held(o, b).amount + (IF b = From[tx] THEN -Amount[tx] ELSE 0)
    BY <1>1, <2>1, <2>2, <2>3, PayHolds
  <2> HIDE DEF p
  <2>5. Held(p, To[tx]).amount + Amount[tx] >= 0 /\ p[To[tx]] # NoAccount
    <3>1. Held(p, To[tx]).amount \in Nat
      BY Zenon, <1>1, <2>4, HeldType
    <3> QED
      BY <1>1, <2>1, <2>4, <3>1
  <2>6. /\ q \in Map
        /\ \A b \in Account :
             /\ q[b] = NoAccount <=> p[b] = NoAccount
             /\ Held(q, b).nonce = Held(p, b).nonce
             /\ Held(q, b).amount = Held(p, b).amount + (IF b = To[tx] THEN Amount[tx] ELSE 0)
    BY <1>1, <2>4, <2>5, PayHolds
  <2> HIDE DEF q
  <2>7. v = q
    BY Zenon, <1>2, <1>6
  <2>8. ASSUME NEW b \in Account
        PROVE  /\ m[b] # NoAccount => q[b] # NoAccount
               /\ Held(q, b).nonce = Held(m, b).nonce
                    + (IF b = From[tx] /\ m[b] # NoAccount THEN 1 ELSE 0)
               /\ Held(q, b).amount
                  = (Held(m, b).amount + (IF b = From[tx] THEN -Amount[tx] ELSE 0))
                    + (IF b = To[tx] THEN Amount[tx] ELSE 0)
    <3>1. m[b] # NoAccount => q[b] # NoAccount
      BY Zenon, <1>3, <2>1, <2>4, <2>6
    <3>2. Held(q, b).nonce = Held(n, b).nonce
      BY Zenon, <2>1, <2>4, <2>6
    <3>3. Held(q, b).amount
          = (Held(n, b).amount + (IF b = From[tx] THEN -Amount[tx] ELSE 0))
            + (IF b = To[tx] THEN Amount[tx] ELSE 0)
      <4>1. /\ Held(q, b).amount = Held(p, b).amount + (IF b = To[tx] THEN Amount[tx] ELSE 0)
            /\ Held(p, b).amount = Held(o, b).amount + (IF b = From[tx] THEN -Amount[tx] ELSE 0)
            /\ Held(o, b) = Held(n, b)
        BY Zenon, <2>1, <2>4, <2>6
      <4> QED
        BY Zenon, <4>1
    <3> QED
      BY Zenon, <1>3, <3>1, <3>2, <3>3
  <2> QED
    BY Zenon, <2>6, <2>7, <2>8 DEF v
<1> QED
  BY Zenon, <1>5, <1>6

(* The creator of a block exists afterwards and has its reward. *)
LEMMA RewardHolds ==
  ASSUME NEW m \in Map, NEW c \in Account
  PROVE  /\ Rewarded(m, c) \in Map
         /\ \A b \in Account :
              /\ m[b] # NoAccount => Rewarded(m, c)[b] # NoAccount
              /\ Held(Rewarded(m, c), b).nonce = Held(m, b).nonce
              /\ Held(Rewarded(m, c), b).amount = Held(m, b).amount + (IF b = c THEN Reward ELSE 0)
<1> DEFINE o == Open(m, c)
           p == Pay(o, c, Reward)
<1>1. /\ o \in Map /\ o[c] # NoAccount
      /\ \A b \in Account : (m[b] # NoAccount => o[b] # NoAccount) /\ Held(o, b) = Held(m, b)
  BY Zenon, OpenHolds
<1>2. Rewarded(m, c) = p
  BY Zenon DEF Rewarded
<1> HIDE DEF o
<1>3. Held(o, c).amount + Reward >= 0 /\ Reward \in Int
  BY <1>1, HeldType, AssemblyAssumption
<1>4. /\ p \in Map
      /\ \A b \in Account :
           /\ p[b] = NoAccount <=> o[b] = NoAccount
           /\ Held(p, b).nonce = Held(o, b).nonce
           /\ Held(p, b).amount = Held(o, b).amount + (IF b = c THEN Reward ELSE 0)
  BY Zenon, <1>1, <1>3, PayHolds
<1> HIDE DEF p
<1> QED
  BY Zenon, <1>1, <1>2, <1>4

(* Balances is what is held. *)
LEMMA BalancesHeld ==
  ASSUME NEW m \in Map
  PROVE  /\ Balances(m) \in [Account -> Int]
         /\ \A a \in Account : Balances(m)[a] = Held(m, a).amount
<1>1. \A a \in Account : Balances(m)[a] = Held(m, a).amount
  BY Zenon DEF Balances, Held, NewAccount
<1>2. \A a \in Account : Held(m, a).amount \in Int
  BY HeldType
<1> QED
  BY Zenon, <1>1, <1>2 DEF Balances

(* A transaction makes no coin and loses none. *)
LEMMA MoveTotal ==
  ASSUME NEW m \in Map, NEW tx \in Tx, Allowed(m, tx)
  PROVE  Total(Balances(Move(m, tx))) = Total(Balances(m)) /\ Total(Balances(m)) \in Int
<1> DEFINE v == Move(m, tx)
           x == Balances(m)
           y == [x EXCEPT ![From[tx]] = @ + -Amount[tx]]
           z == [y EXCEPT ![To[tx]] = @ + Amount[tx]]
<1>1. From[tx] \in Account /\ To[tx] \in Account /\ Amount[tx] \in Int /\ -Amount[tx] \in Int
  BY TxFields
<1>2. /\ v \in Map
      /\ \A b \in Account : Held(v, b).amount
           = (Held(m, b).amount + (IF b = From[tx] THEN -Amount[tx] ELSE 0))
             + (IF b = To[tx] THEN Amount[tx] ELSE 0)
  BY MoveHolds
<1>3. x \in [Account -> Int] /\ \A b \in Account : x[b] = Held(m, b).amount
  BY Zenon, BalancesHeld
<1> HIDE DEF v, x
<1>4. Balances(v) \in [Account -> Int] /\ \A b \in Account : Balances(v)[b] = Held(v, b).amount
  BY Zenon, <1>2, BalancesHeld
<1>5. y \in [Account -> Int] /\ z \in [Account -> Int]
  BY <1>1, <1>3
<1>6. \A b \in Account : z[b] = (x[b] + (IF b = From[tx] THEN -Amount[tx] ELSE 0))
                                + (IF b = To[tx] THEN Amount[tx] ELSE 0)
  BY <1>1, <1>3
<1>7. Total(y) = Total(x) + -Amount[tx] /\ Total(x) \in Int
  BY Zenon, <1>1, <1>3, TotalChanges
<1> HIDE DEF y
<1>8. Total(z) = Total(y) + Amount[tx]
  BY Zenon, <1>1, <1>5, TotalChanges
<1> HIDE DEF z
<1>9. Balances(v) = z
  BY <1>2, <1>3, <1>4, <1>5, <1>6
<1> QED
  BY <1>1, <1>7, <1>8, <1>9 DEF v, x

(* A reward makes as many coins as it says. *)
LEMMA RewardTotal ==
  ASSUME NEW m \in Map, NEW c \in Account
  PROVE  Total(Balances(Rewarded(m, c))) = Total(Balances(m)) + Reward
<1> DEFINE v == Rewarded(m, c)
           x == Balances(m)
           z == [x EXCEPT ![c] = @ + Reward]
<1>1. /\ v \in Map
      /\ \A b \in Account : Held(v, b).amount = Held(m, b).amount + (IF b = c THEN Reward ELSE 0)
  BY Zenon, RewardHolds
<1>2. x \in [Account -> Int] /\ \A b \in Account : x[b] = Held(m, b).amount
  BY Zenon, BalancesHeld
<1> HIDE DEF v, x
<1>3. Balances(v) \in [Account -> Int] /\ \A b \in Account : Balances(v)[b] = Held(v, b).amount
  BY Zenon, <1>1, BalancesHeld
<1>4. z \in [Account -> Int] /\ \A b \in Account : z[b] = x[b] + (IF b = c THEN Reward ELSE 0)
  BY <1>2, AssemblyAssumption
<1>5. Total(z) = Total(x) + Reward
  <2>1. Reward \in Int
    BY AssemblyAssumption
  <2> QED
    BY Zenon, <1>2, <2>1, TotalChanges
<1> HIDE DEF z
<1>6. Balances(v) = z
  BY <1>1, <1>2, <1>3, <1>4
<1> QED
  BY Zenon, <1>5, <1>6 DEF v, x
(* The genesis balances. *)
LEMMA SupplyTotal == Total(Supply) \in Int /\ Total(Balances(GenesisTrie)) = Total(Supply)
<1>1. Supply \in [Account -> Nat]
  BY Zenon, AssemblyAssumption
<1>2. \A a \in Account : Balances(GenesisTrie)[a] = Supply[a]
  BY Zenon, <1>1, NoAccountIsNone DEF Balances, GenesisTrie, NewAccount, Accounts
<1>3. Balances(GenesisTrie) = Supply
  BY Zenon, <1>1, <1>2 DEF Balances
<1>4. Supply \in [Account -> Int] /\ Coinbase \in Account /\ 0 \in Int
  BY <1>1, AssemblyAssumption
<1>5. Total(Supply) \in Int
  BY Zenon, <1>4, TotalChanges
<1> QED
  BY Zenon, <1>3, <1>5

-----------------------------------------------------------------------------
(* What the handlers of a block do to what a Statedb shows.                  *)
(* Transaction.Validate reads what is shown. *)
LEMMA ValidIsAllowed ==
  \A s, tx : Valid(s, tx) <=> Allowed(View(s.heap, s.db), tx)
  BY Zenon, ReadIsHeld DEF Valid, Allowed

(* processContract counts a transaction. *)
LEMMA CountShows ==
  ASSUME NEW s, SoundState(s), NEW tx \in Tx
  PROVE  /\ SoundState(CountNonce(s, tx))
         /\ View(CountNonce(s, tx).heap, CountNonce(s, tx).db) = Count(View(s.heap, s.db), tx)
<1> DEFINE m == View(s.heap, s.db)
           n == SetNonce(s, From[tx], ReadAccount(s, From[tx]).nonce + 1)
<1>1. From[tx] \in Account
  BY TxFields
<1>2. m \in Map
  BY Zenon, ViewType DEF Map
<1>3. ReadAccount(s, From[tx]) = Held(m, From[tx]) /\ Held(m, From[tx]).nonce \in Nat
  BY Zenon, <1>1, <1>2, ReadIsHeld, HeldType
<1>4. ReadAccount(s, From[tx]).nonce + 1 \in Nat
  BY <1>3
<1>5. SoundState(n) /\ View(n.heap, n.db)
        = Put(m, From[tx], [ReadAccount(s, From[tx]) EXCEPT !.nonce = ReadAccount(s, From[tx]).nonce + 1])
  BY Zenon, <1>1, <1>4, SetNonceSound
<1> QED
  BY Zenon, <1>3, <1>5 DEF Count, CountNonce

(* evm.Call for a valid transaction that has been counted. *)
LEMMA CallShows ==
  ASSUME NEW n, SoundState(n), NEW tx \in Tx, NEW m \in Map, Allowed(m, tx),
         View(n.heap, n.db) = Count(m, tx)
  PROVE  /\ SoundState(Call(n, tx))
         /\ View(Call(n, tx).heap, Call(n, tx).db) = Move(m, tx)
<1> DEFINE o == GetOrNewStateObject(n, To[tx])
           p == AddBalance(o, From[tx], -Amount[tx])
           q == AddBalance(p, To[tx], Amount[tx])
           nn == Count(m, tx)
           oo == Open(nn, To[tx])
           pp == Pay(oo, From[tx], -Amount[tx])
<1>1. From[tx] \in Account /\ To[tx] \in Account /\ Amount[tx] \in Nat /\ -Amount[tx] \in Int
  BY TxFields
<1>3. SoundState(n) /\ View(n.heap, n.db) = nn
  BY Zenon
<1>4. nn \in Map /\ \A b \in Account : Held(nn, b).amount = Held(m, b).amount
  BY Zenon, CountHolds
<1>5. Call(n, tx) = IF View(n.heap, n.db)[To[tx]] = NoAccount /\ Amount[tx] = 0 THEN n ELSE q
  BY Zenon DEF Call
<1>6. Move(m, tx) = IF nn[To[tx]] = NoAccount /\ Amount[tx] = 0 THEN nn ELSE Pay(pp, To[tx], Amount[tx])
  BY Zenon DEF Move
<1> HIDE DEF nn
<1>7. SoundState(o) /\ View(o.heap, o.db) = oo
  BY Zenon, <1>1, <1>3, GetOrNewSound
<1>8. oo \in Map /\ \A b \in Account : Held(oo, b) = Held(nn, b)
  BY Zenon, <1>1, <1>4, OpenHolds
<1> HIDE DEF o, oo
<1>9. SoundState(p) /\ View(p.heap, p.db) = pp
  <2>1. ReadAccount(o, From[tx]) = Held(oo, From[tx])
    BY Zenon, <1>7, ReadIsHeld
  <2>2. ~(Held(oo, From[tx]).amount + -Amount[tx] < 0)
    <3>1. Amount[tx] <= Held(m, From[tx]).amount /\ Held(m, From[tx]).amount \in Nat
      BY Zenon, <1>1, HeldType DEF Allowed
    <3> QED
      BY <1>1, <1>4, <1>8, <3>1
  <2>3. LET old == ReadAccount(o, From[tx])
        IN  /\ SoundState(p)
            /\ View(p.heap, p.db) = IF old.amount + -Amount[tx] < 0 THEN View(o.heap, o.db)
                                    ELSE Put(View(o.heap, o.db), From[tx], [old EXCEPT !.amount = @ + -Amount[tx]])
    BY Zenon, <1>1, <1>7, AddBalanceSound
  <2> HIDE DEF p
  <2> QED
    BY Zenon, <1>7, <2>1, <2>2, <2>3 DEF Pay
<1> HIDE DEF p, pp
<1>10. SoundState(q) /\ View(q.heap, q.db) = Pay(pp, To[tx], Amount[tx])
  <2>1. ReadAccount(p, To[tx]) = Held(pp, To[tx]) /\ pp \in Map
    BY Zenon, <1>9, ReadIsHeld, ViewType DEF Map
  <2>2. ~(Held(pp, To[tx]).amount + Amount[tx] < 0) /\ Amount[tx] \in Int
    BY <1>1, <2>1, HeldType
  <2>3. LET old == ReadAccount(p, To[tx])
        IN  /\ SoundState(q)
            /\ View(q.heap, q.db) = IF old.amount + Amount[tx] < 0 THEN View(p.heap, p.db)
                                    ELSE Put(View(p.heap, p.db), To[tx], [old EXCEPT !.amount = @ + Amount[tx]])
    BY Zenon, <1>1, <1>9, <2>2, AddBalanceSound
  <2> HIDE DEF q
  <2> QED
    BY Zenon, <1>9, <2>1, <2>2, <2>3 DEF Pay
<1> HIDE DEF q
<1> QED
  BY Zenon, <1>3, <1>5, <1>6, <1>10

(* ApplyTransaction for a valid transaction. *)
LEMMA ApplyTransactionShows ==
  ASSUME NEW s, SoundState(s), NEW tx \in Tx, Valid(s, tx)
  PROVE  /\ SoundState(ApplyTransaction(s, tx))
         /\ View(ApplyTransaction(s, tx).heap, ApplyTransaction(s, tx).db)
            = Move(View(s.heap, s.db), tx)
<1> DEFINE m == View(s.heap, s.db)
           n == CountNonce(s, tx)
<1>1. m \in Map /\ Allowed(m, tx)
  BY Zenon, ViewType, ValidIsAllowed DEF Map
<1>2. SoundState(n) /\ View(n.heap, n.db) = Count(m, tx)
  BY Zenon, CountShows
<1> HIDE DEF m, n
<1>3. SoundState(Call(n, tx)) /\ View(Call(n, tx).heap, Call(n, tx).db) = Move(m, tx)
  BY Zenon, <1>1, <1>2, CallShows
<1> QED
  BY Zenon, <1>3 DEF ApplyTransaction, m, n

(* The reward of a block's creator. *)
LEMMA ApplyRewardShows ==
  ASSUME NEW s, SoundState(s), NEW c \in Account
  PROVE  /\ SoundState(ApplyReward(s, c))
         /\ View(ApplyReward(s, c).heap, ApplyReward(s, c).db) = Rewarded(View(s.heap, s.db), c)
<1> DEFINE m == View(s.heap, s.db)
           o == GetOrNewStateObject(s, c)
           p == AddBalance(o, c, Reward)
<1>1. SoundState(o) /\ View(o.heap, o.db) = Open(m, c)
  BY Zenon, GetOrNewSound
<1>2. Open(m, c) \in Map /\ Reward \in Nat /\ Reward \in Int
  <2>1. Open(m, c) \in Map /\ Reward \in Nat
    BY Zenon, ViewType, OpenHolds, AssemblyAssumption DEF Map
  <2> QED
    BY <2>1
<1>3. ApplyReward(s, c) = p
  BY Zenon DEF ApplyReward
<1> HIDE DEF m, o
<1>4. ReadAccount(o, c) = Held(Open(m, c), c) /\ ~(Held(Open(m, c), c).amount + Reward < 0)
  BY <1>1, <1>2, ReadIsHeld, HeldType
<1>5. SoundState(p) /\ View(p.heap, p.db) = Rewarded(m, c)
  BY Zenon, <1>1, <1>2, <1>4, AddBalanceSound DEF Pay, Rewarded
<1> QED
  BY Zenon, <1>3, <1>5 DEF m

(* The sender is read, and a valid transaction applied and committed. *)
LEMMA RoundShows ==
  ASSUME NEW s, SoundState(s), NEW tx \in Tx
  PROVE  LET r == Reads(s, From[tx])
             t == Commit(ApplyTransaction(r, tx))
         IN  /\ SoundState(r) /\ View(r.heap, r.db) = View(s.heap, s.db)
             /\ Valid(r, tx) <=> Allowed(View(s.heap, s.db), tx)
             /\ Valid(r, tx) => SoundState(t) /\ View(t.heap, t.db) = Move(View(s.heap, s.db), tx)
<1> DEFINE r == Reads(s, From[tx])
           u == ApplyTransaction(r, tx)
           t == Commit(u)
<1>1. SoundState(r) /\ View(r.heap, r.db) = View(s.heap, s.db)
  BY Zenon, TxFields, GetSound DEF Reads, SameView
<1>2. Valid(r, tx) <=> Allowed(View(s.heap, s.db), tx)
  BY Zenon, <1>1, ValidIsAllowed
<1>3. ASSUME Valid(r, tx)
      PROVE  SoundState(t) /\ View(t.heap, t.db) = Move(View(s.heap, s.db), tx)
  <2>1. SoundState(u) /\ View(u.heap, u.db) = Move(View(s.heap, s.db), tx)
    BY Zenon, <1>1, <1>3, ApplyTransactionShows
  <2> HIDE DEF u, r
  <2>2. SoundState(t) /\ View(t.heap, t.db) = View(u.heap, u.db)
    BY Zenon, <2>1, CommitSound DEF SameView
  <2> QED
    BY Zenon, <2>1, <2>2
<1> QED
  BY Zenon, <1>1, <1>2, <1>3

(* The reward, on a formed Statedb. *)
LEMMA RewardApart ==
  ASSUME NEW s, FormedState(s), NEW c \in Account
  PROVE  Apart(s, ApplyReward(s, c))
<1>1. Apart(s, GetOrNewStateObject(s, c)) /\ Reward \in Int
  BY GetOrNewApart, AssemblyAssumption
<1>2. Apart(GetOrNewStateObject(s, c), AddBalance(GetOrNewStateObject(s, c), c, Reward))
  BY Zenon, <1>1, SettersApart DEF Apart
<1> QED
  BY Zenon, <1>1, <1>2, ApartChain DEF ApplyReward

(* A transaction is counted, on a formed Statedb. *)
LEMMA CountApart ==
  ASSUME NEW s, FormedState(s), NEW tx \in Tx
  PROVE  Apart(s, CountNonce(s, tx))
<1>1. From[tx] \in Account
  BY TxFields
<1>2. ReadAccount(s, From[tx]).nonce + 1 \in Nat
  BY <1>1, ReadFormed
<1> QED
  BY Zenon, <1>1, <1>2, SettersApart DEF CountNonce

(* evm.Call, for a valid transaction or not, on a formed Statedb. *)
LEMMA CallApart ==
  ASSUME NEW n, FormedState(n), NEW tx \in Tx
  PROVE  Apart(n, Call(n, tx))
<1> DEFINE o == GetOrNewStateObject(n, To[tx])
           p == AddBalance(o, From[tx], -Amount[tx])
           q == AddBalance(p, To[tx], Amount[tx])
<1>1. From[tx] \in Account /\ To[tx] \in Account /\ Amount[tx] \in Int /\ -Amount[tx] \in Int
  BY TxFields
<1>2. Call(n, tx) \in {n, q}
  BY Zenon DEF Call
<1>3. Apart(n, o)
  BY Zenon, <1>1, GetOrNewApart
<1> HIDE DEF o
<1>4. Apart(o, p)
  BY Zenon, <1>1, <1>3, SettersApart DEF Apart
<1> HIDE DEF p
<1>5. Apart(p, q)
  BY Zenon, <1>1, <1>4, SettersApart DEF Apart
<1> HIDE DEF q
<1>6. Apart(n, q) /\ Apart(n, n)
  BY Zenon, <1>3, <1>4, <1>5, ApartChain, SelfKept DEF Apart
<1> QED
  BY Zenon, <1>2, <1>6

(* A transaction, valid or not, on a formed Statedb. *)
LEMMA RoundApart ==
  ASSUME NEW s, FormedState(s), NEW tx \in Tx
  PROVE  /\ Apart(s, Reads(s, From[tx]))
         /\ Apart(s, Commit(ApplyTransaction(Reads(s, From[tx]), tx)))
<1> DEFINE r == Reads(s, From[tx])
           n == CountNonce(r, tx)
           u == Call(n, tx)
<1>1. Apart(s, r)
  BY Zenon, TxFields, GetApart DEF Reads
<1> HIDE DEF r
<1>2. Apart(r, n)
  BY Zenon, <1>1, CountApart DEF Apart
<1> HIDE DEF n
<1>3. Apart(n, u)
  BY Zenon, <1>2, CallApart DEF Apart
<1> HIDE DEF u
<1>4. Apart(s, u)
  BY Zenon, <1>1, <1>2, <1>3, ApartChain
<1>5. Apart(u, Commit(u))
  BY Zenon, <1>4, CommitApart DEF Apart
<1> QED
  BY Zenon, <1>1, <1>4, <1>5, ApartChain DEF ApplyTransaction, r, n, u

-----------------------------------------------------------------------------
(* The loops over the transactions of a block.                               *)

(* The maps between the transactions of txs, from m. *)
Run(m, txs, f) ==
  /\ f \in [0 .. Len(txs) -> Map] /\ f[0] = m
  /\ \A i \in 1 .. Len(txs) : Allowed(f[i - 1], txs[i]) /\ f[i] = Move(f[i - 1], txs[i])

(* txs are all valid, one after the other, and lead from m to n. *)
Leads(m, txs, n) == \E f : Run(m, txs, f) /\ f[Len(txs)] = n

(* No transaction. *)
LEMMA LeadsNowhere ==
  ASSUME NEW m \in Map
  PROVE  Leads(m, <<>>, m)
<1> DEFINE f == [i \in 0 .. 0 |-> m]
<1>1. Len(<<>>) = 0 /\ f \in [0 .. 0 -> Map] /\ f[0] = m
  OBVIOUS
<1> HIDE DEF f
<1>2. Run(m, <<>>, f)
  BY <1>1 DEF Run
<1> QED
  BY Zenon, <1>1, <1>2 DEF Leads

(* One transaction more. *)
LEMMA LeadsOn ==
  ASSUME NEW m, NEW txs \in Seq(Tx), NEW n, Leads(m, txs, n),
         NEW tx \in Tx, Allowed(n, tx)
  PROVE  Leads(m, Append(txs, tx), Move(n, tx))
<1> DEFINE k == Len(txs)
           q == Append(txs, tx)
<1>1. PICK f : Run(m, txs, f) /\ f[k] = n
  BY Zenon DEF Leads
<1>2. /\ k \in Nat /\ Len(q) = k + 1 /\ q[k + 1] = tx
      /\ \A i \in 1 .. k : q[i] = txs[i]
  OBVIOUS
<1> HIDE DEF k, q
<1> DEFINE g == [i \in 0 .. k + 1 |-> IF i = k + 1 THEN Move(n, tx) ELSE f[i]]
<1>3. /\ f \in [0 .. k -> Map] /\ f[0] = m /\ n \in Map
      /\ \A i \in 1 .. k : Allowed(f[i - 1], txs[i]) /\ f[i] = Move(f[i - 1], txs[i])
  BY <1>1, <1>2 DEF Run, k
<1>4. Move(n, tx) \in Map
  BY Zenon, <1>3, MoveHolds
<1>5. /\ g \in [0 .. k + 1 -> Map] /\ g[k + 1] = Move(n, tx)
      /\ \A i \in 0 .. k : g[i] = f[i]
  BY <1>2, <1>3, <1>4
<1> HIDE DEF g
<1>6. ASSUME NEW i \in 1 .. k + 1 PROVE Allowed(g[i - 1], q[i]) /\ g[i] = Move(g[i - 1], q[i])
  <2>1. CASE i = k + 1
    <3>1. g[i - 1] = n /\ q[i] = tx /\ g[i] = Move(n, tx)
      BY <1>1, <1>2, <1>5, <2>1
    <3> QED
      BY Zenon, <3>1
  <2>2. CASE i # k + 1
    <3>1. i \in 1 .. k /\ i - 1 \in 0 .. k /\ i \in 0 .. k
      BY <1>2, <2>2
    <3>2. g[i - 1] = f[i - 1] /\ g[i] = f[i] /\ q[i] = txs[i]
      BY Zenon, <1>2, <1>5, <3>1
    <3> QED
      BY Zenon, <1>3, <3>1, <3>2
  <2> QED
    BY Zenon, <2>1, <2>2
<1>7. g[0] = m
  BY <1>2, <1>3, <1>5
<1>8. Run(m, q, g) /\ g[Len(q)] = Move(n, tx)
  BY Zenon, <1>2, <1>5, <1>6, <1>7 DEF Run
<1> QED
  BY Zenon, <1>8 DEF Leads, q

(* The loop of updateStateDB, round by round. *)
Verifying(s, creator, txs, h) ==
  h = [i \in 0 .. Len(txs) |-> IF i = 0 THEN [s |-> ApplyReward(s, creator), ok |-> TRUE]
                               ELSE VerifyOne(h[i - 1], txs[i])]

(* updateStateDB has such rounds, and its result is the last one. *)
LEMMA VerifyRounds ==
  ASSUME NEW s, NEW creator, NEW txs \in Seq(Tx)
  PROVE  \E h : Verifying(s, creator, txs, h) /\ Verify(s, creator, txs) = h[Len(txs)]
<1> DEFINE start == [s |-> ApplyReward(s, creator), ok |-> TRUE]
           Upto(k, h) == h = [i \in 0 .. k |-> IF i = 0 THEN start ELSE VerifyOne(h[i - 1], txs[i])]
           N == {k \in Nat : \E h : Upto(k, h)}
<1>1. 0 \in N
  <2>1. Upto(0, [i \in 0 .. 0 |-> start])
    <3> HIDE DEF start
    <3> QED OBVIOUS
  <2> HIDE DEF Upto
  <2> QED
    BY Zenon, <2>1
<1>2. ASSUME NEW k \in Nat, k \in N PROVE k + 1 \in N
  <2>1. PICK h : Upto(k, h)
    BY Zenon, <1>2
  <2> DEFINE g == [i \in 0 .. k + 1 |-> IF i = 0 THEN start ELSE VerifyOne(h[i - 1], txs[i])]
  <2> HIDE DEF start
  <2>2. \A i \in 0 .. k : g[i] = h[i]
    BY <2>1
  <2>3. \A i \in 1 .. k + 1 : g[i - 1] = h[i - 1]
    <3>1. \A i \in 1 .. k + 1 : i - 1 \in 0 .. k
      OBVIOUS
    <3> HIDE DEF g
    <3> QED BY Zenon, <2>2, <3>1
  <2>4. Upto(k + 1, g)
    <3>1. \A i \in 0 .. k + 1 : (IF i = 0 THEN start ELSE VerifyOne(h[i - 1], txs[i]))
                              = (IF i = 0 THEN start ELSE VerifyOne(g[i - 1], txs[i]))
      <4> HIDE DEF g
      <4>1. \A i \in 0 .. k + 1 : i = 0 \/ i \in 1 .. k + 1
        OBVIOUS
      <4> QED
        BY Zenon, <2>3, <4>1
    <3>2. g = [i \in 0 .. k + 1 |-> IF i = 0 THEN start ELSE VerifyOne(h[i - 1], txs[i])]
      BY Zenon
    <3> HIDE DEF g
    <3> QED
      BY Zenon, <3>1, <3>2
  <2> HIDE DEF Upto, g
  <2> QED
    BY <2>4
<1>3. PICK h : Upto(Len(txs), h)
  <2>1. Len(txs) \in Nat
    OBVIOUS
  <2>2. Nat \subseteq N
    <3> HIDE DEF N
    <3> QED BY Zenon, <1>1, <1>2, Induct
  <2> HIDE DEF Upto
  <2> QED
    BY Zenon, <2>1, <2>2
<1>4. Verifying(s, creator, txs, h)
  BY Zenon, <1>3 DEF Verifying
<1>5. Verify(s, creator, txs) = (CHOOSE f : Verifying(s, creator, txs, f))[Len(txs)]
  BY Zenon DEF Verify, Verifying
<1> QED
  BY Zenon, <1>4, <1>5

(* After i rounds of updateStateDB without an error. *)
Verified(m, txs, acc) ==
  acc.ok => SoundState(acc.s) /\ Leads(m, txs, View(acc.s.heap, acc.s.db))

(* What a round of updateStateDB returns. *)
LEMMA VerifyFields ==
  ASSUME NEW acc, NEW tx
  PROVE  LET r == Reads(acc.s, From[tx])
         IN  /\ VerifyOne(acc, tx).s = Commit(ApplyTransaction(r, tx))
             /\ VerifyOne(acc, tx).ok <=> acc.ok /\ Valid(r, tx)
<1> DEFINE r == Reads(acc.s, From[tx])
           t == Commit(ApplyTransaction(r, tx))
           one == VerifyOne(acc, tx)
<1>1. one = [s |-> t, ok |-> acc.ok /\ Valid(r, tx)]
  BY Zenon DEF VerifyOne
<1> HIDE DEF r, t, one
<1>2. one.s = t /\ (one.ok <=> acc.ok /\ Valid(r, tx))
  BY Zenon, <1>1
<1> QED
  BY Zenon, <1>2 DEF one, r, t

(* One round of updateStateDB. *)
LEMMA VerifiedOn ==
  ASSUME NEW m, NEW txs \in Seq(Tx), NEW acc, Verified(m, txs, acc), NEW tx \in Tx
  PROVE  Verified(m, Append(txs, tx), VerifyOne(acc, tx))
<1> DEFINE r == Reads(acc.s, From[tx])
           t == Commit(ApplyTransaction(r, tx))
           n == View(acc.s.heap, acc.s.db)
           one == VerifyOne(acc, tx)
<1>2. one.s = t /\ (one.ok <=> acc.ok /\ Valid(r, tx))
  BY Zenon, VerifyFields
<1> SUFFICES ASSUME acc.ok, Valid(r, tx)
             PROVE  SoundState(t) /\ Leads(m, Append(txs, tx), View(t.heap, t.db))
  BY Zenon, <1>2 DEF Verified
<1>3. SoundState(acc.s) /\ Leads(m, txs, n)
  BY Zenon DEF Verified
<1>4. Allowed(n, tx) /\ SoundState(t) /\ View(t.heap, t.db) = Move(n, tx)
  BY Zenon, <1>3, RoundShows
<1> HIDE DEF t, n, one
<1>5. Leads(m, Append(txs, tx), Move(n, tx))
  BY Zenon, <1>3, <1>4, LeadsOn
<1> QED
  BY Zenon, <1>4, <1>5

(* The rounds of updateStateDB. *)
LEMMA VerifyUnfolds ==
  ASSUME NEW s, NEW c, NEW txs \in Seq(Tx)
  PROVE  \E h : /\ Verify(s, c, txs) = h[Len(txs)]
                /\ h[0] = [s |-> ApplyReward(s, c), ok |-> TRUE]
                /\ \A i \in 1 .. Len(txs) : h[i] = VerifyOne(h[i - 1], txs[i])
<1>1. PICK h : Verifying(s, c, txs, h) /\ Verify(s, c, txs) = h[Len(txs)]
  BY Zenon, VerifyRounds
<1>2. \A i \in 0 .. Len(txs) : h[i] = IF i = 0 THEN [s |-> ApplyReward(s, c), ok |-> TRUE]
                                      ELSE VerifyOne(h[i - 1], txs[i])
  BY Zenon, <1>1 DEF Verifying
<1>3. 0 \in 0 .. Len(txs) /\ \A i \in 1 .. Len(txs) : i \in 0 .. Len(txs) /\ i # 0
  OBVIOUS
<1> QED
  BY Zenon, <1>1, <1>2, <1>3

(* What updateStateDB accepts is valid, one transaction after the other, and *)
(* the Statedb shows where the transactions lead.                            *)
LEMMA VerifyShows ==
  ASSUME NEW s, SoundState(s), NEW c \in Account, NEW txs \in Seq(Tx)
  PROVE  Verified(Rewarded(View(s.heap, s.db), c), txs, Verify(s, c, txs))
<1> DEFINE m == Rewarded(View(s.heap, s.db), c)
           r == ApplyReward(s, c)
<1>1. PICK h : /\ Verify(s, c, txs) = h[Len(txs)]
               /\ h[0] = [s |-> r, ok |-> TRUE]
               /\ \A i \in 1 .. Len(txs) : h[i] = VerifyOne(h[i - 1], txs[i])
  BY VerifyUnfolds
<1>2. SoundState(r) /\ View(r.heap, r.db) = m
  BY Zenon, ApplyRewardShows
<1>3. m \in Map
  BY Zenon, <1>2, ViewType DEF Map
<1> HIDE DEF m, r
<1> DEFINE N == {i \in Nat : i <= Len(txs) => Verified(m, SubSeq(txs, 1, i), h[i])}
<1>4. 0 \in N
  <2>1. SubSeq(txs, 1, 0) = <<>> /\ h[0].s = r
    BY <1>1
  <2>2. Verified(m, <<>>, h[0])
    BY Zenon, <1>2, <1>3, <2>1, LeadsNowhere DEF Verified
  <2> QED
    BY Zenon, <2>1, <2>2
<1>5. ASSUME NEW i \in Nat, i \in N PROVE i + 1 \in N
  <2> SUFFICES ASSUME i + 1 <= Len(txs) PROVE Verified(m, SubSeq(txs, 1, i + 1), h[i + 1])
    OBVIOUS
  <2>1. i + 1 \in 1 .. Len(txs) /\ (i + 1) - 1 = i /\ i <= Len(txs) /\ txs[i + 1] \in Tx
    OBVIOUS
  <2>2. h[i + 1] = VerifyOne(h[i], txs[i + 1])
    BY Zenon, <1>1, <2>1
  <2>3. Verified(m, SubSeq(txs, 1, i), h[i])
    BY Zenon, <1>5, <2>1
  <2>4. SubSeq(txs, 1, i) \in Seq(Tx) /\ SubSeq(txs, 1, i + 1) = Append(SubSeq(txs, 1, i), txs[i + 1])
    BY <2>1
  <2> QED
    BY Zenon, <2>1, <2>2, <2>3, <2>4, VerifiedOn
<1>6. Nat \subseteq N
  <2> HIDE DEF N
  <2> QED BY Zenon, <1>4, <1>5, Induct
<1>7. Len(txs) \in Nat /\ Len(txs) <= Len(txs) /\ SubSeq(txs, 1, Len(txs)) = txs
  OBVIOUS
<1> QED
  BY Zenon, <1>1, <1>6, <1>7 DEF m

(* updateStateDB accepts what is valid, one transaction after the other.     *)
LEMMA VerifyAccepts ==
  ASSUME NEW s, SoundState(s), NEW c \in Account, NEW txs \in Seq(Tx), NEW n,
         Leads(Rewarded(View(s.heap, s.db), c), txs, n)
  PROVE  Verify(s, c, txs).ok /\ View(Verify(s, c, txs).s.heap, Verify(s, c, txs).s.db) = n
<1> DEFINE m == Rewarded(View(s.heap, s.db), c)
           r == ApplyReward(s, c)
<1>1. PICK h : /\ Verify(s, c, txs) = h[Len(txs)]
               /\ h[0] = [s |-> r, ok |-> TRUE]
               /\ \A i \in 1 .. Len(txs) : h[i] = VerifyOne(h[i - 1], txs[i])
  BY VerifyUnfolds
<1>2. SoundState(r) /\ View(r.heap, r.db) = m
  BY Zenon, ApplyRewardShows
<1>3. PICK f : Run(m, txs, f) /\ f[Len(txs)] = n
  BY Zenon DEF Leads
<1> HIDE DEF m, r
<1> DEFINE Good(i) == h[i].ok /\ SoundState(h[i].s) /\ View(h[i].s.heap, h[i].s.db) = f[i]
           N == {i \in Nat : i <= Len(txs) => Good(i)}
<1>4. 0 \in N
  <2>1. h[0].s = r /\ h[0].ok /\ f[0] = m
    BY <1>1, <1>3 DEF Run
  <2> QED
    BY Zenon, <1>2, <2>1
<1>5. ASSUME NEW i \in Nat, i \in N PROVE i + 1 \in N
  <2> SUFFICES ASSUME i + 1 <= Len(txs) PROVE Good(i + 1)
    OBVIOUS
  <2>1. i + 1 \in 1 .. Len(txs) /\ (i + 1) - 1 = i /\ i <= Len(txs) /\ txs[i + 1] \in Tx
    OBVIOUS
  <2> DEFINE tx == txs[i + 1]
             g == Reads(h[i].s, From[tx])
             t == Commit(ApplyTransaction(g, tx))
  <2>2. h[i + 1] = VerifyOne(h[i], tx)
    BY Zenon, <1>1, <2>1
  <2>3. h[i + 1].s = t /\ (h[i + 1].ok <=> h[i].ok /\ Valid(g, tx))
    <3>1. /\ VerifyOne(h[i], tx).s = t
          /\ VerifyOne(h[i], tx).ok <=> h[i].ok /\ Valid(g, tx)
      BY Zenon, VerifyFields
    <3> HIDE DEF g, t, tx
    <3> QED
      BY Zenon, <2>2, <3>1
  <2>4. h[i].ok /\ SoundState(h[i].s) /\ View(h[i].s.heap, h[i].s.db) = f[i]
    BY Zenon, <1>5, <2>1
  <2>5. Allowed(f[i], tx) /\ f[i + 1] = Move(f[i], tx)
    BY Zenon, <1>3, <2>1 DEF Run
  <2>6. tx \in Tx
    BY Zenon, <2>1
  <2> HIDE DEF tx
  <2>7. Valid(g, tx) /\ SoundState(t) /\ View(t.heap, t.db) = Move(f[i], tx)
    <3>1. /\ Valid(g, tx) <=> Allowed(View(h[i].s.heap, h[i].s.db), tx)
          /\ Valid(g, tx) =>
               SoundState(t) /\ View(t.heap, t.db) = Move(View(h[i].s.heap, h[i].s.db), tx)
      BY Zenon, <2>4, <2>6, RoundShows
    <3> QED
      BY Zenon, <2>4, <2>5, <3>1
  <2> HIDE DEF g, t
  <2> QED
    BY Zenon, <2>3, <2>4, <2>5, <2>7
<1>6. Nat \subseteq N
  <2> HIDE DEF N
  <2> QED BY Zenon, <1>4, <1>5, Induct
<1>7. Len(txs) \in Nat /\ Len(txs) <= Len(txs)
  OBVIOUS
<1>8. Good(Len(txs))
  BY Zenon, <1>6, <1>7
<1> QED
  BY Zenon, <1>1, <1>3, <1>8

(* So does updateStateDB. *)
LEMMA VerifyApart ==
  ASSUME NEW s, FormedState(s), NEW c \in Account, NEW txs \in Seq(Tx)
  PROVE  Apart(s, Verify(s, c, txs).s)
<1>1. PICK h : /\ Verify(s, c, txs) = h[Len(txs)]
               /\ h[0] = [s |-> ApplyReward(s, c), ok |-> TRUE]
               /\ \A i \in 1 .. Len(txs) : h[i] = VerifyOne(h[i - 1], txs[i])
  BY VerifyUnfolds
<1> DEFINE N == {i \in Nat : i <= Len(txs) => Apart(s, h[i].s)}
<1>2. 0 \in N
  <2>1. h[0].s = ApplyReward(s, c)
    BY <1>1
  <2> QED
    BY Zenon, <2>1, RewardApart
<1>3. ASSUME NEW i \in Nat, i \in N PROVE i + 1 \in N
  <2> SUFFICES ASSUME i + 1 <= Len(txs) PROVE Apart(s, h[i + 1].s)
    OBVIOUS
  <2>1. i + 1 \in 1 .. Len(txs) /\ (i + 1) - 1 = i /\ i <= Len(txs) /\ txs[i + 1] \in Tx
    OBVIOUS
  <2>2. h[i + 1] = VerifyOne(h[i], txs[i + 1])
    BY Zenon, <1>1, <2>1
  <2>3. Apart(s, h[i].s) /\ FormedState(h[i].s)
    BY Zenon, <1>3, <2>1 DEF Apart
  <2> DEFINE t == Commit(ApplyTransaction(Reads(h[i].s, From[txs[i + 1]]), txs[i + 1]))
  <2>4. Apart(h[i].s, t)
    BY Zenon, <2>1, <2>3, RoundApart
  <2>5. VerifyOne(h[i], txs[i + 1]).s = t
    BY Zenon, VerifyFields
  <2> HIDE DEF t
  <2> QED
    BY Zenon, <2>2, <2>3, <2>4, <2>5, ApartChain
<1>4. Nat \subseteq N
  <2> HIDE DEF N
  <2> QED BY Zenon, <1>2, <1>3, Induct
<1>5. Len(txs) \in Nat /\ Len(txs) <= Len(txs)
  OBVIOUS
<1> QED
  BY Zenon, <1>1, <1>4, <1>5

(* Transactions make no coin and lose none. *)
LEMMA LeadsTotal ==
  ASSUME NEW m \in Map, NEW txs \in Seq(Tx), NEW n, Leads(m, txs, n)
  PROVE  n \in Map /\ Total(Balances(n)) = Total(Balances(m))
<1>1. PICK f : Run(m, txs, f) /\ f[Len(txs)] = n
  BY Zenon DEF Leads
<1>2. /\ f \in [0 .. Len(txs) -> Map] /\ f[0] = m
      /\ \A i \in 1 .. Len(txs) : Allowed(f[i - 1], txs[i]) /\ f[i] = Move(f[i - 1], txs[i])
  BY Zenon, <1>1 DEF Run
<1> DEFINE N == {i \in Nat : i <= Len(txs) => Total(Balances(f[i])) = Total(Balances(m))}
<1>3. 0 \in N
  BY Zenon, <1>2
<1>4. ASSUME NEW i \in Nat, i \in N PROVE i + 1 \in N
  <2> SUFFICES ASSUME i + 1 <= Len(txs) PROVE Total(Balances(f[i + 1])) = Total(Balances(m))
    OBVIOUS
  <2>1. /\ i + 1 \in 1 .. Len(txs) /\ (i + 1) - 1 = i /\ i <= Len(txs) /\ i \in 0 .. Len(txs)
        /\ txs[i + 1] \in Tx
    OBVIOUS
  <2>2. f[i] \in Map /\ Allowed(f[i], txs[i + 1]) /\ f[i + 1] = Move(f[i], txs[i + 1])
    BY Zenon, <1>2, <2>1
  <2>3. Total(Balances(f[i])) = Total(Balances(m))
    BY Zenon, <1>4, <2>1
  <2> QED
    BY Zenon, <2>1, <2>2, <2>3, MoveTotal
<1>5. Nat \subseteq N
  <2> HIDE DEF N
  <2> QED BY Zenon, <1>3, <1>4, Induct
<1>6. Len(txs) \in Nat /\ Len(txs) <= Len(txs) /\ Len(txs) \in 0 .. Len(txs)
  OBVIOUS
<1> QED
  BY Zenon, <1>1, <1>2, <1>5, <1>6

(* The transactions of q that a sent, and those of them that move coins.     *)
Sent(q, a) == {i \in DOMAIN q : From[q[i]] = a}
Paid(q, a) == {i \in Sent(q, a) : Amount[q[i]] > 0}

(* The nonce of every account lies between the two counts. *)
Counted(m, q) ==
  \A a \in Account : Held(m, a).nonce \in Cardinality(Paid(q, a)) .. Cardinality(Sent(q, a))

(* One transaction more to count. *)
LEMMA SentOn ==
  ASSUME NEW q \in Seq(Tx), NEW tx \in Tx, NEW a
  PROVE  /\ Cardinality(Sent(q, a)) \in Nat /\ Cardinality(Paid(q, a)) \in Nat
         /\ Cardinality(Sent(Append(q, tx), a))
            = Cardinality(Sent(q, a)) + (IF From[tx] = a THEN 1 ELSE 0)
         /\ Cardinality(Paid(Append(q, tx), a))
            = Cardinality(Paid(q, a)) + (IF From[tx] = a /\ Amount[tx] > 0 THEN 1 ELSE 0)
<1> DEFINE k == Len(q)
           r == Append(q, tx)
<1>1. /\ k \in Nat /\ DOMAIN q = 1 .. k /\ DOMAIN r = 1 .. k + 1 /\ r[k + 1] = tx
      /\ \A i \in 1 .. k : r[i] = q[i]
  OBVIOUS
<1>2. IsFiniteSet(Sent(q, a)) /\ IsFiniteSet(Paid(q, a))
  <2>1. IsFiniteSet(1 .. k)
    BY <1>1, FS_Interval
  <2>2. Sent(q, a) \subseteq 1 .. k /\ Paid(q, a) \subseteq 1 .. k
    BY Zenon, <1>1 DEF Sent, Paid
  <2> QED
    BY Zenon, <2>1, <2>2, FS_Subset
<1> HIDE DEF k, r
<1>3. 1 .. k + 1 = 1 .. k \cup {k + 1} /\ k + 1 \notin 1 .. k
  BY <1>1
<1>4. k + 1 \notin Sent(q, a) /\ k + 1 \notin Paid(q, a)
  BY Zenon, <1>1, <1>3 DEF Sent, Paid
<1>5. Sent(r, a) = IF From[tx] = a THEN Sent(q, a) \cup {k + 1} ELSE Sent(q, a)
  BY Zenon, <1>1, <1>3 DEF Sent
<1>6. Paid(r, a) = IF From[tx] = a /\ Amount[tx] > 0 THEN Paid(q, a) \cup {k + 1} ELSE Paid(q, a)
  <2>1. \A i \in Sent(q, a) : r[i] = q[i]
    BY Zenon, <1>1 DEF Sent
  <2> QED
    BY Zenon, <1>1, <1>5, <2>1 DEF Paid
<1>7. /\ Cardinality(Sent(q, a)) \in Nat /\ Cardinality(Paid(q, a)) \in Nat
      /\ Cardinality(Sent(q, a) \cup {k + 1}) = Cardinality(Sent(q, a)) + 1
      /\ Cardinality(Paid(q, a) \cup {k + 1}) = Cardinality(Paid(q, a)) + 1
  BY Zenon, <1>2, <1>4, FS_AddElement, FS_CardinalityType
<1> QED
  BY <1>5, <1>6, <1>7 DEF r

(* A transaction counts its sender's nonce up, unless the sender is unknown, *)
(* and then it moves nothing.                                                *)
LEMMA CountedOn ==
  ASSUME NEW m \in Map, NEW q \in Seq(Tx), Counted(m, q), NEW tx \in Tx, Allowed(m, tx)
  PROVE  Counted(Move(m, tx), Append(q, tx))
<1> SUFFICES ASSUME NEW a \in Account
             PROVE  Held(Move(m, tx), a).nonce
                    \in Cardinality(Paid(Append(q, tx), a)) .. Cardinality(Sent(Append(q, tx), a))
  BY Zenon DEF Counted
<1>1. /\ Cardinality(Sent(q, a)) \in Nat /\ Cardinality(Paid(q, a)) \in Nat
      /\ Cardinality(Sent(Append(q, tx), a))
         = Cardinality(Sent(q, a)) + (IF From[tx] = a THEN 1 ELSE 0)
      /\ Cardinality(Paid(Append(q, tx), a))
         = Cardinality(Paid(q, a)) + (IF From[tx] = a /\ Amount[tx] > 0 THEN 1 ELSE 0)
  BY Zenon, SentOn
<1>2. Held(Move(m, tx), a).nonce
      = Held(m, a).nonce + (IF a = From[tx] /\ m[a] # NoAccount THEN 1 ELSE 0)
  BY Zenon, MoveHolds
<1>3. /\ Held(m, a).nonce \in Nat
      /\ Held(m, a).nonce \in Cardinality(Paid(q, a)) .. Cardinality(Sent(q, a))
  BY Zenon, HeldType DEF Counted
<1>4. a = From[tx] /\ m[a] = NoAccount => ~(Amount[tx] > 0)
  BY TxFields DEF Allowed, Held, NewAccount
<1> QED
  BY <1>1, <1>2, <1>3, <1>4

(* Nonces count what is sent, whatever is sealed. *)
LEMMA LeadsCounted ==
  ASSUME NEW m \in Map, NEW q \in Seq(Tx), Counted(m, q),
         NEW txs \in Seq(Tx), NEW n, Leads(m, txs, n)
  PROVE  Counted(n, q \o txs)
<1>1. PICK f : Run(m, txs, f) /\ f[Len(txs)] = n
  BY Zenon DEF Leads
<1>2. /\ f \in [0 .. Len(txs) -> Map] /\ f[0] = m
      /\ \A i \in 1 .. Len(txs) : Allowed(f[i - 1], txs[i]) /\ f[i] = Move(f[i - 1], txs[i])
  BY Zenon, <1>1 DEF Run
<1> DEFINE N == {i \in Nat : i <= Len(txs) => Counted(f[i], q \o SubSeq(txs, 1, i))}
<1>3. 0 \in N
  <2>1. q \o SubSeq(txs, 1, 0) = q
    OBVIOUS
  <2> QED
    BY Zenon, <1>2, <2>1
<1>4. ASSUME NEW i \in Nat, i \in N PROVE i + 1 \in N
  <2> SUFFICES ASSUME i + 1 <= Len(txs) PROVE Counted(f[i + 1], q \o SubSeq(txs, 1, i + 1))
    OBVIOUS
  <2>1. /\ i + 1 \in 1 .. Len(txs) /\ (i + 1) - 1 = i /\ i <= Len(txs) /\ i \in 0 .. Len(txs)
        /\ txs[i + 1] \in Tx
    OBVIOUS
  <2>2. f[i] \in Map /\ Allowed(f[i], txs[i + 1]) /\ f[i + 1] = Move(f[i], txs[i + 1])
    BY Zenon, <1>2, <2>1
  <2>3. Counted(f[i], q \o SubSeq(txs, 1, i))
    BY Zenon, <1>4, <2>1
  <2>4. /\ q \o SubSeq(txs, 1, i) \in Seq(Tx)
        /\ q \o SubSeq(txs, 1, i + 1) = Append(q \o SubSeq(txs, 1, i), txs[i + 1])
    BY <2>1
  <2> QED
    BY Zenon, <2>1, <2>2, <2>3, <2>4, CountedOn
<1>5. Nat \subseteq N
  <2> HIDE DEF N
  <2> QED BY Zenon, <1>3, <1>4, Induct
<1>6. Len(txs) \in Nat /\ Len(txs) <= Len(txs) /\ SubSeq(txs, 1, Len(txs)) = txs
  OBVIOUS
<1> QED
  BY Zenon, <1>1, <1>5, <1>6

(* The inductive invariant: PoolConsistent, with the types of the maps. *)
PoolInv ==
  /\ IsFiniteSet(hashToTxMap)
  /\ accountToTxsMap \in [Account -> [Nonces -> Tx \cup {NoTx}]]
  /\ PoolConsistent

(* What is listed at an account and nonce, from PoolConsistent. *)
ListedAt(tx, a, n) == tx # NoTx => tx \in hashToTxMap /\ From[tx] = a /\ Nonce[tx] = n

(* The empty pool. *)
LEMMA PoolStarts ==
  ASSUME Init
  PROVE  PoolInv
<1>1. /\ hashToTxMap = {}
      /\ accountToTxsMap = [a \in Account |-> [n \in Nonces |-> NoTx]]
  BY Zenon DEF Init
<1>2. IsFiniteSet({}) /\ Cardinality({}) <= Capacity
  BY FS_EmptySet, PoolAssumption
<1> QED
  BY Zenon, <1>1, <1>2 DEF PoolInv, PoolConsistent

(* Steps that leave the maps alone. *)
LEMMA OtherSteps ==
  ASSUME PoolInv, UNCHANGED <<hashToTxMap, accountToTxsMap>>
  PROVE  PoolInv'
  BY Zenon DEF PoolInv, PoolConsistent

(* AddTransaction, under the lock: the capacity is tested, and a transaction *)
(* of the same account and nonce gives way in the collection.                *)
LEMMA AddSteps ==
  ASSUME PoolInv, NEW tx \in Tx, AddTransaction(tx)
  PROVE  PoolInv'
<1>1. CASE UNCHANGED <<hashToTxMap, accountToTxsMap>>
  BY Zenon, <1>1, OtherSteps
<1>2. CASE ~UNCHANGED <<hashToTxMap, accountToTxsMap>>
  <2>1. /\ tx \notin hashToTxMap /\ ~(Cardinality(hashToTxMap) >= Capacity)
        /\ hashToTxMap' = hashToTxMap \cup {tx}
        /\ accountToTxsMap' = [accountToTxsMap EXCEPT ![From[tx]][Nonce[tx]] = tx]
    BY Zenon, <1>2 DEF AddTransaction
  <2>2. IsFiniteSet(hashToTxMap') /\ Cardinality(hashToTxMap') <= Capacity
    <3>1. Cardinality(hashToTxMap) \in Nat
      BY Zenon, FS_CardinalityType DEF PoolInv
    <3>2. /\ IsFiniteSet(hashToTxMap \cup {tx})
          /\ Cardinality(hashToTxMap \cup {tx}) = Cardinality(hashToTxMap) + 1
      BY Zenon, <2>1, FS_AddElement DEF PoolInv
    <3> QED
      BY <2>1, <3>1, <3>2, PoolAssumption
  <2>3. From[tx] \in Account /\ Nonce[tx] \in Nonces
    BY Zenon, PoolAssumption DEF Nonces
  <2>4. accountToTxsMap' \in [Account -> [Nonces -> Tx \cup {NoTx}]]
    BY Zenon, <2>1, <2>3 DEF PoolInv
  <2>5. ASSUME NEW a \in Account, NEW n \in Nonces
        PROVE  accountToTxsMap'[a][n] = IF a = From[tx] /\ n = Nonce[tx] THEN tx
                                        ELSE accountToTxsMap[a][n]
    BY Zenon, <2>1, <2>3 DEF PoolInv
  <2>6. ASSUME NEW a \in Account, NEW n \in Nonces PROVE ListedAt(accountToTxsMap[a][n], a, n)'
    <3>1. ListedAt(accountToTxsMap[a][n], a, n)
      BY Zenon DEF PoolInv, PoolConsistent, ListedAt
    <3> QED
      BY <2>1, <2>5, <3>1 DEF ListedAt
  <2> QED
    BY Zenon, <2>2, <2>4, <2>6 DEF PoolInv, PoolConsistent, ListedAt
<1> QED
  BY Zenon, <1>1, <1>2

(* RemoveTransaction for what the miner has taken: nothing that is removed   *)
(* by hash stays listed.                                                     *)
LEMMA RemoveSteps ==
  ASSUME PoolInv, NEW tx \in Tx, RemoveTransaction(tx)
  PROVE  PoolInv'
<1>1. CASE tx \notin hashToTxMap
  BY Zenon, <1>1, OtherSteps DEF RemoveTransaction
<1>2. CASE tx \in hashToTxMap
  <2>1. /\ hashToTxMap' = hashToTxMap \ {tx}
        /\ accountToTxsMap' = [accountToTxsMap EXCEPT ![From[tx]][Nonce[tx]] = NoTx]
    BY Zenon, <1>2 DEF RemoveTransaction
  <2>2. IsFiniteSet(hashToTxMap') /\ Cardinality(hashToTxMap') <= Capacity
    <3>1. /\ IsFiniteSet(hashToTxMap') /\ Cardinality(hashToTxMap') <= Cardinality(hashToTxMap)
          /\ Cardinality(hashToTxMap') \in Nat /\ Cardinality(hashToTxMap) \in Nat
      BY Zenon, <2>1, FS_Subset, FS_CardinalityType DEF PoolInv
    <3> QED
      BY <3>1, PoolAssumption DEF PoolInv, PoolConsistent
  <2>3. From[tx] \in Account /\ Nonce[tx] \in Nonces
    BY Zenon, PoolAssumption DEF Nonces
  <2>4. accountToTxsMap' \in [Account -> [Nonces -> Tx \cup {NoTx}]]
    BY Zenon, <2>1, <2>3 DEF PoolInv
  <2>5. ASSUME NEW a \in Account, NEW n \in Nonces
        PROVE  accountToTxsMap'[a][n] = IF a = From[tx] /\ n = Nonce[tx] THEN NoTx
                                        ELSE accountToTxsMap[a][n]
    BY Zenon, <2>1, <2>3 DEF PoolInv
  <2>6. ASSUME NEW a \in Account, NEW n \in Nonces PROVE ListedAt(accountToTxsMap[a][n], a, n)'
    <3>1. ListedAt(accountToTxsMap[a][n], a, n)
      BY Zenon DEF PoolInv, PoolConsistent, ListedAt
    <3> QED
      BY <2>1, <2>5, <3>1 DEF ListedAt
  <2> QED
    BY Zenon, <2>2, <2>4, <2>6 DEF PoolInv, PoolConsistent, ListedAt
<1> QED
  BY Zenon, <1>1, <1>2

-----------------------------------------------------------------------------
(* The ledger: HEAD's state is worth its height, and counts what was sent.   *)
Ledger(m, q, k) ==
  /\ m \in Map /\ q \in Seq(Tx) /\ k \in Nat
  /\ Total(Balances(m)) = Total(Supply) + k * Reward
  /\ Counted(m, q)

(* applyTransactions has transactions, and a current one within a round. *)
Job(w) ==
  /\ DOMAIN w = {"height", "db", "txs", "sealed", "at"}
  /\ w.txs \in Seq(Tx) /\ w.sealed \in Seq(Tx)
  /\ w.at \in {"reward", "validate", "nonce", "call", "commit"}
  /\ w.at \in {"nonce", "call", "commit"} => w.txs # <<>>

(* The objects of the live Statedbs are formed, whoever has changed them. *)
LedgerInv ==
  /\ PoolInv /\ Ledger(root, onChain, height) /\ Formed(heap, head)
  /\ Busy(work) => Job(work) /\ Formed(heap, work.db)
  /\ task # NoTask => task.txs \in Seq(Tx)

(* The copy s in the middle of applyTransactions, from the accounts m: what  *)
(* is sealed so far leads from the reward to what the copy shows, but for    *)
(* the part of the current transaction that is done.                         *)
Halfway(s, w, m) ==
  LET v == View(s.heap, s.db)
      old(n) == Leads(Rewarded(m, Coinbase), w.sealed, n)
  IN  /\ SoundState(s)
      /\ w.at = "reward" => w.sealed = <<>> /\ v = m
      /\ w.at = "validate" => old(v)
      /\ w.at = "nonce" => old(v) /\ Allowed(v, Head(w.txs))
      /\ w.at = "call" =>
           \E n \in Map : old(n) /\ Allowed(n, Head(w.txs)) /\ v = Count(n, Head(w.txs))
      /\ w.at = "commit" =>
           \E n \in Map : old(n) /\ Allowed(n, Head(w.txs)) /\ v = Move(n, Head(w.txs))

(* The miner is at work on HEAD's state, or has sealed a block on it. *)
OnHead == (Busy(work) /\ work.height = height) \/ (task # NoTask /\ task.height = height)

(* As long as no read of HEAD has committed changes of the miner: HEAD's     *)
(* Statedb has nothing that its root has not, unless the miner works on it;  *)
(* the miner's copy is halfway; a sealed block leads to the root in its      *)
(* header.  A miner that works on an earlier HEAD shares no object with the  *)
(* present one.                                                              *)
MinedInv ==
  /\ refused => spoiled
  /\ Busy(work) =>
       /\ task = NoTask /\ work.height \in 0 .. height
       /\ work.height # height => Cached(work.db) \cap Cached(head) = {}
  /\ task # NoTask => task.height \in 0 .. height
  /\ ~spoiled =>
       /\ ~OnHead => Mirrors(heap, head, root)
       /\ Busy(work) /\ work.height = height => Halfway(Copy, work, root)
       /\ task # NoTask /\ task.height = height =>
            Leads(Rewarded(root, Coinbase), task.txs, task.root)

(* Objects with the same accounts and flags make a Statedb show the same. *)
LEMMA SameObjects ==
  ASSUME NEW h, NEW g, NEW d, SoundState([heap |-> h, db |-> d]), HeapOK(g),
         \A a \in Account : d.cache[a] # Nil =>
           /\ d.cache[a] \in DOMAIN g /\ g[d.cache[a]].account = h[d.cache[a]].account
           /\ g[d.cache[a]].dirty = h[d.cache[a]].dirty
  PROVE  SoundState([heap |-> g, db |-> d]) /\ View(g, d) = View(h, d)
<1>1. /\ Sound(h, d.trie, d.cache) /\ Ordered(d.order, d.cache)
      /\ DOMAIN d = {"trie", "cache", "order"}
  BY Zenon DEF SoundState, Shaped
<1>2. d.cache \in [Account -> DOMAIN g \cup {Nil}]
  BY Zenon, <1>1 DEF Sound
<1>3. Sound(g, d.trie, d.cache)
  BY Zenon, <1>1, <1>2 DEF Sound, HeapOK
<1>4. SoundState([heap |-> g, db |-> d])
  BY Zenon, <1>1, <1>3 DEF SoundState, Shaped
<1>5. View(g, d) = View(h, d)
  BY Zenon DEF View
<1> QED
  BY Zenon, <1>4, <1>5

(* Halfway, with other objects of the same accounts and flags. *)
LEMMA SameHalfway ==
  ASSUME NEW s, NEW t, NEW w, NEW m, Halfway(s, w, m), SoundState(t), SameView(t, s)
  PROVE  Halfway(t, w, m)
  BY Zenon DEF Halfway, SameView

(* Objects that no Statedb points to are forgotten. *)
LEMMA LiveKeeps ==
  ASSUME NEW h, NEW d, NEW w, NEW e, Formed(h, e), e = d \/ (Busy(w) /\ e = w.db)
  PROVE  /\ Formed(Live(h, d, w), e)
         /\ \A a \in Account : e.cache[a] # Nil =>
              e.cache[a] \in DOMAIN Live(h, d, w) /\ Live(h, d, w)[e.cache[a]] = h[e.cache[a]]
         /\ \A m : Mirrors(h, e, m) => Mirrors(Live(h, d, w), e, m)
<1> DEFINE used == Cached(d) \cup (IF Busy(w) THEN Cached(w.db) ELSE {})
           l == Live(h, d, w)
<1>1. l = [r \in DOMAIN h \cap used |-> h[r]]
  BY Zenon DEF Live
<1>2. HeapOK(h) /\ DbOK(e) /\ \A a \in Account : e.cache[a] # Nil => e.cache[a] \in DOMAIN h
  BY Zenon DEF Formed
<1>3. \A a \in Account : e.cache[a] # Nil => e.cache[a] \in used
  BY Zenon, <1>2 DEF Cached
<1> HIDE DEF used, l
<1>4. DOMAIN l = DOMAIN h \cap used /\ \A r \in DOMAIN l : l[r] = h[r]
  BY Zenon, <1>1
<1>5. HeapOK(l)
  <2>1. IsFiniteSet(DOMAIN l)
    BY Zenon, <1>2, <1>4, FS_Subset DEF HeapOK
  <2> QED
    BY Zenon, <1>1, <1>2, <1>4, <2>1 DEF HeapOK
<1>6. \A a \in Account : e.cache[a] # Nil => e.cache[a] \in DOMAIN l /\ l[e.cache[a]] = h[e.cache[a]]
  BY Zenon, <1>2, <1>3, <1>4
<1>7. Formed(l, e)
  BY Zenon, <1>2, <1>5, <1>6 DEF Formed
<1>8. \A m : Mirrors(h, e, m) => Mirrors(l, e, m)
  BY Zenon, <1>4, <1>6 DEF Mirrors
<1> QED
  BY Zenon, <1>6, <1>7, <1>8 DEF l

(* So the miner's copy stays sound, and shows the same. *)
LEMMA LiveSound ==
  ASSUME NEW h, NEW d, NEW w, NEW e, SoundState([heap |-> h, db |-> e]),
         Busy(w), e = w.db
  PROVE  SoundState([heap |-> Live(h, d, w), db |-> e]) /\ View(Live(h, d, w), e) = View(h, e)
<1> DEFINE l == Live(h, d, w)
<1>1. Formed(h, e)
  <2> DEFINE s == [heap |-> h, db |-> e]
  <2>1. s.heap = h /\ s.db = e /\ SoundState(s)
    BY Zenon
  <2> HIDE DEF s
  <2>2. FormedState(s)
    BY Zenon, <2>1, SoundIsFormed
  <2> QED
    BY Zenon, <2>1, <2>2 DEF FormedState
<1>2. /\ Formed(l, e)
      /\ \A a \in Account : e.cache[a] # Nil => e.cache[a] \in DOMAIN l /\ l[e.cache[a]] = h[e.cache[a]]
  BY <1>1, LiveKeeps
<1> HIDE DEF l
<1>3. SoundState([heap |-> l, db |-> e]) /\ View(l, e) = View(h, e)
  <2>1. HeapOK(l)
    BY Zenon, <1>2 DEF Formed
  <2>2. \A a \in Account : e.cache[a] # Nil =>
          /\ e.cache[a] \in DOMAIN l /\ l[e.cache[a]].account = h[e.cache[a]].account
          /\ l[e.cache[a]].dirty = h[e.cache[a]].dirty
    BY Zenon, <1>2
  <2> QED
    BY <2>1, <2>2, SameObjects
<1> QED
  BY Zenon, <1>3 DEF l

(* What an operation on one Statedb does to another one. *)
LEMMA OthersKept ==
  ASSUME NEW s, NEW t, Apart(s, t), NEW e, Formed(s.heap, e)
  PROVE  /\ Formed(t.heap, e)
         /\ Cached(e) \cap Cached(s.db) = {} =>
              \A m : Mirrors(s.heap, e, m) => Mirrors(t.heap, e, m)
<1>1. /\ HeapOK(t.heap) /\ DOMAIN s.heap \subseteq DOMAIN t.heap
      /\ \A r \in DOMAIN s.heap \ Cached(s.db) : t.heap[r] = s.heap[r]
  BY Zenon DEF Apart, FormedState, Formed, Frame
<1>2. DbOK(e) /\ \A a \in Account : e.cache[a] # Nil => e.cache[a] \in DOMAIN s.heap
  BY Zenon DEF Formed
<1>3. Formed(t.heap, e)
  BY Zenon, <1>1, <1>2 DEF Formed
<1>4. ASSUME Cached(e) \cap Cached(s.db) = {}, NEW m, Mirrors(s.heap, e, m)
      PROVE  Mirrors(t.heap, e, m)
  <2>1. \A a \in Account : e.cache[a] # Nil => e.cache[a] \notin Cached(s.db)
    BY Zenon, <1>4 DEF Cached
  <2>2. \A a \in Account : e.cache[a] # Nil => t.heap[e.cache[a]] = s.heap[e.cache[a]]
    BY Zenon, <1>1, <1>2, <2>1
  <2> QED
    BY Zenon, <1>4, <2>2 DEF Mirrors
<1> QED
  BY Zenon, <1>3, <1>4

(* A Statedb that has just been opened. *)
LEMMA NewStatedbMirrors ==
  ASSUME NEW h, HeapOK(h), NEW m \in Map
  PROVE  LET s == [heap |-> h, db |-> NewStatedb(m)]
         IN  /\ FormedState(s) /\ Cached(s.db) = {}
             /\ SoundState(s) /\ View(s.heap, s.db) = m
<1> DEFINE s == [heap |-> h, db |-> NewStatedb(m)]
<1>1. /\ DOMAIN s = {"heap", "db"} /\ s.heap = h /\ s.db.trie = m /\ s.db.order = <<>>
      /\ DOMAIN s.db = {"trie", "cache", "order"}
      /\ s.db.cache \in [Account -> Nat] /\ \A a \in Account : s.db.cache[a] = Nil
  BY Zenon DEF NewStatedb, Nil
<1> HIDE DEF s
<1>2. Ordered(s.db.order, s.db.cache)
  <2>1. s.db.order \in Seq(Account) /\ DOMAIN s.db.order = {} /\ Len(s.db.order) = 0
    BY <1>1
  <2>2. Len(s.db.order) <= StateCacheCapacity
    BY <2>1, CacheAssumption
  <2> QED
    BY Zenon, <1>1, <2>1, <2>2 DEF Ordered
<1>3. FormedState(s)
  BY Zenon, <1>1, <1>2 DEF FormedState, Formed, DbOK, Map
<1>4. Mirrors(s.heap, s.db, m)
  BY Zenon, <1>1 DEF Mirrors
<1>5. Cached(s.db) = {}
  BY Zenon, <1>1 DEF Cached
<1> QED
  BY Zenon, <1>3, <1>4, <1>5, MirrorSound DEF s

(* applyTxs on HEAD's state: the other Statedbs are left alone, what is      *)
(* accepted leads to the new root, and what leads to a root is accepted.     *)
LEMMA ResultShows ==
  ASSUME HeapOK(heap), root \in Map, NEW c \in Account, NEW txs \in Seq(Tx)
  PROVE  LET r == Result(c, txs)
             m == Rewarded(root, c)
         IN  /\ Apart([heap |-> heap, db |-> NewStatedb(root)], r.s)
             /\ r.ok => Mirrors(r.s.heap, r.s.db, r.s.db.trie) /\ Leads(m, txs, r.s.db.trie)
             /\ \A n : Leads(m, txs, n) => r.ok /\ r.s.db.trie = n
<1> DEFINE s == [heap |-> heap, db |-> NewStatedb(root)]
           v == Verify(s, c, txs)
           r == Result(c, txs)
           m == Rewarded(root, c)
<1>1. FormedState(s) /\ SoundState(s) /\ View(s.heap, s.db) = root
  BY Zenon, NewStatedbMirrors
<1>2. r = [s |-> Commit(v.s), ok |-> v.ok]
  BY Zenon DEF Result
<1>3. Apart(s, v.s)
  BY Zenon, <1>1, VerifyApart
<1>4. v.ok => SoundState(v.s) /\ Leads(m, txs, View(v.s.heap, v.s.db))
  BY Zenon, <1>1, VerifyShows DEF Verified
<1>5. \A n : Leads(m, txs, n) => v.ok /\ View(v.s.heap, v.s.db) = n
  BY Zenon, <1>1, VerifyAccepts
<1> HIDE DEF s, v, r, m
<1>6. r.s = Commit(v.s) /\ (r.ok <=> v.ok)
  BY Zenon, <1>2
<1>7. Apart(s, Commit(v.s))
  BY Zenon, <1>3, CommitApart, ApartChain DEF Apart
<1>8. v.ok => Mirrors(Commit(v.s).heap, Commit(v.s).db, View(v.s.heap, v.s.db))
  BY Zenon, <1>4, CommitMirrors
<1>9. v.ok => Commit(v.s).db.trie = View(v.s.heap, v.s.db)
  BY Zenon, <1>8 DEF Mirrors
<1>10. r.ok => Mirrors(r.s.heap, r.s.db, r.s.db.trie) /\ Leads(m, txs, r.s.db.trie)
  BY Zenon, <1>4, <1>6, <1>8, <1>9
<1>11. \A n : Leads(m, txs, n) => r.ok /\ r.s.db.trie = n
  BY Zenon, <1>5, <1>6, <1>9
<1> QED
  BY Zenon, <1>6, <1>7, <1>10, <1>11 DEF s, r, m

(* A block more on the ledger. *)
LEMMA LedgerOn ==
  ASSUME NEW m, NEW q, NEW k, Ledger(m, q, k), NEW c \in Account, NEW txs \in Seq(Tx), NEW n,
         Leads(Rewarded(m, c), txs, n)
  PROVE  Ledger(n, q \o txs, k + 1)
<1> DEFINE w == Rewarded(m, c)
<1>1. /\ m \in Map /\ q \in Seq(Tx) /\ k \in Nat /\ Counted(m, q)
      /\ Total(Balances(m)) = Total(Supply) + k * Reward
  BY Zenon DEF Ledger
<1>2. /\ w \in Map /\ \A a \in Account : Held(w, a).nonce = Held(m, a).nonce
      /\ Total(Balances(w)) = Total(Balances(m)) + Reward
  BY Zenon, <1>1, RewardHolds, RewardTotal
<1> HIDE DEF w
<1>3. n \in Map /\ Total(Balances(n)) = Total(Balances(w))
  BY Zenon, <1>2, LeadsTotal DEF w
<1>4. Counted(w, q)
  BY Zenon, <1>1, <1>2 DEF Counted
<1>5. Counted(n, q \o txs)
  BY Zenon, <1>1, <1>2, <1>4, LeadsCounted DEF w
<1>6. Total(Balances(n)) = Total(Supply) + (k + 1) * Reward
  <2>1. Total(Supply) \in Int /\ Reward \in Nat
    BY Zenon, SupplyTotal, AssemblyAssumption
  <2>2. (k + 1) * Reward = k * Reward + Reward /\ k * Reward \in Int
    BY <1>1, <2>1
  <2> QED
    BY <1>1, <1>2, <1>3, <2>1, <2>2
<1>7. q \o txs \in Seq(Tx) /\ k + 1 \in Nat
  BY <1>1
<1> QED
  BY Zenon, <1>3, <1>5, <1>6, <1>7 DEF Ledger

(* HEAD moves on: its Statedb has objects of its own, and all are clean.     *)
LEMMA NewHeadSteps ==
  ASSUME LedgerInv, NEW c \in Account, NEW txs \in Seq(Tx), Result(c, txs).ok,
         NewHead(Result(c, txs).s, txs), UNCHANGED <<pool, work>>, task' \in {task, NoTask}
  PROVE  /\ LedgerInv' /\ Mirrors(heap', head', root')
         /\ Busy(work) => Cached(work.db) \cap Cached(head') = {}
<1> DEFINE s == [heap |-> heap, db |-> NewStatedb(root)]
           r == Result(c, txs)
           t == r.s
<1>1. /\ PoolInv /\ Ledger(root, onChain, height) /\ Formed(heap, head)
      /\ Busy(work) => Job(work) /\ Formed(heap, work.db)
      /\ task # NoTask => task.txs \in Seq(Tx)
  BY Zenon DEF LedgerInv
<1>2. HeapOK(heap) /\ root \in Map
  BY Zenon, <1>1 DEF Formed, Ledger
<1>3. /\ Apart(s, t) /\ Mirrors(t.heap, t.db, t.db.trie)
      /\ Leads(Rewarded(root, c), txs, t.db.trie)
  BY Zenon, <1>2, ResultShows
<1>4. s.heap = heap /\ Cached(s.db) = {}
  BY Zenon, <1>2, NewStatedbMirrors
<1>5. /\ heap' = Live(t.heap, t.db, work) /\ head' = t.db /\ root' = t.db.trie
      /\ height' = height + 1 /\ onChain' = onChain \o txs
  BY Zenon DEF NewHead
<1> HIDE DEF s, r, t
<1>6. Ledger(root', onChain', height')
  BY Zenon, <1>1, <1>3, <1>5, LedgerOn
<1>7. Formed(heap', head') /\ Mirrors(heap', head', root')
  <2>1. Formed(t.heap, t.db)
    BY Zenon, <1>3 DEF Apart, FormedState
  <2> QED
    BY Zenon, <1>3, <1>5, <2>1, LiveKeeps
<1>8. Busy(work) => Formed(heap', work.db)
  BY Zenon, <1>1, <1>3, <1>4, <1>5, OthersKept, LiveKeeps
<1>9. ASSUME Busy(work) PROVE Cached(work.db) \cap Cached(head') = {}
  <2>1. Cached(work.db) \subseteq DOMAIN heap
    BY Zenon, <1>1, <1>9 DEF Formed, Cached
  <2>2. Cached(t.db) \cap DOMAIN heap = {}
    BY Zenon, <1>3, <1>4 DEF Apart, Frame
  <2> QED
    BY Zenon, <1>5, <2>1, <2>2
<1>10. PoolInv'
  BY Zenon, <1>1, OtherSteps DEF pool
<1>11. LedgerInv'
  BY Zenon, <1>1, <1>6, <1>7, <1>8, <1>10 DEF LedgerInv
<1> QED
  BY Zenon, <1>7, <1>9, <1>11

(* A read of HEAD, by the pool or an RPC call: what mirrors HEAD's root goes *)
(* on doing so, and unless changes of the miner are committed, its copy      *)
(* shows what it did.                                                        *)
LEMMA ReadSteps ==
  ASSUME LedgerInv, NEW a \in Account, ReadHead(Reads([heap |-> heap, db |-> head], a)),
         UNCHANGED <<hashToTxMap, accountToTxsMap, work, task>>
  PROVE  LedgerInv' /\ (MinedInv => MinedInv')
<1> DEFINE s == [heap |-> heap, db |-> head]
           t == Reads(s, a)
<1>1. /\ PoolInv /\ Ledger(root, onChain, height) /\ Formed(heap, head)
      /\ Busy(work) => Job(work) /\ Formed(heap, work.db)
      /\ task # NoTask => task.txs \in Seq(Tx)
  BY Zenon DEF LedgerInv
<1>2. /\ heap' = Live(t.heap, t.db, work) /\ head' = t.db
      /\ spoiled' = (spoiled \/ \E r \in Cached(head) : heap[r].dirty /\ ~t.heap[r].dirty)
      /\ UNCHANGED <<root, height, onChain, refused, hashToTxMap, accountToTxsMap, work, task>>
  BY Zenon DEF ReadHead
<1>3. FormedState(s) /\ s.heap = heap /\ s.db = head
  BY Zenon, <1>1 DEF FormedState
<1>4. /\ FormedState(t) /\ Kept(s, t) /\ Frame(s, t)
      /\ \A m : Mirrors(s.heap, s.db, m) => Mirrors(t.heap, t.db, m)
  BY Zenon, <1>3, GetFormed DEF Reads
<1> HIDE DEF s, t
<1>5. Busy(work) => Formed(t.heap, work.db)
  BY Zenon, <1>1, <1>3, <1>4, OthersKept DEF Apart
<1>6. Formed(t.heap, t.db)
  BY Zenon, <1>4 DEF FormedState
<1>7. LedgerInv'
  <2>1. PoolInv'
    BY Zenon, <1>1, <1>2, OtherSteps
  <2>2. Formed(heap', head')
    BY Zenon, <1>2, <1>6, LiveKeeps
  <2>3. Busy(work) => Formed(heap', work.db)
    BY Zenon, <1>2, <1>5, LiveKeeps
  <2> QED
    BY Zenon, <1>1, <1>2, <2>1, <2>2, <2>3 DEF LedgerInv
<1>8. ASSUME MinedInv PROVE MinedInv'
  <2>1. Mirrors(heap, head, root) => Mirrors(heap', head', root)
    BY Zenon, <1>2, <1>3, <1>4, <1>6, LiveKeeps
  <2>2. ASSUME Busy(work), Cached(work.db) \cap Cached(head) = {}
        PROVE  Cached(work.db) \cap Cached(head') = {}
    <3>1. Cached(work.db) \subseteq DOMAIN heap
      BY Zenon, <1>1, <2>2 DEF Formed, Cached
    <3>2. Cached(head') \cap DOMAIN heap \subseteq Cached(head)
      BY Zenon, <1>2, <1>3, <1>4 DEF Frame
    <3> QED
      BY Zenon, <2>2, <3>1, <3>2
  <2>3. ASSUME ~spoiled', Busy(work), Halfway(Copy, work, root) PROVE Halfway(Copy, work, root)'
    <3>1. SoundState(Copy) /\ Copy = [heap |-> heap, db |-> work.db]
      BY Zenon, <2>3 DEF Halfway, Copy
    <3>2. ASSUME NEW b \in Account, work.db.cache[b] # Nil
          PROVE  LET r == work.db.cache[b]
                 IN  /\ r \in DOMAIN t.heap /\ t.heap[r].account = heap[r].account
                     /\ t.heap[r].dirty = heap[r].dirty
      <4> DEFINE r == work.db.cache[b]
      <4>1. r \in DOMAIN heap /\ r \in DOMAIN t.heap /\ heap[r] \in Object
        BY Zenon, <1>1, <1>5, <2>3, <3>2 DEF Formed, HeapOK
      <4> HIDE DEF r
      <4>2. t.heap[r] = heap[r] \/ (r \in Cached(head) /\ t.heap[r] = Clean(heap[r]))
        BY Zenon, <1>3, <1>4, <4>1 DEF Kept
      <4>3. CASE t.heap[r] = heap[r]
        BY Zenon, <4>1, <4>3 DEF r
      <4>4. CASE r \in Cached(head) /\ t.heap[r] = Clean(heap[r])
        <5>1. t.heap[r].account = heap[r].account /\ t.heap[r].dirty = FALSE
          BY Zenon, <4>1, <4>4 DEF Clean, Object
        <5>2. heap[r].dirty = FALSE
          <6>1. heap[r].dirty \in BOOLEAN
            BY Zenon, <4>1 DEF Object
          <6>2. ~heap[r].dirty
            BY Zenon, <1>2, <2>3, <4>4, <5>1
          <6> QED
            BY Zenon, <6>1, <6>2
        <5> QED
          BY Zenon, <4>1, <5>1, <5>2 DEF r
      <4> QED
        BY Zenon, <4>2, <4>3, <4>4
    <3>3. HeapOK(t.heap)
      BY Zenon, <1>6 DEF Formed
    <3>4. SoundState([heap |-> t.heap, db |-> work.db]) /\ View(t.heap, work.db) = View(heap, work.db)
      BY Zenon, <3>1, <3>2, <3>3, SameObjects
    <3>5. /\ SoundState([heap |-> heap', db |-> work.db])
          /\ View(heap', work.db) = View(heap, work.db)
      <4> DEFINE l == Live(t.heap, t.db, work)
      <4>1. SoundState([heap |-> l, db |-> work.db]) /\ View(l, work.db) = View(t.heap, work.db)
        BY <2>3, <3>4, LiveSound
      <4>2. heap' = l
        BY Zenon, <1>2
      <4> HIDE DEF l
      <4> QED
        BY Zenon, <3>4, <4>1, <4>2
    <3>6. Copy' = [heap |-> heap', db |-> work.db]
      BY Zenon, <1>2 DEF Copy
    <3>7. SoundState(Copy') /\ SameView(Copy', Copy)
      BY Zenon, <3>1, <3>5, <3>6 DEF SameView
    <3>8. Halfway(Copy', work, root)
      BY Zenon, <2>3, <3>7, SameHalfway
    <3> QED
      BY Zenon, <1>2, <3>8
  <2>4. spoiled => spoiled'
    BY Zenon, <1>2
  <2>5. OnHead' <=> OnHead
    BY Zenon, <1>2 DEF OnHead
  <2> QED
    BY Zenon, <1>2, <1>8, <2>1, <2>2, <2>3, <2>4, <2>5 DEF MinedInv
<1> QED
  BY Zenon, <1>7, <1>8

(* AddTransaction, before the lock. *)
LEMMA ValidateSteps ==
  ASSUME LedgerInv, NEW tx \in Tx, Validate(tx)
  PROVE  LedgerInv' /\ (MinedInv => MinedInv')
  BY Zenon, ReadSteps, TxFields DEF Validate

(* An RPC call. *)
LEMMA GetBalanceSteps ==
  ASSUME LedgerInv, NEW a \in Asked, GetBalance(a)
  PROVE  LedgerInv' /\ (MinedInv => MinedInv')
<1>1. a \in Account
  BY Zenon, AssemblyAssumption
<1> QED
  BY Zenon, <1>1, ReadSteps DEF GetBalance, pool

(* AddTransaction, under the lock, changes the pool only. *)
LEMMA PoolSteps ==
  ASSUME LedgerInv, NEW tx \in Tx, AddTransaction(tx)
  PROVE  LedgerInv' /\ (MinedInv => MinedInv')
<1>1. UNCHANGED <<heap, head, root, height, onChain, work, task, refused, spoiled>> /\ PoolInv'
  BY Zenon, AddSteps DEF AddTransaction, LedgerInv, chain, marks
<1> QED
  BY Zenon, <1>1 DEF LedgerInv, MinedInv, OnHead, Copy

(* What the pool lists is a sequence of transactions. *)
LEMMA ProcessableTxs ==
  ASSUME PoolInv
  PROVE  Processable \subseteq Seq(Tx)
<1> DEFINE txs == (UNION {{accountToTxsMap[a][n] : n \in Nonces} : a \in Account}) \ {NoTx}
<1>1. ASSUME NEW tx \in txs PROVE tx \in Tx /\ tx \in hashToTxMap
  <2>1. PICK a \in Account, n \in Nonces : tx = accountToTxsMap[a][n]
    BY Zenon
  <2>2. tx # NoTx
    BY Zenon
  <2> QED
    BY <2>1, <2>2 DEF PoolInv, PoolConsistent
<1>2. txs \subseteq Tx /\ txs \subseteq hashToTxMap
  BY Zenon, <1>1
<1>3. IsFiniteSet(txs) /\ Cardinality(txs) \in Nat
  BY Zenon, <1>2, FS_Subset, FS_CardinalityType DEF PoolInv
<1>4. Processable \subseteq [1 .. Cardinality(txs) -> txs]
  BY Zenon DEF Processable
<1> HIDE DEF txs
<1> QED
  BY <1>2, <1>3, <1>4

(* prepareNewBlock: the copy of HEAD's Statedb has HEAD's accounts. *)
LEMMA PrepareSteps ==
  ASSUME LedgerInv, PrepareNewBlock
  PROVE  LedgerInv' /\ (MinedInv => MinedInv')
<1>1. PICK q \in Processable :
        work' = [height |-> height, db |-> head, txs |-> q, sealed |-> <<>>, at |-> "reward"]
  BY Zenon DEF PrepareNewBlock, GetCopy
<1>2. /\ ~Busy(work) /\ task = NoTask
      /\ UNCHANGED <<heap, head, root, height, onChain, hashToTxMap, accountToTxsMap, task, refused, spoiled>>
  BY Zenon DEF PrepareNewBlock, chain, pool, marks
<1>3. PoolInv /\ PoolInv' /\ Formed(heap, head) /\ height \in Nat
  BY Zenon, <1>2, OtherSteps DEF LedgerInv, Ledger
<1>4. q \in Seq(Tx) /\ <<>> \in Seq(Tx)
  <2>1. q \in Seq(Tx)
    BY Zenon, <1>3, ProcessableTxs
  <2> QED
    BY <2>1
<1>5. work'.height = height /\ work'.db = head /\ work'.sealed = <<>> /\ work'.at = "reward"
  BY Zenon, <1>1
<1>6. Job(work')
  BY Zenon, <1>1, <1>4 DEF Job
<1>7. LedgerInv'
  BY Zenon, <1>2, <1>3, <1>5, <1>6 DEF LedgerInv
<1>8. ASSUME MinedInv PROVE MinedInv'
  <2>1. ~spoiled => Mirrors(heap, head, root)
    BY Zenon, <1>2, <1>8 DEF MinedInv, OnHead
  <2>2. height \in 0 .. height
    BY <1>3
  <2>3. ~spoiled => Halfway(Copy', work', root)
    <3>1. Copy' = [heap |-> heap, db |-> head]
      BY Zenon, <1>2, <1>5 DEF Copy
    <3>2. FormedState(Copy') /\ Copy'.heap = heap /\ Copy'.db = head
      BY Zenon, <1>3, <3>1 DEF FormedState
    <3>3. ~spoiled => SoundState(Copy') /\ View(Copy'.heap, Copy'.db) = root
      BY Zenon, <2>1, <3>2, MirrorSound
    <3> QED
      BY Zenon, <1>5, <3>3 DEF Halfway
  <2>4. work'.height = height' /\ task' = NoTask /\ height' = height
    BY Zenon, <1>2, <1>5
  <2>5. (refused => spoiled)'
    BY Zenon, <1>2, <1>8 DEF MinedInv
  <2> QED
    BY Zenon, <1>2, <2>1, <2>2, <2>3, <2>4, <2>5 DEF MinedInv
<1> QED
  BY Zenon, <1>7, <1>8

(* A step of applyTransactions that leaves the copy in s and goes on with w: *)
(* if it is the miner of the present HEAD, the copy has to be halfway; if    *)
(* not, HEAD's objects are other ones.                                       *)
LEMMA ContinueSteps ==
  ASSUME LedgerInv, Busy(work), NEW s, Apart(Copy, s), NEW w, Continue(s, w), Job(w),
         w.height = work.height, PoolInv'
  PROVE  /\ LedgerInv'
         /\ MinedInv /\ (~spoiled /\ work.height = height => Halfway(s, w, root)) => MinedInv'
<1>1. /\ work' = [w EXCEPT !.db = s.db] /\ heap' = Live(s.heap, head, work')
      /\ UNCHANGED <<head, root, height, onChain, task, refused, spoiled>>
  BY Zenon DEF Continue, marks
<1>2. /\ DOMAIN work' = {"height", "db", "txs", "sealed", "at"} /\ work'.db = s.db
      /\ work'.height = work.height /\ work'.txs = w.txs /\ work'.sealed = w.sealed /\ work'.at = w.at
  BY Zenon, <1>1 DEF Job
<1>3. Job(work') /\ Busy(work')
  BY Zenon, <1>2 DEF Job, Busy
<1>4. /\ Ledger(root, onChain, height) /\ Formed(heap, head) /\ Formed(heap, work.db)
      /\ task # NoTask => task.txs \in Seq(Tx)
  BY Zenon DEF LedgerInv
<1>5. Copy.heap = heap /\ Copy.db = work.db
  BY Zenon DEF Copy
<1>6. Formed(s.heap, s.db) /\ Formed(s.heap, head)
  BY Zenon, <1>4, <1>5, OthersKept DEF Apart, FormedState
<1>7. Formed(heap', head) /\ Formed(heap', s.db)
  BY Zenon, <1>1, <1>2, <1>3, <1>6, LiveKeeps
<1>8. LedgerInv'
  BY Zenon, <1>1, <1>2, <1>3, <1>4, <1>7 DEF LedgerInv
<1>9. ASSUME MinedInv, ~spoiled /\ work.height = height => Halfway(s, w, root) PROVE MinedInv'
  <2>1. /\ (refused => spoiled) /\ task = NoTask /\ work.height \in 0 .. height
        /\ work.height # height => Cached(work.db) \cap Cached(head) = {}
        /\ ~spoiled /\ work.height # height => Mirrors(heap, head, root)
    BY Zenon, <1>9 DEF MinedInv, OnHead
  <2>2. ASSUME work.height # height PROVE Cached(s.db) \cap Cached(head) = {}
    <3>1. Cached(head) \subseteq DOMAIN heap
      BY Zenon, <1>4 DEF Formed, Cached
    <3>2. Cached(s.db) \cap DOMAIN heap \subseteq Cached(work.db)
      BY Zenon, <1>5 DEF Apart, Frame
    <3> QED
      BY Zenon, <2>1, <2>2, <3>1, <3>2
  <2>3. ASSUME ~spoiled, work.height # height PROVE Mirrors(heap', head, root)
    <3>1. Cached(head) \cap Cached(Copy.db) = {}
      BY Zenon, <1>5, <2>1, <2>3
    <3>2. Mirrors(s.heap, head, root)
      BY Zenon, <1>4, <1>5, <2>1, <2>3, <3>1, OthersKept
    <3> QED
      BY Zenon, <1>1, <1>6, <3>2, LiveKeeps
  <2>4. ASSUME ~spoiled, work.height = height PROVE Halfway(Copy', work', root)
    <3> DEFINE t == [heap |-> s.heap, db |-> s.db]
    <3>1. SoundState(t) /\ Halfway(s, w, root)
      BY Zenon, <1>9, <2>4 DEF Halfway, SoundState, Shaped
    <3>2. Copy' = [heap |-> heap', db |-> s.db]
      BY Zenon, <1>2 DEF Copy
    <3>3. SoundState(Copy') /\ SameView(Copy', s)
      <4> DEFINE w2 == work'
                 l == Live(s.heap, head, w2)
      <4>1. Busy(w2) /\ s.db = w2.db /\ SoundState([heap |-> s.heap, db |-> s.db])
        BY Zenon, <1>2, <1>3, <3>1
      <4> HIDE DEF w2
      <4>2. SoundState([heap |-> l, db |-> s.db]) /\ View(l, s.db) = View(s.heap, s.db)
        BY <4>1, LiveSound
      <4>3. heap' = l
        BY Zenon, <1>1 DEF w2
      <4> HIDE DEF l
      <4> QED
        BY Zenon, <3>2, <4>2, <4>3 DEF SameView
    <3>4. Halfway(Copy', w, root)
      BY Zenon, <3>1, <3>3, SameHalfway
    <3> QED
      BY Zenon, <1>2, <3>4 DEF Halfway
  <2>5. (work'.height = height' <=> work.height = height) /\ (OnHead' <=> work.height = height)
    BY Zenon, <1>1, <1>2, <1>3, <2>1 DEF OnHead
  <2> QED
    BY Zenon, <1>1, <1>2, <1>3, <2>1, <2>2, <2>3, <2>4, <2>5 DEF MinedInv
<1> QED
  BY Zenon, <1>8, <1>9

(* What the miner works on, at a place of applyTransactions. *)
LEMMA CopyFormed ==
  ASSUME LedgerInv, Busy(work)
  PROVE  /\ FormedState(Copy) /\ PoolInv /\ Job(work) /\ Coinbase \in Account
         /\ MinedInv /\ ~spoiled /\ work.height = height => Halfway(Copy, work, root) /\ root \in Map
<1>1. PoolInv /\ Job(work) /\ Formed(heap, work.db) /\ root \in Map
  BY Zenon DEF LedgerInv, Ledger
<1>2. FormedState(Copy)
  BY Zenon, <1>1 DEF FormedState, Copy
<1> QED
  BY Zenon, <1>1, <1>2, AssemblyAssumption DEF MinedInv

(* The fields of At. *)
LEMMA AtFields ==
  ASSUME Job(work), NEW at \in {"validate", "nonce", "call", "commit"}, at # "validate" => work.txs # <<>>
  PROVE  /\ Job(At(at)) /\ At(at).height = work.height /\ At(at).txs = work.txs
         /\ At(at).sealed = work.sealed /\ At(at).at = at
<1>1. /\ DOMAIN At(at) = {"height", "db", "txs", "sealed", "at"} /\ At(at).height = work.height
      /\ At(at).txs = work.txs /\ At(at).sealed = work.sealed /\ At(at).at = at
  BY Zenon DEF At, Job
<1> QED
  BY Zenon, <1>1 DEF Job

(* The transactions that are left. *)
LEMMA HeadTail ==
  ASSUME NEW q \in Seq(Tx), q # <<>>
  PROVE  Head(q) \in Tx /\ Tail(q) \in Seq(Tx)
  OBVIOUS

(* The reward. *)
LEMMA RewardSteps ==
  ASSUME LedgerInv, TakeReward
  PROVE  LedgerInv' /\ (MinedInv => MinedInv')
<1> DEFINE s == ApplyReward(Copy, Coinbase)
           w == At("validate")
<1>1. /\ work.at = "reward" /\ Busy(work) /\ Continue(s, w)
      /\ UNCHANGED <<hashToTxMap, accountToTxsMap>>
  BY Zenon DEF TakeReward, Busy
<1>2. /\ FormedState(Copy) /\ PoolInv /\ Job(work) /\ Coinbase \in Account
      /\ MinedInv /\ ~spoiled /\ work.height = height => Halfway(Copy, work, root) /\ root \in Map
  BY Zenon, <1>1, CopyFormed
<1>3. Apart(Copy, s) /\ PoolInv'
  BY Zenon, <1>1, <1>2, RewardApart, OtherSteps
<1>4. Job(w) /\ w.height = work.height /\ w.sealed = work.sealed /\ w.at = "validate"
  BY Zenon, <1>2, AtFields
<1>5. ASSUME Halfway(Copy, work, root), root \in Map PROVE Halfway(s, w, root)
  <2>1. SoundState(Copy) /\ work.sealed = <<>> /\ View(Copy.heap, Copy.db) = root
    BY Zenon, <1>1, <1>5 DEF Halfway
  <2>2. SoundState(s) /\ View(s.heap, s.db) = Rewarded(root, Coinbase)
    BY Zenon, <1>2, <2>1, ApplyRewardShows
  <2>3. Leads(Rewarded(root, Coinbase), <<>>, Rewarded(root, Coinbase))
    BY Zenon, <1>2, <1>5, RewardHolds, LeadsNowhere
  <2> HIDE DEF s, w
  <2> QED
    BY Zenon, <1>4, <2>1, <2>2, <2>3 DEF Halfway
<1> HIDE DEF s, w
<1> QED
  BY Zenon, <1>1, <1>2, <1>3, <1>4, <1>5, ContinueSteps

(* RemoveTransaction and Validate: a valid transaction is applied next, an   *)
(* invalid one is left out.                                                  *)
LEMMA ValidateNextSteps ==
  ASSUME LedgerInv, ValidateNext
  PROVE  LedgerInv' /\ (MinedInv => MinedInv')
<1> DEFINE tx == Head(work.txs)
           s == Reads(Copy, From[tx])
           w == IF Valid(s, tx) THEN At("nonce") ELSE [work EXCEPT !.txs = Tail(@)]
<1>1. /\ work.at = "validate" /\ Busy(work) /\ work.txs # <<>>
      /\ RemoveTransaction(tx) /\ Continue(s, w)
  BY Zenon DEF ValidateNext, Busy
<1>2. /\ FormedState(Copy) /\ PoolInv /\ Job(work)
      /\ MinedInv /\ ~spoiled /\ work.height = height => Halfway(Copy, work, root) /\ root \in Map
  BY Zenon, <1>1, CopyFormed
<1>3. tx \in Tx /\ Tail(work.txs) \in Seq(Tx) /\ From[tx] \in Account
  BY Zenon, <1>1, <1>2, HeadTail, TxFields DEF Job
<1>4. Apart(Copy, s) /\ PoolInv'
  BY Zenon, <1>1, <1>2, <1>3, GetApart, RemoveSteps DEF Reads
<1>5. /\ Job(w) /\ w.height = work.height /\ w.sealed = work.sealed
      /\ IF Valid(s, tx) THEN w.at = "nonce" /\ w.txs = work.txs ELSE w.at = "validate"
  <2>1. CASE Valid(s, tx)
    BY Zenon, <1>1, <1>2, <2>1, AtFields
  <2>2. CASE ~Valid(s, tx)
    <3>1. w = [work EXCEPT !.txs = Tail(work.txs)]
      BY Zenon, <2>2
    <3> HIDE DEF w, s
    <3>2. /\ DOMAIN w = {"height", "db", "txs", "sealed", "at"} /\ w.height = work.height
          /\ w.txs = Tail(work.txs) /\ w.sealed = work.sealed /\ w.at = "validate"
      BY Zenon, <1>1, <1>2, <3>1 DEF Job
    <3> QED
      BY Zenon, <1>2, <1>3, <2>2, <3>2 DEF Job
  <2> QED
    BY Zenon, <2>1, <2>2
<1>6. ASSUME Halfway(Copy, work, root) PROVE Halfway(s, w, root)
  <2>1. SoundState(Copy) /\ Leads(Rewarded(root, Coinbase), work.sealed, View(Copy.heap, Copy.db))
    BY Zenon, <1>1, <1>6 DEF Halfway
  <2>2. SoundState(s) /\ View(s.heap, s.db) = View(Copy.heap, Copy.db)
    BY Zenon, <1>3, <2>1, GetSound DEF Reads, SameView
  <2> HIDE DEF s, w
  <2>3. Valid(s, tx) => Allowed(View(s.heap, s.db), tx)
    BY Zenon, ValidIsAllowed
  <2> QED
    BY Zenon, <1>5, <2>1, <2>2, <2>3 DEF Halfway
<1> HIDE DEF s, w
<1> QED
  BY Zenon, <1>1, <1>2, <1>4, <1>5, <1>6, ContinueSteps

(* The nonce. *)
LEMMA CountSteps ==
  ASSUME LedgerInv, CountNext
  PROVE  LedgerInv' /\ (MinedInv => MinedInv')
<1> DEFINE tx == Head(work.txs)
           s == CountNonce(Copy, tx)
           w == At("call")
<1>1. /\ work.at = "nonce" /\ Busy(work) /\ Continue(s, w)
      /\ UNCHANGED <<hashToTxMap, accountToTxsMap>>
  BY Zenon DEF CountNext, Busy
<1>2. /\ FormedState(Copy) /\ PoolInv /\ Job(work)
      /\ MinedInv /\ ~spoiled /\ work.height = height => Halfway(Copy, work, root) /\ root \in Map
  BY Zenon, <1>1, CopyFormed
<1>3. work.txs # <<>> /\ tx \in Tx
  BY Zenon, <1>1, <1>2, HeadTail DEF Job
<1>4. Apart(Copy, s) /\ PoolInv'
  BY Zenon, <1>1, <1>2, <1>3, CountApart, OtherSteps
<1>5. /\ Job(w) /\ w.height = work.height /\ w.txs = work.txs /\ w.sealed = work.sealed
      /\ w.at = "call"
  BY Zenon, <1>2, <1>3, AtFields
<1>6. ASSUME Halfway(Copy, work, root) PROVE Halfway(s, w, root)
  <2> DEFINE n == View(Copy.heap, Copy.db)
  <2>1. SoundState(Copy) /\ Leads(Rewarded(root, Coinbase), work.sealed, n) /\ Allowed(n, tx)
    BY Zenon, <1>1, <1>6 DEF Halfway
  <2>2. SoundState(s) /\ View(s.heap, s.db) = Count(n, tx) /\ n \in Map
    BY Zenon, <1>3, <2>1, CountShows, ViewType DEF Map
  <2> HIDE DEF s, w, n
  <2> QED
    BY Zenon, <1>5, <2>1, <2>2 DEF Halfway
<1> HIDE DEF s, w
<1> QED
  BY Zenon, <1>1, <1>2, <1>4, <1>5, <1>6, ContinueSteps

(* evm.Call *)
LEMMA CallSteps ==
  ASSUME LedgerInv, CallNext
  PROVE  LedgerInv' /\ (MinedInv => MinedInv')
<1> DEFINE tx == Head(work.txs)
           s == Call(Copy, tx)
           w == At("commit")
<1>1. /\ work.at = "call" /\ Busy(work) /\ Continue(s, w)
      /\ UNCHANGED <<hashToTxMap, accountToTxsMap>>
  BY Zenon DEF CallNext, Busy
<1>2. /\ FormedState(Copy) /\ PoolInv /\ Job(work)
      /\ MinedInv /\ ~spoiled /\ work.height = height => Halfway(Copy, work, root) /\ root \in Map
  BY Zenon, <1>1, CopyFormed
<1>3. work.txs # <<>> /\ tx \in Tx
  BY Zenon, <1>1, <1>2, HeadTail DEF Job
<1>4. Apart(Copy, s) /\ PoolInv'
  BY Zenon, <1>1, <1>2, <1>3, CallApart, OtherSteps
<1>5. /\ Job(w) /\ w.height = work.height /\ w.txs = work.txs /\ w.sealed = work.sealed
      /\ w.at = "commit"
  BY Zenon, <1>2, <1>3, AtFields
<1>6. ASSUME Halfway(Copy, work, root) PROVE Halfway(s, w, root)
  <2>1. PICK n \in Map : /\ Leads(Rewarded(root, Coinbase), work.sealed, n) /\ Allowed(n, tx)
                         /\ View(Copy.heap, Copy.db) = Count(n, tx)
    BY Zenon, <1>1, <1>6 DEF Halfway
  <2>2. SoundState(s) /\ View(s.heap, s.db) = Move(n, tx)
    BY Zenon, <1>3, <1>6, <2>1, CallShows DEF Halfway
  <2> HIDE DEF s, w
  <2> QED
    BY Zenon, <1>5, <2>1, <2>2 DEF Halfway
<1> HIDE DEF s, w
<1> QED
  BY Zenon, <1>1, <1>2, <1>4, <1>5, <1>6, ContinueSteps

(* The Commit of a transaction, which is sealed. *)
LEMMA CommitSteps ==
  ASSUME LedgerInv, CommitNext
  PROVE  LedgerInv' /\ (MinedInv => MinedInv')
<1> DEFINE tx == Head(work.txs)
           s == Commit(Copy)
           q == Append(work.sealed, tx)
           w == [At("validate") EXCEPT !.txs = Tail(@), !.sealed = Append(@, tx)]
<1>1. /\ work.at = "commit" /\ Busy(work) /\ Continue(s, w)
      /\ UNCHANGED <<hashToTxMap, accountToTxsMap>>
  BY Zenon DEF CommitNext, Busy
<1>2. /\ FormedState(Copy) /\ PoolInv /\ Job(work)
      /\ MinedInv /\ ~spoiled /\ work.height = height => Halfway(Copy, work, root) /\ root \in Map
  BY Zenon, <1>1, CopyFormed
<1>3. work.txs # <<>> /\ tx \in Tx /\ Tail(work.txs) \in Seq(Tx) /\ work.sealed \in Seq(Tx)
  BY Zenon, <1>1, <1>2, HeadTail DEF Job
<1>4. Apart(Copy, s) /\ PoolInv'
  BY Zenon, <1>1, <1>2, CommitApart, OtherSteps
<1>5. Job(w) /\ w.height = work.height /\ w.sealed = q /\ w.at = "validate"
  <2> DEFINE v == At("validate")
  <2>1. Job(v) /\ v.height = work.height /\ v.txs = work.txs /\ v.sealed = work.sealed /\ v.at = "validate"
    BY Zenon, <1>2, AtFields
  <2>2. w = [v EXCEPT !.txs = Tail(v.txs), !.sealed = Append(v.sealed, tx)]
    BY Zenon
  <2>3. q \in Seq(Tx)
    BY <1>3
  <2> HIDE DEF v, w, q, tx
  <2>4. /\ DOMAIN w = {"height", "db", "txs", "sealed", "at"} /\ w.height = work.height
        /\ w.txs = Tail(work.txs) /\ w.sealed = q /\ w.at = "validate"
    BY Zenon, <2>1, <2>2 DEF Job, q
  <2> QED
    BY Zenon, <1>3, <2>3, <2>4 DEF Job
<1>6. ASSUME Halfway(Copy, work, root) PROVE Halfway(s, w, root)
  <2>1. PICK n \in Map : /\ Leads(Rewarded(root, Coinbase), work.sealed, n) /\ Allowed(n, tx)
                         /\ View(Copy.heap, Copy.db) = Move(n, tx)
    BY Zenon, <1>1, <1>6 DEF Halfway
  <2>2. SoundState(s) /\ View(s.heap, s.db) = Move(n, tx)
    BY Zenon, <1>6, <2>1, CommitSound DEF Halfway, SameView
  <2>3. Leads(Rewarded(root, Coinbase), q, Move(n, tx))
    BY Zenon, <1>3, <2>1, LeadsOn
  <2> HIDE DEF s, w, q
  <2> QED
    BY Zenon, <1>5, <2>2, <2>3 DEF Halfway
<1> HIDE DEF s, w
<1> QED
  BY Zenon, <1>1, <1>2, <1>4, <1>5, <1>6, ContinueSteps

(* The last Commit and commitTask: the header has the root that the sealed   *)
(* transactions lead to.                                                     *)
LEMMA SealSteps ==
  ASSUME LedgerInv, Seal
  PROVE  LedgerInv' /\ (MinedInv => MinedInv')
<1> DEFINE c == Commit(Copy)
<1>1. /\ work.at = "validate" /\ Busy(work) /\ work' = NoWork
      /\ task' = [height |-> work.height, txs |-> work.sealed, root |-> c.db.trie]
      /\ heap' = Live(c.heap, head, NoWork)
      /\ UNCHANGED <<hashToTxMap, accountToTxsMap, head, root, height, onChain, refused, spoiled>>
  BY Zenon DEF Seal, Busy, pool, marks
<1>2. /\ FormedState(Copy) /\ PoolInv /\ Job(work)
      /\ MinedInv /\ ~spoiled /\ work.height = height => Halfway(Copy, work, root) /\ root \in Map
  BY Zenon, <1>1, CopyFormed
<1>3. Copy.heap = heap /\ Copy.db = work.db
  BY Zenon DEF Copy
<1>4. Ledger(root, onChain, height) /\ Formed(heap, head)
  BY Zenon DEF LedgerInv
<1>5. Apart(Copy, c)
  BY Zenon, <1>2, CommitApart
<1>6. Halfway(Copy, work, root) => Leads(Rewarded(root, Coinbase), work.sealed, c.db.trie)
  BY Zenon, <1>1, CommitMirrors DEF Halfway, Mirrors
<1> HIDE DEF c
<1>7. Formed(c.heap, head) /\ Formed(heap', head)
  BY Zenon, <1>1, <1>3, <1>4, <1>5, OthersKept, LiveKeeps
<1>8. task'.height = work.height /\ task'.txs = work.sealed /\ task'.root = c.db.trie
  BY Zenon, <1>1
<1>9. ~Busy(work')
  BY Zenon, <1>1 DEF Busy, NoWork
<1>10. LedgerInv'
  <2>1. PoolInv'
    BY Zenon, <1>1, <1>2, OtherSteps
  <2>2. work.sealed \in Seq(Tx)
    BY Zenon, <1>2 DEF Job
  <2> QED
    BY Zenon, <1>1, <1>4, <1>7, <1>8, <1>9, <2>1, <2>2 DEF LedgerInv
<1>11. ASSUME MinedInv PROVE MinedInv'
  <2>1. /\ (refused => spoiled) /\ task = NoTask /\ work.height \in 0 .. height
        /\ work.height # height => Cached(work.db) \cap Cached(head) = {}
        /\ ~spoiled /\ work.height # height => Mirrors(heap, head, root)
    BY Zenon, <1>1, <1>11 DEF MinedInv, OnHead
  <2>2. task' # NoTask
    <3>1. c.db.trie \in [Account -> Accounts \cup {NoAccount}]
      BY Zenon, <1>5 DEF Apart, FormedState, Formed, DbOK
    <3>2. work.height \in Nat
      BY <1>4, <2>1 DEF Ledger
    <3>3. work.sealed \in Seq(Tx)
      BY Zenon, <1>2 DEF Job
    <3>4. task' \in [height : Nat, txs : Seq(Tx), root : [Account -> Accounts \cup {NoAccount}]]
      BY Zenon, <1>1, <3>1, <3>2, <3>3
    <3> QED
      BY Zenon, <3>4, AssemblyAssumption
  <2>3. ASSUME ~spoiled, work.height # height PROVE Mirrors(heap', head, root)
    <3>1. Cached(head) \cap Cached(Copy.db) = {}
      BY Zenon, <1>3, <2>1, <2>3
    <3>2. Mirrors(c.heap, head, root)
      BY Zenon, <1>3, <1>4, <1>5, <2>1, <2>3, <3>1, OthersKept
    <3> QED
      BY Zenon, <1>1, <1>7, <3>2, LiveKeeps
  <2>4. OnHead' <=> work.height = height
    BY Zenon, <1>1, <1>8, <1>9, <2>2 DEF OnHead
  <2>5. ~spoiled /\ work.height = height => Leads(Rewarded(root, Coinbase), work.sealed, c.db.trie)
    BY Zenon, <1>2, <1>6, <1>11
  <2> QED
    BY Zenon, <1>1, <1>8, <1>9, <2>1, <2>3, <2>4, <2>5 DEF MinedInv
<1> QED
  BY Zenon, <1>10, <1>11

(* waitBlock saves the block: on HEAD, its root is the one in the header. *)
LEMMA SaveSteps ==
  ASSUME LedgerInv, SaveBlock
  PROVE  LedgerInv' /\ (MinedInv => MinedInv')
<1> DEFINE r == Result(Coinbase, task.txs)
           taken == task.height = height /\ r.ok /\ r.s.db.trie = task.root
<1>1. /\ task # NoTask /\ task' = NoTask /\ UNCHANGED <<pool, work>>
      /\ IF taken THEN NewHead(r.s, task.txs)
         ELSE UNCHANGED <<chain, spoiled>> /\ refused' = (refused \/ task.height = height)
  BY Zenon DEF SaveBlock
<1>2. task.txs \in Seq(Tx) /\ Coinbase \in Account /\ HeapOK(heap) /\ root \in Map
  BY Zenon, <1>1, AssemblyAssumption DEF LedgerInv, Ledger, Formed
<1>3. \A n : Leads(Rewarded(root, Coinbase), task.txs, n) => r.ok /\ r.s.db.trie = n
  BY Zenon, <1>2, ResultShows
<1>4. CASE taken
  <2>1. LedgerInv' /\ Mirrors(heap', head', root')
    BY Zenon, <1>1, <1>2, <1>4, NewHeadSteps
  <2>2. MinedInv => ~Busy(work') /\ task' = NoTask /\ refused' = FALSE
    BY Zenon, <1>1, <1>4 DEF MinedInv, NewHead
  <2> QED
    BY Zenon, <2>1, <2>2 DEF MinedInv
<1>5. CASE ~taken
  <2>1. UNCHANGED <<heap, head, root, height, onChain, spoiled>>
    BY Zenon, <1>1, <1>5 DEF chain
  <2>2. PoolInv'
    BY Zenon, <1>1, OtherSteps DEF LedgerInv, pool
  <2>3. LedgerInv'
    BY Zenon, <1>1, <2>1, <2>2 DEF LedgerInv
  <2>4. ASSUME MinedInv PROVE MinedInv'
    <3>1. ~spoiled => task.height # height /\ ~refused
      BY Zenon, <1>1, <1>3, <1>5, <2>4 DEF MinedInv
    <3>2. ~Busy(work) /\ (~spoiled => Mirrors(heap, head, root))
      BY Zenon, <1>1, <2>4, <3>1 DEF MinedInv, OnHead
    <3>3. /\ ~Busy(work') /\ task' = NoTask /\ (refused' => spoiled')
          /\ ~spoiled' => Mirrors(heap', head', root')
      BY Zenon, <1>1, <1>5, <2>1, <3>1, <3>2
    <3> QED
      BY Zenon, <3>3 DEF MinedInv
  <2> QED
    BY Zenon, <2>3, <2>4
<1> QED
  BY Zenon, <1>4, <1>5

(* A block of another node: what the miner works on is a side chain now. *)
LEMMA NetworkSteps ==
  ASSUME LedgerInv, NEW txs \in Seq(Tx), NetworkBlock(txs)
  PROVE  LedgerInv' /\ (MinedInv => MinedInv')
<1> DEFINE r == Result(PeerCoinbase, txs)
<1>1. r.ok /\ NewHead(r.s, txs) /\ UNCHANGED <<pool, work, task>>
  BY Zenon DEF NetworkBlock
<1>2. /\ LedgerInv' /\ Mirrors(heap', head', root')
      /\ Busy(work) => Cached(work.db) \cap Cached(head') = {}
  BY Zenon, <1>1, AssemblyAssumption, NewHeadSteps
<1>3. height \in Nat /\ height' = height + 1 /\ refused' = FALSE
  BY Zenon, <1>1 DEF NewHead, LedgerInv, Ledger
<1>4. \A k \in 0 .. height : k \in 0 .. height' /\ k # height'
  BY <1>3
<1> QED
  BY Zenon, <1>1, <1>2, <1>3, <1>4 DEF MinedInv

(* The genesis block. *)
LEMMA Starts ==
  ASSUME Init
  PROVE  LedgerInv /\ MinedInv
<1>1. /\ heap = <<>> /\ head = NewStatedb(root) /\ root = GenesisTrie /\ height = 0
      /\ onChain = <<>> /\ ~Busy(work) /\ task = NoTask /\ refused = FALSE
  BY Zenon DEF Init, Busy, NoWork
<1>2. root \in Map
  BY Zenon, <1>1, AssemblyAssumption, NoAccountIsNone DEF GenesisTrie, Map, NewAccount, Accounts
<1>3. HeapOK(heap)
  <2>1. DOMAIN heap = {}
    BY <1>1
  <2> QED
    BY <2>1, FS_EmptySet DEF HeapOK
<1>4. Formed(heap, head)
  BY Zenon, <1>1, <1>2, <1>3, NewStatedbMirrors DEF FormedState
<1>5. Mirrors(heap, head, root)
  BY Zenon, <1>1 DEF Mirrors, NewStatedb
<1>6. Ledger(root, onChain, height)
  <2>1. \A a \in Account : Held(root, a).nonce = 0
    BY Zenon, <1>1 DEF Held, GenesisTrie, NewAccount
  <2>2. \A a : Sent(onChain, a) = {} /\ Paid(onChain, a) = {}
    BY <1>1 DEF Sent, Paid
  <2>3. Cardinality({}) = 0
    BY Zenon, FS_EmptySet
  <2>4. Counted(root, onChain)
    BY <2>1, <2>2, <2>3 DEF Counted
  <2>5. Total(Balances(root)) = Total(Supply) + height * Reward
    BY <1>1, SupplyTotal, AssemblyAssumption
  <2> QED
    BY <1>1, <1>2, <2>4, <2>5 DEF Ledger
<1>7. PoolInv
  BY Zenon, PoolStarts
<1>8. LedgerInv
  BY Zenon, <1>1, <1>4, <1>6, <1>7 DEF LedgerInv
<1>9. MinedInv
  BY Zenon, <1>1, <1>5 DEF MinedInv
<1> QED
  BY Zenon, <1>8, <1>9

(* Every step of the node. *)
LEMMA Steps ==
  ASSUME LedgerInv, [Next]_vars
  PROVE  LedgerInv' /\ (MinedInv => MinedInv')
<1>1. CASE UNCHANGED vars
  <2>1. /\ UNCHANGED <<heap, head, root, height, onChain, pool>>
        /\ UNCHANGED <<work, task, refused, spoiled>>
    BY Zenon, <1>1 DEF vars, chain, marks
  <2>2. PoolInv'
    BY Zenon, <2>1, OtherSteps DEF LedgerInv, pool
  <2> QED
    BY Zenon, <2>1, <2>2 DEF LedgerInv, MinedInv, OnHead, Copy
<1>2. <<>> \in Seq(Tx) /\ \A tx \in Tx : <<tx>> \in Seq(Tx)
  OBVIOUS
<1> QED
  BY Zenon, <1>1, <1>2, ValidateSteps, PoolSteps, GetBalanceSteps, PrepareSteps, RewardSteps,
     ValidateNextSteps, CountSteps, CallSteps, CommitSteps, SealSteps, SaveSteps, NetworkSteps DEF Next

(* Miner.Stop touches neither the chain nor the pool. *)
LEMMA StopSteps ==
  ASSUME LedgerInv, Stop
  PROVE  LedgerInv'
<1>1. task' = NoTask /\ UNCHANGED <<chain, pool, work>> /\ PoolInv'
  BY Zenon, OtherSteps DEF Stop, LedgerInv, pool
<1> QED
  BY Zenon, <1>1 DEF LedgerInv, chain

(* The nonces, by account. *)
LEMMA CountedNonces == LedgerInv => NonceCountsSent
<1> SUFFICES ASSUME LedgerInv, NEW a \in Account, root[a] # NoAccount
             PROVE  root[a].nonce \in Cardinality(Paid(onChain, a)) .. Cardinality(Sent(onChain, a))
  BY Zenon DEF NonceCountsSent, Sent, Paid
<1> QED
  BY Zenon DEF LedgerInv, Ledger, Counted, Held

(* The balances of HEAD's state are those of genesis and one reward for      *)
(* every block, with Miner.Stop and without.                                 *)
THEOREM SupplyIsConserved == Spec \/ StopSpec => []SupplyConserved
<1>1. Init => LedgerInv
  BY Zenon, Starts
<1>2. LedgerInv /\ [Next]_vars => LedgerInv'
  BY Zenon, Steps
<1>3. LedgerInv /\ [Next \/ Stop]_vars => LedgerInv'
  BY Zenon, Steps, StopSteps
<1>4. LedgerInv => SupplyConserved
  BY Zenon DEF LedgerInv, Ledger, SupplyConserved
<1> QED
  BY <1>1, <1>2, <1>3, <1>4, PTL DEF Spec, StopSpec

(* The nonce of an account in HEAD's state counts its transactions on the    *)
(* chain, with Miner.Stop and without.                                       *)
THEOREM NoncesCountSent == Spec \/ StopSpec => []NonceCountsSent
<1>1. Init => LedgerInv
  BY Zenon, Starts
<1>2. LedgerInv /\ [Next]_vars => LedgerInv'
  BY Zenon, Steps
<1>3. LedgerInv /\ [Next \/ Stop]_vars => LedgerInv'
  BY Zenon, Steps, StopSteps
<1> QED
  BY <1>1, <1>2, <1>3, CountedNonces, PTL DEF Spec, StopSpec

(* A block that the miner seals on HEAD is accepted by WriteBlock, whatever  *)
(* is read meanwhile and whatever the caches evict, unless a read of HEAD    *)
(* has committed what the miner had changed; as long as no task is abandoned. *)
THEOREM MinedBlocksAccepted == Spec => []MinedBlockAccepted
<1>1. Init => LedgerInv /\ MinedInv
  BY Zenon, Starts
<1>2. LedgerInv /\ MinedInv /\ [Next]_vars => LedgerInv' /\ MinedInv'
  BY Zenon, Steps
<1>3. MinedInv => MinedBlockAccepted
  BY Zenon DEF MinedInv, MinedBlockAccepted
<1> QED
  BY <1>1, <1>2, <1>3, PTL DEF Spec

(* What GetProcessableTransactions lists is in the pool, at its account and  *)
(* nonce, and the pool keeps to its capacity; with Stop and without.         *)
THEOREM PoolMapsAgree == Spec \/ StopSpec => []PoolConsistent
<1>1. Init => LedgerInv
  BY Zenon, Starts
<1>2. LedgerInv /\ [Next]_vars => LedgerInv'
  BY Zenon, Steps
<1>3. LedgerInv /\ [Next \/ Stop]_vars => LedgerInv'
  BY Zenon, Steps, StopSteps
<1>4. LedgerInv => PoolConsistent
  BY Zenon DEF LedgerInv, PoolInv
<1> QED
  BY <1>1, <1>2, <1>3, <1>4, PTL DEF Spec, StopSpec
=============================================================================


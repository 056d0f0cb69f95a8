---------------------------- MODULE MinerProofs ----------------------------
(***************************************************************************)
(* The workers of a task share the nonces out, for every number of nonces   *)
(* and of workers, whatever the callers and callbacks of the miner do.       *)
(***************************************************************************)
EXTENDS MCMiner, WellFoundedInduction, TLAPS

(* Induction over the numbers of a set. *)
LEMMA Induct ==
  ASSUME NEW S, 0 \in S, \A n \in Nat : n \in S => n + 1 \in S
  PROVE  Nat \subseteq S
<1> DEFINE C == Nat \ S
           R == {ss \in Nat \X Nat : ss[1] < ss[2]}
<1>1. SUFFICES ASSUME C # {} PROVE FALSE
  OBVIOUS
<1>2. IsWellFoundedOn(R, Nat)
  BY NatLessThanWellFounded DEF OpToRel
<1>3. \A x, y \in Nat : <<y, x>> \in R <=> y < x
  OBVIOUS
<1>4. PICK n \in C : \A m \in C : <<m, n>> \notin R
  <2>1. C \subseteq Nat
    OBVIOUS
  <2> HIDE DEF C, R
  <2> QED
    BY Zenon, <1>1, <1>2, <2>1, WFMin
<1>5. n # 0 /\ n - 1 \in Nat /\ n - 1 < n
  BY <1>4
<1>6. n - 1 \notin C
  <2> HIDE DEF C, R
  <2> QED
    BY Zenon, <1>3, <1>4, <1>5 DEF C
<1>7. n - 1 \in S
  BY <1>5, <1>6
<1> QED
  BY <1>4, <1>5, <1>7
-----------------------------------------------------------------------------
(* One worker, as StartMining is given it: it starts within its range.       *)
Ranged(w) ==
  /\ w.seed \in Nat /\ w.min \in Nat /\ w.max \in Nat
  /\ w.min <= w.seed /\ w.seed <= w.max /\ w.max <= MaxNonce

(* The nonce that it tries after k others: up from its seed, then from just  *)
(* above the least one, until it is back.                                    *)
Tries(w, k) ==
  IF w.seed + k <= w.max THEN w.seed + k
  ELSE IF k = w.max - w.min THEN Ended ELSE w.min + (w.seed + k - w.max)

(* The nonce before the seed; below zero it wraps. *)
LEMMA BeforeSeed ==
  ASSUME NEW n \in 0 .. MaxNonce
  PROVE  (n - 1) % (MaxNonce + 1) = IF n = 0 THEN MaxNonce ELSE n - 1
<1>1. MaxNonce \in Nat
  BY NonceAssumption
<1> QED
  BY <1>1, SMTT(30)

(* The loop of StartMining takes it from one to the next. *)
LEMMA TriesNext ==
  ASSUME NEW w, Ranged(w), NEW k \in 1 .. w.max - w.min
  PROVE  Tries(w, k) = NextNonce(w, Tries(w, k - 1))
<1> DEFINE seed == w.seed
           min == w.min
           max == w.max
           last == (w.seed - 1) % (MaxNonce + 1)
<1>1. /\ MaxNonce \in Nat /\ seed \in Nat /\ min \in Nat /\ max \in Nat
      /\ min <= seed /\ seed <= max /\ max <= MaxNonce /\ k \in Nat /\ k >= 1 /\ k <= max - min
  BY NonceAssumption DEF Ranged
<1>2. last = IF seed = 0 THEN MaxNonce ELSE seed - 1
  BY <1>1, BeforeSeed
<1>3. Tries(w, k) = IF seed + k <= max THEN seed + k
                    ELSE IF k = max - min THEN -1 ELSE min + (seed + k - max)
  BY DEF Tries, Ended
<1>4. Tries(w, k - 1) = IF seed + (k - 1) <= max THEN seed + (k - 1)
                        ELSE min + (seed + (k - 1) - max)
  BY <1>1 DEF Tries
<1> DEFINE prev == Tries(w, k - 1)
<1>5. NextNonce(w, prev) =
        IF prev = -1 \/ (IF prev = max THEN min ELSE prev) = last THEN -1
        ELSE (IF prev = max THEN min ELSE prev) + 1
  BY DEF NextNonce, Ended
<1> HIDE DEF seed, min, max, last, prev
<1>6. prev = IF seed + (k - 1) <= max THEN seed + (k - 1) ELSE min + (seed + (k - 1) - max)
  BY <1>4 DEF prev
<1>7. prev \in Nat
  BY <1>1, <1>6
<1>8. CASE seed + k <= max
  BY <1>1, <1>2, <1>3, <1>5, <1>6, <1>8 DEF prev
<1>9. CASE seed + (k - 1) = max
  BY <1>1, <1>2, <1>3, <1>5, <1>6, <1>9 DEF prev
<1>10. CASE seed + (k - 1) > max
  BY <1>1, <1>2, <1>3, <1>5, <1>6, <1>10 DEF prev
<1> QED
  BY <1>1, <1>8, <1>9, <1>10

(* So these are the nonces it tries. *)
LEMMA TriedAre ==
  ASSUME NEW w, Ranged(w)
  PROVE  Tried(w) = [k \in 0 .. w.max - w.min |-> Tries(w, k)]
<1> DEFINE D == 0 .. w.max - w.min
           Loop(f) == f = [k \in D |-> IF k = 0 THEN w.seed ELSE NextNonce(w, f[k - 1])]
           g == [k \in D |-> Tries(w, k)]
<1>1. Tries(w, 0) = w.seed
  BY DEF Ranged, Tries
<1>2. \A k \in D : k # 0 => k \in 1 .. w.max - w.min /\ k - 1 \in D
  BY DEF Ranged
<1>3. \A k \in D : Tries(w, k) = IF k = 0 THEN w.seed ELSE NextNonce(w, g[k - 1])
  <2>1. \A k \in D : g[k] = Tries(w, k)
    OBVIOUS
  <2> HIDE DEF D, g
  <2> QED
    BY Zenon, <1>1, <1>2, <2>1, TriesNext
<1>4. Loop(g)
  <2> HIDE DEF D
  <2>1. g = [k \in D |-> Tries(w, k)]
    OBVIOUS
  <2> HIDE DEF g
  <2> QED
    BY Zenon, <1>3, <2>1
<1>5. Tried(w) = CHOOSE f : Loop(f)
  BY Zenon DEF Tried
<1>6. PICK f : f = Tried(w) /\ Loop(f)
  <2> HIDE DEF Loop
  <2> QED
    BY Zenon, <1>4, <1>5
<1>7. \A k \in Nat : k \in D => f[k] = Tries(w, k)
  <2> DEFINE S == {k \in Nat : k \in D => f[k] = Tries(w, k)}
  <2>1. 0 \in S
    <3>1. 0 \in D
      BY DEF Ranged
    <3> HIDE DEF D
    <3> QED
      BY <1>1, <1>6, <3>1
  <2>2. ASSUME NEW n \in Nat, n \in S PROVE n + 1 \in S
    <3>1. SUFFICES ASSUME n + 1 \in D PROVE f[n + 1] = Tries(w, n + 1)
      OBVIOUS
    <3>2. n \in D /\ n + 1 # 0 /\ n + 1 \in 1 .. w.max - w.min /\ (n + 1) - 1 = n
      BY <3>1 DEF Ranged
    <3>3. f[n + 1] = NextNonce(w, f[n])
      <4> HIDE DEF D
      <4> QED
        BY <1>6, <3>1, <3>2
    <3>4. f[n] = Tries(w, n)
      BY Zenon, <2>2, <3>2
    <3> QED
      BY Zenon, <3>2, <3>3, <3>4, TriesNext
  <2>3. Nat \subseteq S
    <3> HIDE DEF S
    <3> QED
      BY <2>1, <2>2, Induct
  <2> QED
    BY <2>3
<1>8. D \subseteq Nat
  OBVIOUS
<1>9. \A k \in D : f[k] = Tries(w, k)
  <2> HIDE DEF D
  <2> QED
    BY Zenon, <1>7, <1>8
<1>10. f = [k \in D |-> f[k]]
  <2> HIDE DEF D
  <2> QED
    BY <1>6
<1>11. Tried(w) = g
  <2> HIDE DEF D, Loop
  <2> QED
    BY <1>6, <1>9, <1>10
<1> QED
  BY <1>11
(* Above the least nonce of its range, a worker tries every one. *)
LEMMA EveryNonceTried ==
  ASSUME NEW w, Ranged(w), NEW n \in w.min + 1 .. w.max
  PROVE  \E k \in 0 .. w.max - w.min : Tries(w, k) = n
<1> DEFINE k == IF w.seed <= n THEN n - w.seed ELSE n - w.min + (w.max - w.seed)
<1>1. k \in 0 .. w.max - w.min /\ Tries(w, k) = n
  BY DEF Ranged, Tries
<1> QED
  BY <1>1

(* It keeps to its range. *)
LEMMA OnlyOwnTried ==
  ASSUME NEW w, Ranged(w), NEW k \in 0 .. w.max - w.min
  PROVE  Tries(w, k) \in (w.min .. w.max) \cup {Ended}
  BY DEF Ranged, Tries

(* It tries no nonce twice. *)
LEMMA TriedOnce ==
  ASSUME NEW w, Ranged(w), NEW j \in 0 .. w.max - w.min, NEW k \in 0 .. w.max - w.min,
         j # k, Tries(w, j) = Tries(w, k)
  PROVE  Tries(w, k) = Ended
<1>1. /\ w.seed \in Nat /\ w.min \in Nat /\ w.max \in Nat /\ w.min <= w.seed /\ w.seed <= w.max
      /\ j \in Nat /\ k \in Nat /\ j <= w.max - w.min /\ k <= w.max - w.min
  BY DEF Ranged
<1> QED
  BY <1>1, SMTT(30) DEF Tries, Ended
-----------------------------------------------------------------------------
(* A factor more. *)
LEMMA Multiples ==
  ASSUME NEW i \in Nat, NEW j \in Nat, NEW s \in Nat, i < j
  PROVE  i * s \in Nat /\ j * s \in Nat /\ i * s + s <= j * s
<1>1. i * s \in Nat /\ j * s \in Nat /\ (j - (i + 1)) * s \in Nat
  BY SMT
<1>2. j * s = i * s + s + (j - (i + 1)) * s
  BY SMT
<1> QED
  BY <1>1, <1>2

(* The width of a range. *)
LEMMA Widths ==
  ASSUME NEW threads \in 1 .. MaxNonce
  PROVE  Step(threads) \in Nat /\ Step(threads) >= 1 /\ threads * Step(threads) <= MaxNonce
<1>1. MaxNonce \in Nat /\ threads \in Nat /\ threads > 0 /\ threads <= MaxNonce
  BY NonceAssumption
<1> QED
  BY <1>1, SMTT(30) DEF Step

(* commitTask gives every worker a range and a seed in it, next to those of  *)
(* its neighbours.                                                           *)
LEMMA WorkerRanged ==
  ASSUME NEW threads \in 1 .. MaxNonce, NEW i \in 0 .. threads - 1, NEW seed \in Seeds(threads)
  PROVE  /\ Ranged(Worker(threads, i, seed))
         /\ i = 0 => Worker(threads, i, seed).min = 0
         /\ i > 0 => Worker(threads, i, seed).min = Worker(threads, i - 1, 0).max + 1
         /\ i = threads - 1 => Worker(threads, i, seed).max = MaxNonce
<1> DEFINE s == Step(threads)
           a == i * s
           w == Worker(threads, i, seed)
<1>1. /\ s \in Nat /\ s >= 1 /\ threads * s <= MaxNonce /\ MaxNonce \in Nat
      /\ threads \in Nat /\ threads >= 1 /\ i \in Nat /\ i < threads
  BY Widths, NonceAssumption
<1>2. a \in Nat /\ threads * s \in Nat /\ a + s <= threads * s
  <2> HIDE DEF s
  <2> QED
    BY <1>1, Multiples
<1>3. w.seed = seed + a /\ w.min = a /\ w.max = IF i # threads - 1 THEN a + s - 1 ELSE MaxNonce
  BY DEF Worker
<1>4. seed \in Nat /\ (threads # 1 => seed <= s - 1) /\ (threads = 1 => seed <= MaxNonce /\ i = 0)
  BY <1>1 DEF Seeds
<1>5. i = 0 => a = 0
  <2> HIDE DEF s
  <2> QED
    BY <1>1
<1>6. Ranged(w)
  <2> HIDE DEF a, s, w
  <2> QED
    BY <1>1, <1>2, <1>3, <1>4, <1>5 DEF Ranged
<1>7. ASSUME i > 0 PROVE w.min = Worker(threads, i - 1, 0).max + 1
  <2> DEFINE b == (i - 1) * s
  <2>1. Worker(threads, i - 1, 0).max = b + s - 1
    BY <1>1 DEF Worker
  <2>2. b \in Nat /\ a = b + s
    <3> HIDE DEF s
    <3> QED
      BY <1>1, <1>7, SMTT(30)
  <2> HIDE DEF a, b, s, w
  <2> QED
    BY <1>1, <1>3, <2>1, <2>2
<1> HIDE DEF a, s, w
<1>8. (i = 0 => w.min = 0) /\ (i = threads - 1 => w.max = MaxNonce)
  BY <1>3, <1>5
<1> QED
  BY <1>6, <1>7, <1>8 DEF w

(* Whatever the number of nonces and of workers: the ranges that commitTask   *)
(* gives its workers follow one another from the first nonce to the last, and *)
(* a worker (StartMining) keeps to its range, tries no nonce of it twice and   *)
(* comes to each but perhaps the least.                                       *)
THEOREM WorkersShare == \A threads \in 1 .. MaxNonce : ShareOut(threads)
<1> SUFFICES ASSUME NEW threads \in 1 .. MaxNonce, NEW i \in 0 .. threads - 1,
                    NEW seed \in Seeds(threads)
             PROVE  LET w == Worker(threads, i, seed)
                        tried == Tried(w)
                    IN  /\ w.min = IF i = 0 THEN 0 ELSE Worker(threads, i - 1, 0).max + 1
                        /\ i = threads - 1 => w.max = MaxNonce
                        /\ \A k \in DOMAIN tried : tried[k] \in (w.min .. w.max) \cup {Ended}
                        /\ \A j, k \in DOMAIN tried : j # k /\ tried[j] = tried[k] => tried[k] = Ended
                        /\ \A n \in w.min .. w.max : n = w.min \/ \E k \in DOMAIN tried : tried[k] = n
  BY DEF ShareOut
<1> DEFINE w == Worker(threads, i, seed)
           D == 0 .. w.max - w.min
           tried == Tried(w)
<1>1. /\ Ranged(w)
      /\ w.min = IF i = 0 THEN 0 ELSE Worker(threads, i - 1, 0).max + 1
      /\ i = threads - 1 => w.max = MaxNonce
  <2>1. i = 0 \/ i > 0
    OBVIOUS
  <2> QED
    BY Zenon, <2>1, WorkerRanged
<1> HIDE DEF w
<1>2. DOMAIN tried = D /\ \A k \in D : tried[k] = Tries(w, k)
  BY <1>1, TriedAre
<1>3. \A n \in w.min .. w.max : n = w.min \/ n \in w.min + 1 .. w.max
  BY <1>1 DEF Ranged
<1> HIDE DEF D, tried
<1>4. \A n \in w.min .. w.max : n = w.min \/ \E k \in D : Tries(w, k) = n
  BY Zenon, <1>1, <1>3, EveryNonceTried DEF D
<1>5. \A k \in D : Tries(w, k) \in (w.min .. w.max) \cup {Ended}
  BY Zenon, <1>1, OnlyOwnTried DEF D
<1>6. \A j, k \in D : j # k /\ Tries(w, j) = Tries(w, k) => Tries(w, k) = Ended
  BY Zenon, <1>1, TriedOnce DEF D
<1>7. /\ \A k \in DOMAIN tried : tried[k] \in (w.min .. w.max) \cup {Ended}
      /\ \A j, k \in DOMAIN tried : j # k /\ tried[j] = tried[k] => tried[k] = Ended
      /\ \A n \in w.min .. w.max : n = w.min \/ \E k \in DOMAIN tried : tried[k] = n
  BY <1>2, <1>4, <1>5, <1>6
<1> QED
  BY Zenon, <1>1, <1>7 DEF w, tried
-----------------------------------------------------------------------------
(* The number of threads was asked for, or taken from the processors.        *)
ThreadsInv ==
  flag \in [mining : 0 .. 1, canStart : 0 .. 1, isFirstDownloader : 0 .. 1,
            isFirstBlockPrepared : 0 .. 1, isNonceFound : 0 .. 1, threads : 0 .. MaxNonce]

(* The calls, and what runs on the goroutines of their callers. *)
LEMMA CallerSteps ==
  ASSUME ThreadsInv, NEW c \in Caller, GoOn(c) \/ Calls
  PROVE  ThreadsInv'
<1>1. CASE flag' = flag
  BY <1>1 DEF ThreadsInv
<1>2. CASE \E g \in Caller : CallStart(g)
  BY <1>2, ThreadsAssumption, RangesAssumption, NonceAssumption DEF ThreadsInv, CallStart, Set
<1>3. CASE ForbidStart(c) \/ StoreNotFirst(c) \/ AllowStart(c) \/ StoreStopped(c)
  BY <1>3 DEF ThreadsInv, ForbidStart, StoreNotFirst, AllowStart, StoreStopped, Set
<1>4. CASE StoreRunning(c) \/ StoreFirst(c)
  BY <1>4 DEF ThreadsInv, StoreRunning, StoreFirst
<1> QED
  BY <1>1, <1>2, <1>3, <1>4
     DEF GoOn, Calls, CheckMining, CheckCanStart, CheckFirst, IsMining, SendStop, StopReturns,
         CallStop, CallNewTx, DownloaderStart, DownloaderDone, Jump

(* Preparing a block.  commitTask takes the number of processors if nobody   *)
(* has asked for a number of threads.                                        *)
LEMMA MineSteps ==
  ASSUME ThreadsInv, NEW g \in Goroutine, Mine(g) \/ ApplyFails(g)
  PROVE  ThreadsInv'
<1>1. CASE flag' = flag
  BY <1>1 DEF ThreadsInv
<1>2. CASE CompareAndSwap(g) \/ ApplyFails(g)
  BY <1>2 DEF ThreadsInv, CompareAndSwap, ApplyFails, Set
<1>3. CASE CommitTask(g)
  <2> DEFINE n == IF flag.threads = 0 THEN Threads ELSE flag.threads
  <2>1. n \in 0 .. MaxNonce
    BY ThreadsAssumption, RangesAssumption, NonceAssumption DEF ThreadsInv
  <2>2. flag' = [flag EXCEPT !.threads = n, !.isNonceFound = 0]
    BY Zenon, <1>3 DEF CommitTask
  <2> DEFINE f == [flag EXCEPT !.threads = n]
  <2> HIDE DEF n
  <2>3. f \in [mining : 0 .. 1, canStart : 0 .. 1, isFirstDownloader : 0 .. 1,
               isFirstBlockPrepared : 0 .. 1, isNonceFound : 0 .. 1, threads : 0 .. MaxNonce]
    BY <2>1 DEF ThreadsInv
  <2>4. flag' = [f EXCEPT !.isNonceFound = 0]
    BY <2>2 DEF ThreadsInv
  <2> HIDE DEF f
  <2> QED
    BY <2>3, <2>4 DEF ThreadsInv
<1> QED
  BY Zenon, <1>1, <1>2, <1>3 DEF Mine, NewTx, Prepare, Apply, StillMining, Jump

(* waitBlock goroutines and workers. *)
LEMMA WorkerSteps ==
  ASSUME ThreadsInv,
         \/ \E w \in Waiter : WaitBlock(w) \/ SaveFails(w)
         \/ \E t \in Task : StartMining(t) \/ Outage(t)
  PROVE  ThreadsInv'
<1>1. CASE flag' = flag
  BY <1>1 DEF ThreadsInv
<1>2. CASE \E w \in Waiter : MineNext(w)
  BY <1>2 DEF ThreadsInv, MineNext, Set
<1>3. CASE \E t \in Task : StoreFound(t)
  BY <1>3 DEF ThreadsInv, StoreFound
<1> QED
  BY Zenon, <1>1, <1>2, <1>3
     DEF WaitBlock, Receive, SaveBlock, WaiterStops, SaveFails, Jump, StartMining, FoundByOther,
         Find, SendResult, Abort, Outage

(* Whenever a task is about to be committed, its workers will share the      *)
(* nonces out: with any callers, callbacks, threads and faults.              *)
THEOREM RangesAreShared == FaultSpec => []WorkersShareOut
<1>1. Init => ThreadsInv
  BY NonceAssumption DEF Init, ThreadsInv
<1>2. ThreadsInv /\ [Internal \/ Calls \/ Faults]_vars => ThreadsInv'
  <2> SUFFICES ASSUME ThreadsInv, [Internal \/ Calls \/ Faults]_vars PROVE ThreadsInv'
    OBVIOUS
  <2>1. CASE UNCHANGED vars
    BY <2>1 DEF vars, ThreadsInv
  <2>2. CASE Calls
    BY Zenon, <2>2, CallerSteps DEF Calls
  <2>3. CASE Internal
    BY Zenon, <2>3, CallerSteps, MineSteps, WorkerSteps DEF Internal
  <2>4. CASE Faults
    BY Zenon, <2>4, MineSteps, WorkerSteps DEF Faults
  <2> QED
    BY Zenon, <2>1, <2>2, <2>3, <2>4
<1>3. ThreadsInv => WorkersShareOut
  <2>1. ASSUME ThreadsInv, NEW threads \in (IF flag.threads = 0 THEN ThreadCounts ELSE {flag.threads})
        PROVE  threads \in 1 .. MaxNonce
    BY <2>1, NonceAssumption DEF ThreadsInv
  <2> QED
    BY Zenon, <2>1, WorkersShare DEF WorkersShareOut
<1>4. Init /\ [][Internal \/ Calls \/ Faults]_vars => []ThreadsInv
  BY <1>1, <1>2, PTL
<1>5. FaultSpec => Init /\ [][Internal \/ Calls \/ Faults]_vars
  BY DEF FaultSpec
<1> QED
  BY <1>3, <1>4, <1>5, PTL
=============================================================================

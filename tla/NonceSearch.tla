---------------------------- MODULE NonceSearch ----------------------------
(* How commitTask divides the nonces among its workers, and in which order   *)
(* StartMining tries those of one worker.                                    *)
EXTENDS Integers

CONSTANTS MaxNonce,     \* math.MaxUint64
          ThreadCounts  \* what runtime.NumCPU may be

(* Every worker gets a nonce at least. *)
ASSUME NonceAssumption == MaxNonce \in Nat /\ ThreadCounts \subseteq 1 .. MaxNonce

(* The numbers that the random generator may give: any nonce for a single    *)
(* worker, and one below step for each of several.                           *)
Step(threads) == MaxNonce \div threads
Seeds(threads) == IF threads = 1 THEN 0 .. MaxNonce ELSE 0 .. Step(threads) - 1

(* Mutant: neighbours share a nonce. *)
WorkerOverlaps(threads, i, seed) ==
  [seed |-> seed + i * Step(threads),
   min |-> i * Step(threads),
   max |-> IF i # threads - 1 THEN (i + 1) * Step(threads) ELSE MaxNonce]
Worker(threads, i, seed) ==
  [seed |-> seed + i * Step(threads),
   min |-> i * Step(threads),
   max |-> IF i # threads - 1 THEN i * Step(threads) + Step(threads) - 1 ELSE MaxNonce]

(* The nonce tried after one that is not good, if any; seed - 1 wraps.       *)
Ended == -1
NextNonce(w, nonce) ==
  LET n == IF nonce = w.max THEN w.min ELSE nonce
  IN  IF nonce = Ended \/ n = (w.seed - 1) % (MaxNonce + 1) THEN Ended ELSE n + 1

(* What a worker tries, for as many steps as its range has nonces.           *)
Tried(w) ==
  LET at[k \in 0 .. w.max - w.min] ==
        IF k = 0 THEN w.seed ELSE NextNonce(w, at[k - 1])
  IN  at

(* The ranges of so many workers follow one another and make up all nonces.    *)
(* In as many steps as its range has nonces, each worker keeps to its range,    *)
(* tries none of it twice, and comes to every nonce but perhaps the least one.  *)
ShareOut(threads) ==
  \A i \in 0 .. threads - 1 :
    \A seed \in Seeds(threads) :
      LET w == Worker(threads, i, seed)
          tried == Tried(w)
      IN  /\ w.min = IF i = 0 THEN 0 ELSE Worker(threads, i - 1, 0).max + 1
          /\ i = threads - 1 => w.max = MaxNonce
          /\ \A k \in DOMAIN tried : tried[k] \in (w.min .. w.max) \cup {Ended}
          /\ \A j, k \in DOMAIN tried : j # k /\ tried[j] = tried[k] => tried[k] = Ended
          /\ \A n \in w.min .. w.max : n = w.min \/ \E k \in DOMAIN tried : tried[k] = n
=============================================================================

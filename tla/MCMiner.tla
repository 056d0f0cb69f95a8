------------------------------ MODULE MCMiner ------------------------------
(* Small instances of Miner, and of the search of its workers. *)
EXTENDS Miner, NonceSearch

(* There are not more threads than nonces, asked for or not. *)
ASSUME RangesAssumption == Threads <= MaxNonce /\ \A n \in ThreadArgs : n <= MaxNonce

(* Whenever a task is about to be committed, its workers will share the nonces *)
(* out between them: no nonce is tried by two or twice, and none is left out    *)
(* but the least one of a range, about which NonceLoop says more.  The number  *)
(* of workers is the one that was set, or, if a callback was faster than any   *)
(* caller of Start, that of the processors.                                    *)
WorkersShareOut ==
  \A g \in Goroutine :
    pc[g] = "commit" =>
      \A threads \in (IF flag.threads = 0 THEN ThreadCounts ELSE {flag.threads}) : ShareOut(threads)
=============================================================================

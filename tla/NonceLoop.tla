----------------------------- MODULE NonceLoop -----------------------------
(* The loop of one worker (StartMining) that nobody stops and that finds no    *)
(* good nonce, with any range that commitTask may give it.                     *)
EXTENDS NonceSearch

VARIABLES worker,  \* its seed, min and max
          nonce,   \* the nonce it tries next, or Ended: it has reported the outage
          done     \* those it has tried

Init ==
  \E threads \in ThreadCounts : \E i \in 0 .. threads - 1 : \E seed \in Seeds(threads) :
    /\ worker = Worker(threads, i, seed)
    /\ nonce = worker.seed
    /\ done = {}

TryNonce ==
  /\ nonce # Ended
  /\ done' = done \cup {nonce}
  /\ nonce' = NextNonce(worker, nonce)
  /\ UNCHANGED worker

Spec == Init /\ [][TryNonce]_<<worker, nonce, done>>

(* "when nonce reached max, nonce traverses in [min, seed-1]" (miner/core.go:65): *)
(* when a worker reports the outage, it has tried the nonces below its seed.      *)
NoncesTraversed == nonce = Ended => worker.min .. worker.seed - 1 \subseteq done
=============================================================================

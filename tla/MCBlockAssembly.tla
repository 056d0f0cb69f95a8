-------------------------- MODULE MCBlockAssembly --------------------------
(* A user who pays another, our miner, who spends a reward in t2, and another *)
(* miner.  t1 and t2 have the same account and nonce, and t1 sends nothing,   *)
(* maybe before its account exists.  Two objects fill a cache.                *)
EXTENDS BlockAssembly

MCTx == {"t1", "t2", "t3"}
MCFrom == [t1 |-> "miner", t2 |-> "miner", t3 |-> "alice"]
MCTo == [t1 |-> "bob", t2 |-> "alice", t3 |-> "bob"]
MCAmount == [t1 |-> 0, t2 |-> 1, t3 |-> 1]
MCNonce == [t1 |-> 0, t2 |-> 0, t3 |-> 0]
MCSupply == [alice |-> 2, bob |-> 0, miner |-> 0, peer |-> 0]
=============================================================================

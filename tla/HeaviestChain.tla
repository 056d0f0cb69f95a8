--------------------------- MODULE HeaviestChain ---------------------------
(***************************************************************************)
(* What the block chain promises: a tree of blocks grown from the genesis, *)
(* one block at a time below a block that is there, and a head that is     *)
(* replaced at the moment a strictly heavier block is added, and then only. *)
(***************************************************************************)
EXTENDS Integers

CONSTANTS Block, Genesis, NoBlock, Parent, Difficulty

VARIABLES tree, weight, top

vars == <<tree, weight, top>>

Init == tree = {} /\ weight = [b \in Block |-> 0] /\ top = NoBlock

Plant ==
  /\ tree = {}
  /\ tree' = {Genesis}
  /\ weight' = [weight EXCEPT ![Genesis] = Difficulty[Genesis]]
  /\ top' = Genesis

Grow(b) ==
  /\ b \notin tree /\ Parent[b] \in tree
  /\ tree' = tree \cup {b}
  /\ weight' = [weight EXCEPT ![b] = weight[Parent[b]] + Difficulty[b]]
  /\ top' = IF weight'[b] > weight[top] THEN b ELSE top

Next == Plant \/ \E b \in Block : Grow(b)

Spec == Init /\ [][Next]_vars
=============================================================================

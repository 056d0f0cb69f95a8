------------------------------ MODULE ChainInv ------------------------------
(***************************************************************************)
(* The inductive invariants behind the properties of Chain, in named parts. *)
(* ForkInv holds with crashes and restarts; CanonInv adds what holds of the *)
(* height-to-hash mapping as long as the process lives.  Both are for a     *)
(* uniform difficulty.                                                      *)
(***************************************************************************)
EXTENDS Chain

Locked == {"delete", "overwrite", "put", "commit"}

(* The lock is held by the one writer that is past it; nobody is in WriteBlock *)
(* while the chain is not open.                                                *)
LockInv ==
  /\ \A w \in Writer : pc[w] \in Locked <=> lock = w
  /\ mode # "up" => lock = NoWriter /\ \A w \in Writer : pc[w] = "idle"

(* b hangs on a stored parent and carries its total difficulty. *)
Attached(b) ==
  /\ Parent[b] \in stored
  /\ Height[b] = Height[Parent[b]] + 1
  /\ td[b] = td[Parent[b]] + Difficulty[b]

(* The store is a tree rooted in the genesis. *)
StoreInv ==
  /\ stored = {} <=> head = NoBlock
  /\ stored # {} => Genesis \in stored /\ td[Genesis] = Difficulty[Genesis]
  /\ stored = {} => mode \in {"down", "genesis"}
  /\ mode = "genesis" => stored = {}
  /\ canon[0] = (IF stored = {} THEN NoBlock ELSE Genesis)
  /\ \A b \in stored \ {Genesis} : Attached(b)

(* With a uniform difficulty the heavier chain is the longer one. *)
WeightIsHeight ==
  \A b, c \in stored : td[b] <= td[c] <=> Height[b] <= Height[c]

(* What a writer between Enter and PutBlock knows of its block. *)
PendingInv ==
  \A w \in Writer : lock = w =>
    /\ Attached(blk[w]) /\ blk[w] # Genesis
    /\ pc[w] # "commit" => (isHead <=> td[blk[w]] > td[head])
    /\ pc[w] = "commit" => blk[w] \in stored
    /\ pc[w] \in {"delete", "overwrite"} => isHead
    /\ pc[w] = "delete" => next > Height[head]
    /\ pc[w] \in {"delete", "overwrite"} /\ walk # NoBlock => walk \in stored

(* The best index is HEAD, or the block that is about to become HEAD. *)
LeafInv ==
  mode = "up" =>
    /\ best \in leaves
    /\ lock = NoWriter => best = head /\ leaves \subseteq stored
    /\ \A w \in Writer : lock = w =>
         /\ leaves \subseteq stored \cup {blk[w]}
         /\ best = IF pc[w] # "commit" /\ isHead THEN blk[w] ELSE head

ForkInv ==
  /\ TypeOK /\ LockInv /\ StoreInv /\ WeightIsHeight /\ HeadHeaviest
  /\ PendingInv /\ LeafInv /\ ReadersFindBlocks

(* The mapping from height 0 to n is a chain of parents. *)
ChainUpTo(n) == \A h \in Heights : h > 0 /\ h <= n => canon[h - 1] = Parent[canon[h]]

(* The new head is one above the old one.  While its ancestors are written   *)
(* from the top down, the mapping above the cursor is its chain, the mapping *)
(* up to the cursor is still the old chain.                                  *)
CanonInv ==
  /\ \A h \in Heights : stored # {} /\ h > Height[head] => canon[h] = NoBlock
  /\ stored # {} /\ (lock = NoWriter \/ \E w \in Writer : lock = w /\ pc[w] \in {"delete", "commit"})
       => canon[Height[head]] = head /\ ChainUpTo(Height[head])
  /\ \A w \in Writer : lock = w /\ pc[w] = "overwrite" =>
       LET top == Height[blk[w]] - 1
           k == IF walk = NoBlock THEN -1 ELSE Height[walk]
       IN /\ k <= top
          /\ IF k = top THEN walk = Parent[blk[w]]
             ELSE canon[top] = Parent[blk[w]] /\ Parent[canon[k + 1]] = walk
          /\ \A h \in Heights : h > 0 /\ h <= top /\ h # k + 1 => canon[h - 1] = Parent[canon[h]]
  /\ \A w \in Writer : lock = w /\ pc[w] = "delete" => walk = Parent[blk[w]]
  /\ \A w \in Writer : lock = w /\ pc[w] = "put" =>
       IF isHead
       THEN canon[Height[blk[w]] - 1] = Parent[blk[w]] /\ ChainUpTo(Height[blk[w]] - 1)
       ELSE canon[Height[head]] = head /\ ChainUpTo(Height[head])
=============================================================================

------------------------------- MODULE Merkle -------------------------------
(* The tree whose root a block header carries for its transactions.  A tree  *)
(* is the sequence of its levels of hashes, leaves first: node j of a level  *)
(* has the nodes 2j - 1 and 2j below it, or 2j - 1 twice.                    *)
EXTENDS Integers, Sequences, FiniteSetsExt, Functions

CONSTANTS Content,     \* what the leaves hold: transactions
          MaxContents, \* bound on their number
          NoTree

VARIABLES tree,   \* a MerkleTree, or NoTree
          given   \* the contents it was last built from (history)

merkleVars == <<tree, given>>

(* Hashes (of the transaction's data, of two hashes in a row) without          *)
(* collisions; that of a leaf is never that of a pair.                         *)
CalculateHash(c) == <<c>>
HashBytes(left, right) == <<left, right>>

(* The contents of the leaves: the last one is repeated if they are odd.     *)
WithDuplicate(contents) ==
  IF Len(contents) % 2 = 1 THEN Append(contents, contents[Len(contents)]) ELSE contents

(* Mutant: a node without a neighbour is left out. *)
ParentsOfPairs(level) == [j \in 1 .. Len(level) \div 2 |-> HashBytes(level[2 * j - 1], level[2 * j])]
Parents(level) ==
  [j \in 1 .. (Len(level) + 1) \div 2 |->
     HashBytes(level[2 * j - 1], level[IF 2 * j > Len(level) THEN 2 * j - 1 ELSE 2 * j])]

RECURSIVE BuildIntermediate(_)
BuildIntermediate(levels) ==
  LET nodes == Parents(levels[Len(levels)])
  IN  IF Len(nodes) = 1 THEN Append(levels, nodes) ELSE BuildIntermediate(Append(levels, nodes))

NewTree(contents) ==
  LET leafs == WithDuplicate(contents)
  IN  [leafs |-> leafs, levels |-> BuildIntermediate(<<[i \in DOMAIN leafs |-> CalculateHash(leafs[i])]>>)]
MerkleRoot(t) == t.levels[Len(t.levels)][1]
RebuildTree(t) == NewTree(t.leafs)

(* The first leaf with the content is looked for, and the hashes from it to  *)
(* the root are computed again.                                              *)
VerifyContent(t, expected, c) ==
  /\ MerkleRoot(t) = expected
  /\ \E i \in DOMAIN t.leafs : t.leafs[i] = c
  /\ LET first == Min({i \in DOMAIN t.leafs : t.leafs[i] = c})
         at(k) == (first + 2 ^ k - 1) \div 2 ^ k
     IN  \A k \in 1 .. Len(t.levels) - 1 :
           t.levels[k + 1][at(k)] = Parents(t.levels[k])[at(k)]

(* Any list may be given to NewTree, the same content twice included.        *)
ContentLists == UNION {[1 .. n -> Content] : n \in 1 .. MaxContents}

Build(contents) == tree' = NewTree(contents) /\ given' = contents
New(contents) == tree = NoTree /\ Build(contents)

(* Without contents the error is returned and the tree stays.                *)
RebuildTreeWith(contents) ==
  /\ tree # NoTree
  /\ IF contents = <<>> THEN UNCHANGED merkleVars ELSE Build(contents)
Rebuild == tree # NoTree /\ tree' = RebuildTree(tree) /\ UNCHANGED given

MerkleInit == tree = NoTree /\ given = <<>>
MerkleNext ==
  \/ \E l \in ContentLists : New(l)
  \/ \E l \in ContentLists \cup {<<>>} : RebuildTreeWith(l)
  \/ Rebuild

(* The row of leaves that the root stands for: wherever a level has an odd   *)
(* number of nodes, what is below the last one is there twice.               *)
RECURSIVE Completed(_, _)
Completed(row, width) ==
  IF Len(row) = width THEN row
  ELSE Completed(IF (Len(row) \div width) % 2 = 0 THEN row
                 ELSE row \o SubSeq(row, Len(row) - width + 1, Len(row)), 2 * width)
Row(contents) == Completed(WithDuplicate(contents), 2)

(* The root that validateBlock compares tells the lists of transactions apart *)
(* up to a repetition at the end, for every number of them: two lists have    *)
(* one root exactly when their completed rows of leaves are the same, so that *)
(* no transaction and no place in the order is lost, and all that a root      *)
(* cannot tell is whether what ends the list was repeated.  Lists without a   *)
(* repetition have different roots.  A tree that is rebuilt from its leaves   *)
(* keeps its root, and what is found in a tree is what was put in.            *)
RootTellsContents ==
  tree # NoTree =>
    /\ \A l \in ContentLists :
         /\ MerkleRoot(NewTree(l)) = MerkleRoot(tree) <=> Row(l) = Row(given)
         /\ MerkleRoot(NewTree(l)) = MerkleRoot(tree) /\ IsInjective(l) /\ IsInjective(given) => l = given
    /\ \A c \in Content : VerifyContent(tree, MerkleRoot(tree), c) <=> \E i \in DOMAIN given : given[i] = c
=============================================================================

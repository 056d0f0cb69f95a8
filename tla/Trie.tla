-------------------------------- MODULE Trie --------------------------------
(* The Merkle Patricia trie of trie/trie.go: one Trie in memory, whose nodes *)
(* are loaded when they are first needed, over a database of nodes that are  *)
(* addressed by their hashes.                                                *)
(*                                                                           *)
(* A hash is the node it is the hash of, with hashes in place of children:   *)
(* hash functions are taken as free of collisions.  A node in memory keeps   *)
(* its hash while it is clean and Dirty instead of it while it is not.  The  *)
(* operations of the code change nodes in place; here they return the node   *)
(* that the place then holds.                                                *)
EXTENDS Integers, Sequences, FiniteSets

CONSTANTS
  Radix,        \* numBranchNodes - 1, 16 in the code
  Keys,         \* byte strings; a byte is less than Radix * Radix
  Values,       \* the byte strings that are put under a key, Empty possibly among them
  Empty,        \* the empty byte string
  None,         \* no value
  MaxCommits    \* bound on the number of commits; the last one ends the work

ASSUME TrieAssumption ==
  /\ Radix \in Nat \ {0}
  /\ \A k \in Keys : k \in Seq(0 .. Radix * Radix - 1)
  /\ \A k \in Keys : None \notin Values[k]
  /\ MaxCommits \in Nat

VARIABLES
  root,         \* Trie.root, a node or nil
  nodeDB,       \* the nodes in the database, that is, their hashes
  commits,      \* number of commits so far
  contents,     \* what the trie should hold (history)
  roots,        \* roots returned by Commit, with the contents then (history)
  healthy,      \* no read failed since the trie was opened (history)
  pure          \* nothing was deleted on the way to contents (history)

trieVars == <<root, nodeDB, commits, contents, roots, healthy, pure>>

-----------------------------------------------------------------------------
(* Nodes. *)

Branches == 0 .. Radix
Dirty == [type |-> "dirty"]
nil == [type |-> "nil"]
hashNode(h) == [type |-> "hash", hash |-> h]
LeafNode(key, value, h) == [type |-> "leaf", key |-> key, value |-> value, hash |-> h]
ExtendNode(key, next, h) == [type |-> "extend", key |-> key, next |-> next, hash |-> h]
BranchNode(children, h) == [type |-> "branch", children |-> children, hash |-> h]

IsDirty(n) == n.hash = Dirty

(* Two nibbles for each byte, and the terminator. *)
keybytesToHex(key) ==
  [i \in 1 .. 2 * Len(key) + 1 |->
     IF i = 2 * Len(key) + 1 THEN Radix
     ELSE IF i % 2 = 1 THEN key[(i + 1) \div 2] \div Radix
     ELSE key[i \div 2] % Radix]

(* The length of the common prefix. *)
matchkeyLen(a, b) ==
  Cardinality({i \in 1 .. Len(a) : i <= Len(b) /\ \A j \in 1 .. i : a[j] = b[j]})

From(key, i) == SubSeq(key, i, Len(key))

(* hash: clean nodes answer with the hash they keep, dirty ones compute theirs. *)
RECURSIVE hash(_)
hash(n) ==
  CASE n.type = "nil" -> nil
    [] n.type # "nil" /\ ~IsDirty(n) -> n.hash
    [] n.type = "leaf" /\ IsDirty(n) -> [type |-> "leaf", key |-> n.key, value |-> n.value]
    [] n.type = "extend" /\ IsDirty(n) -> [type |-> "extend", key |-> n.key, next |-> hash(n.next)]
    [] n.type = "branch" /\ IsDirty(n) ->
         [type |-> "branch", children |-> [i \in Branches |-> hash(n.children[i])]]

(* What hash puts into the batch, and the tree it leaves behind when there is one. *)
RECURSIVE written(_)
written(n) ==
  IF n.type = "nil" \/ ~IsDirty(n) THEN {}
  ELSE {hash(n)} \cup CASE n.type = "leaf" -> {}
                        [] n.type = "extend" -> written(n.next)
                        [] n.type = "branch" -> UNION {written(n.children[i]) : i \in Branches}

RECURSIVE cleaned(_)
cleaned(n) ==
  IF n.type = "nil" \/ ~IsDirty(n) THEN n
  ELSE CASE n.type = "leaf" -> LeafNode(n.key, n.value, hash(n))
         [] n.type = "extend" -> ExtendNode(n.key, cleaned(n.next), hash(n))
         [] n.type = "branch" ->
              BranchNode([i \in Branches |-> cleaned(n.children[i])], hash(n))

(* decodeNode: the children of a node that was loaded are hash nodes.  The     *)
(* hash of a missing next node is decoded as a hash node that is never found.  *)
decodeNode(h) ==
  CASE h.type = "leaf" -> LeafNode(h.key, h.value, h)
    [] h.type = "extend" -> ExtendNode(h.key, hashNode(h.next), h)
    [] h.type = "branch" ->
         BranchNode([i \in Branches |-> IF h.children[i] = nil THEN nil
                                        ELSE hashNode(h.children[i])], h)

-----------------------------------------------------------------------------
(* Reading, inserting, deleting.  The nodes that can be read are a parameter: *)
(* loadNode fails for all others.                                             *)

(* get also puts the nodes it loads in the place of their hashes. *)
RECURSIVE get(_, _, _)
get(readable, n, key) ==
  CASE n.type = "nil" -> [value |-> None, node |-> nil]
    [] n.type = "hash" ->
         IF n.hash \notin readable THEN [value |-> None, node |-> n]
         ELSE get(readable, decodeNode(n.hash), key)
    [] n.type = "leaf" ->
         [value |-> IF matchkeyLen(n.key, key) = Len(n.key) THEN n.value ELSE None, node |-> n]
    [] n.type = "extend" ->
         IF matchkeyLen(n.key, key) < Len(n.key) THEN [value |-> None, node |-> n]
         ELSE LET r == get(readable, n.next, From(key, Len(n.key) + 1))
              IN  [r EXCEPT !.node = [n EXCEPT !.next = r.node]]
    [] n.type = "branch" ->
         LET r == get(readable, n.children[key[1]], From(key, 2))
         IN  [r EXCEPT !.node = [n EXCEPT !.children[key[1]] = r.node]]

NewLeaf(key, value) == LeafNode(key, value, Dirty)

(* Variant of Split that does not tell apart that nothing is shared. *)
SplitExtends(nodeKey, rest, key, value, m) ==
  ExtendNode(SubSeq(key, 1, m),
             BranchNode([i \in Branches |->
                           CASE i = key[m + 1] -> NewLeaf(From(key, m + 2), value)
                             [] i = nodeKey[m + 1] -> rest
                             [] OTHER -> nil], Dirty), Dirty)

(* What insertExtentNode and insertLeafNode make of a node that leaves the key *)
(* after its first m nibbles, when rest is what goes below its next nibble.    *)
Split(nodeKey, rest, key, value, m) ==
  LET branch == BranchNode([i \in Branches |->
                              CASE i = key[m + 1] -> NewLeaf(From(key, m + 2), value)
                                [] i = nodeKey[m + 1] -> rest
                                [] OTHER -> nil], Dirty)
  IN  IF m = 0 THEN branch ELSE ExtendNode(SubSeq(key, 1, m), branch, Dirty)

Inserted(dirty, node) == [dirty |-> dirty, node |-> node, err |-> FALSE]
NotInserted == [dirty |-> FALSE, node |-> nil, err |-> TRUE]

(* insert.  An extend node drops the error of the insertion below it, and what *)
(* comes back with the error, nothing, becomes its next node.                  *)
RECURSIVE insert(_, _, _, _)
insert(readable, n, key, value) ==
  CASE n.type = "nil" -> Inserted(TRUE, NewLeaf(key, value))
    [] n.type = "hash" ->
         IF n.hash \notin readable THEN NotInserted
         ELSE insert(readable, decodeNode(n.hash), key, value)
    [] n.type = "branch" ->
         LET r == insert(readable, n.children[key[1]], From(key, 2), value)
         IN  IF r.err THEN NotInserted
             ELSE Inserted(TRUE, BranchNode([n.children EXCEPT ![key[1]] = r.node], Dirty))
    [] n.type = "extend" ->
         LET m == matchkeyLen(n.key, key)
             r == insert(readable, n.next, From(key, m + 1), value)
             below == [n EXCEPT !.next = r.node, !.hash = IF r.dirty THEN Dirty ELSE @]
             rest == IF m = Len(n.key) - 1 THEN n.next
                     ELSE ExtendNode(From(n.key, m + 2), n.next, Dirty)
         IN  IF m = Len(n.key) THEN Inserted(IsDirty(below), below)
             ELSE Inserted(TRUE, Split(n.key, rest, key, value, m))
    [] n.type = "leaf" ->
         LET m == matchkeyLen(n.key, key)
         IN  Inserted(TRUE, IF m = Len(n.key) THEN LeafNode(n.key, value, Dirty)
                            ELSE Split(n.key, NewLeaf(From(n.key, m + 2), n.value), key, value, m))

Deleted(match, node) == [match |-> match, node |-> node, err |-> FALSE]

(* Variant of Merge: the nibble of the branch is lost. *)
MergeDropsNibble(readable, n, match) ==
  LET used == {i \in Branches : n.children[i] # nil}
      pos == CHOOSE i \in used : TRUE
      child == n.children[pos]
      loaded == IF child.type = "hash" THEN decodeNode(child.hash) ELSE child
  IN  CASE Cardinality(used) # 1 -> Deleted(match, n)
        [] Cardinality(used) = 1 /\ child.type = "hash" /\ child.hash \notin readable ->
             [match |-> match, node |-> n, err |-> TRUE]
        [] OTHER ->
             (CASE loaded.type = "leaf" ->
                     Deleted(TRUE, NewLeaf(loaded.key, loaded.value))
                [] loaded.type = "extend" ->
                     Deleted(TRUE, ExtendNode(loaded.key, loaded.next, Dirty))
                [] loaded.type = "branch" -> Deleted(match, n))

(* The end of delete for a branch node: one whose only child is a leaf or an   *)
(* extend node is merged with it.                                              *)
Merge(readable, n, match) ==
  LET used == {i \in Branches : n.children[i] # nil}
      pos == CHOOSE i \in used : TRUE
      child == n.children[pos]
      loaded == IF child.type = "hash" THEN decodeNode(child.hash) ELSE child
  IN  CASE Cardinality(used) # 1 -> Deleted(match, n)
        [] Cardinality(used) = 1 /\ child.type = "hash" /\ child.hash \notin readable ->
             [match |-> match, node |-> n, err |-> TRUE]
        [] OTHER ->
             (CASE loaded.type = "leaf" ->
                     Deleted(TRUE, NewLeaf(<<pos>> \o loaded.key, loaded.value))
                [] loaded.type = "extend" ->
                     Deleted(TRUE, ExtendNode(<<pos>> \o loaded.key, loaded.next, Dirty))
                [] loaded.type = "branch" -> Deleted(match, n))

(* delete.  With an error, node is what the caller's pointer leads to. *)
RECURSIVE delete(_, _, _)
delete(readable, n, key) ==
  CASE n.type = "nil" -> Deleted(FALSE, nil)
    [] n.type = "leaf" ->
         IF matchkeyLen(key, n.key) = Len(n.key) THEN Deleted(TRUE, nil) ELSE Deleted(FALSE, n)
    [] n.type = "extend" ->
         LET r == delete(readable, n.next, From(key, Len(n.key) + 1))
         IN  CASE matchkeyLen(key, n.key) < Len(n.key) -> Deleted(FALSE, n)
               [] matchkeyLen(key, n.key) = Len(n.key) /\ r.match /\ ~r.err ->
                    Deleted(TRUE, IF r.node = nil THEN nil ELSE ExtendNode(n.key, r.node, Dirty))
               [] OTHER ->
                    Deleted(FALSE, IF n.next.type = "hash" THEN n ELSE [n EXCEPT !.next = r.node])
    [] n.type = "branch" ->
         LET r == delete(readable, n.children[key[1]], From(key, 2))
         IN  Merge(readable,
                   BranchNode([n.children EXCEPT ![key[1]] = r.node],
                              IF r.match THEN Dirty ELSE n.hash), r.match)
    [] n.type = "hash" ->
         IF n.hash \notin readable THEN [match |-> FALSE, node |-> n, err |-> TRUE]
         ELSE LET r == delete(readable, decodeNode(n.hash), key)
              IN  IF r.err THEN [match |-> FALSE, node |-> n, err |-> TRUE] ELSE r

-----------------------------------------------------------------------------
(* The state machine. *)

NoContents == [k \in Keys |-> None]

(* NewTrie without a root, and the empty hash as the root of that trie. *)
TrieInit ==
  /\ root = nil
  /\ nodeDB = {}
  /\ commits = 0
  /\ contents = NoContents
  /\ roots = {[root |-> nil, contents |-> NoContents, pure |-> TRUE]}
  /\ healthy = TRUE
  /\ pure = TRUE

(* During an operation the database answers, or fails. *)
Reads == {nodeDB, {}}

(* After a failed read the history is not kept, since nothing is said about it. *)
Remember(c, p, readable) ==
  /\ healthy' = (healthy /\ readable = nodeDB)
  /\ contents' = IF healthy' THEN c ELSE NoContents
  /\ pure' = (healthy' => p)

(* Put keeps the root when there is an error. *)
Put(k, v, readable) ==
  LET r == insert(readable, root, keybytesToHex(k), v)
  IN  /\ root' = IF r.err THEN root ELSE r.node
      /\ Remember(IF r.err THEN contents ELSE [contents EXCEPT ![k] = v], pure, readable)
      /\ UNCHANGED <<nodeDB, commits, roots>>

(* What Delete returns; nothing is looked up in an empty trie. *)
DeleteMatches(k, readable) == root # nil /\ delete(readable, root, keybytesToHex(k)).match

Delete(k, readable) ==
  /\ root' = IF root = nil THEN nil ELSE delete(readable, root, keybytesToHex(k)).node
  /\ Remember([contents EXCEPT ![k] = None], pure /\ ~DeleteMatches(k, readable), readable)
  /\ UNCHANGED <<nodeDB, commits, roots>>

(* What Get returns for the trie n: an empty value counts as none. *)
GetFrom(n, k, readable) ==
  LET value == get(readable, n, keybytesToHex(k)).value
  IN  IF value = Empty THEN None ELSE value

Get(k, readable) ==
  /\ root' = get(readable, root, keybytesToHex(k)).node
  /\ Remember(contents, pure, readable)
  /\ UNCHANGED <<nodeDB, commits, roots>>

(* Variant of TrieCommit that marks the nodes clean before it collects them. *)
TrieCommitCleansFirst ==
  /\ commits < MaxCommits
  /\ root' = cleaned(root)
  /\ nodeDB' = nodeDB \cup written(cleaned(root))
  /\ commits' = commits + 1
  /\ roots' = roots \cup {[root |-> hash(root), contents |-> contents, pure |-> pure]}
  /\ UNCHANGED <<contents, healthy, pure>>

(* Trie.Commit with a batch, and the batch is written.  A caller whose batch   *)
(* is not written gives the trie up, which is Open.                            *)
TrieCommit ==
  /\ commits < MaxCommits
  /\ root' = cleaned(root)
  /\ nodeDB' = nodeDB \cup written(root)
  /\ commits' = commits + 1
  /\ roots' = IF healthy
             THEN roots \cup {[root |-> hash(root), contents |-> contents, pure |-> pure]}
             ELSE roots
  /\ UNCHANGED <<contents, healthy, pure>>

NewTrie(h) == IF h = nil THEN nil ELSE decodeNode(h)

(* NewTrie with the root of a commit.  When it cannot be read there is no trie. *)
Open(c) ==
  /\ c.root \in nodeDB \cup {nil}
  /\ root' = NewTrie(c.root)
  /\ contents' = c.contents
  /\ pure' = c.pure
  /\ healthy' = TRUE
  /\ UNCHANGED <<nodeDB, commits, roots>>

(* Work goes on with the copy, which exists if the root is in the database. *)
ShallowCopyTrie ==
  /\ hash(root) \in nodeDB \cup {nil}
  /\ root' = NewTrie(hash(root))
  /\ UNCHANGED <<nodeDB, commits, contents, roots, healthy, pure>>

TrieNext ==
  \/ \E k \in Keys, readable \in Reads :
       /\ commits < MaxCommits
       /\ \/ \E v \in Values[k] : Put(k, v, readable)
          \/ Delete(k, readable)
          \/ Get(k, readable)
  \/ TrieCommit
  \/ \E c \in roots : Open(c)
  \/ ShallowCopyTrie

-----------------------------------------------------------------------------
Readable(c, k) == IF c[k] = Empty THEN None ELSE c[k]

(* Get finds what was put last, and Delete returns true exactly for the keys   *)
(* that are in the trie, whatever was loaded, committed, split or merged in    *)
(* between.                                                                    *)
TrieIsMap ==
  healthy => \A k \in Keys : /\ GetFrom(root, k, nodeDB) = Readable(contents, k)
                              /\ DeleteMatches(k, nodeDB) <=> contents[k] # None

(* Whatever happens to a trie afterwards, failing reads included, the root that *)
(* Commit returned leads to what the trie held then: Commit skips clean nodes,  *)
(* so these must be in the database with all that is below them.               *)
CommittedReadable ==
  \A c \in roots : \A k \in Keys :
    GetFrom(NewTrie(c.root), k, nodeDB) = Readable(c.contents, k)

RECURSIVE PutAll(_, _, _)
PutAll(n, c, ks) ==
  IF ks = {} THEN n
  ELSE LET k == CHOOSE x \in ks : TRUE
       IN  PutAll(insert({}, n, keybytesToHex(k), c[k]).node, c, ks \ {k})
(* The root that all nodes of the network have to agree on depends on the       *)
(* contents only, not on the order of insertions and commits, as long as        *)
(* nothing is deleted (Statedb never deletes).                                  *)
RootIsContents ==
  healthy /\ pure => hash(root) = hash(PutAll(nil, contents, {k \in Keys : contents[k] # None}))
=============================================================================

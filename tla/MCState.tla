------------------------------ MODULE MCState ------------------------------
(* Small instances of Statedb, of the trie below it and of the merkle tree of *)
(* a block's transactions.  They share no state: a behaviour is one of them.  *)
(*                                                                            *)
(* The keys are of one and two bytes of two bits, 00, 01, 10 and 0001 in      *)
(* nibbles: one is a prefix of another, two share all but their last nibble,  *)
(* and one shares nothing.                                                    *)
EXTENDS Statedb, Trie, Merkle, TLC

CONSTANTS a1, a2, a3

Symmetry == Permutations(Account)

MCKeys == {<<0>>, <<1>>, <<2>>, <<0, 1>>}
MCValues == [k \in MCKeys |-> IF k = <<0>> THEN {"a", "empty"} ELSE {"a"}]

StatedbIdle == db.order = <<>> /\ committed = {EmptyTrie}
TrieIdle == root = nil /\ commits = 0
MerkleIdle == tree = NoTree

MCInit == Init /\ TrieInit /\ MerkleInit
MCNext ==
  \/ TrieIdle /\ MerkleIdle /\ Next /\ UNCHANGED <<trieVars, merkleVars>>
  \/ StatedbIdle /\ MerkleIdle /\ TrieNext /\ UNCHANGED <<vars, merkleVars>>
  \/ StatedbIdle /\ TrieIdle /\ MerkleNext /\ UNCHANGED <<vars, trieVars>>
MCSpec == MCInit /\ [][MCNext]_<<vars, trieVars, merkleVars>>
=============================================================================

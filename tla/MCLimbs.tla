------------------------------ MODULE MCLimbs ------------------------------
(* The arithmetic and the bytes of libsecp256k1: field elements in limbs,     *)
(* scalars in words, the addition chains, DER, and hashing.  They share no     *)
(* state, so a behaviour is one of calls on field elements, one of calls on    *)
(* scalars, one run of a chain, one use of a signature or key in bytes, or     *)
(* one use of a hash.                                                         *)
EXTENDS FieldLimbs, ScalarLimbs, AdditionChains, Der, Hash, TLC

-----------------------------------------------------------------------------
(* Integers in every form a writer may give them: shortest, with a zero too    *)
(* many, without the zero that keeps them positive, below and above the order, *)
(* longer than a scalar, empty; and lengths in the short and the long form.    *)
Long(n) == <<Sign + 1, n>>
MCBodies ==
  {<<0>>, <<1>>, <<15>>, <<0, 15>>, <<16>>, <<0, 16>>, <<31, 20>>, <<31, 3>>, <<0, 31, 7>>,
   <<0, 31, 8>>, <<0, 31, 31>>, <<0, 0, 31>>, <<5, 6, 7>>, <<5>> \o [i \in 1 .. 15 |-> 1], <<>>}
MCIntegers ==
  {<<IntTag, Len(x)>> \o x : x \in {c \in MCBodies : Len(c) < Sign}}
    \cup {<<IntTag>> \o Long(Len(x)) \o x : x \in {c \in MCBodies : Len(c) \in {2, 16}}}
MCSecond == {<<IntTag, 1, 9>>, <<IntTag, 2, 0, 16>>, <<IntTag, 2, 0, 15>>, <<IntTag, 1>>, <<OctetTag, 1, 9>>,
             <<IntTag, 1, 31>>, <<IntTag, Sign + 2, 0, 1, 9>>, <<IntTag, Sign + 2, 1, 1, 9>>,
             <<IntTag, Sign>>, <<IntTag, Byte - 1, 9>>, <<>>}
MCDerInputs ==
  UNION {LET body == i \o j
         IN  {<<SeqTag, Len(body)>> \o body, <<SeqTag, Len(body) + 1>> \o body, <<SeqTag, Len(body)>> \o body \o <<0>>,
              <<SeqTag>> \o Long(Len(body)) \o body, <<SeqTag, Sign + 2, 0, Len(body)>> \o body,
              <<SeqTag, Len(body) + 1>> \o body \o <<0>>, <<OctetTag, Len(body)>> \o body}
         : i \in MCIntegers, j \in MCSecond} \cup {<<>>, <<SeqTag>>, <<SeqTag, Sign>>}
(* 22 bytes with a compressed public key and 39 with an uncompressed one.      *)
MCFraming ==
  [c \in BOOLEAN |->
     IF c THEN [begin |-> <<SeqTag, Sign + 1, 17, IntTag, 1, 1, OctetTag, ScalarBytes>>,
                middle |-> <<9, 8, 7, 6>>, pubkeylen |-> 6]
     ELSE [begin |-> <<SeqTag, Sign + 2, 1, 4, IntTag, 1, 1, OctetTag, ScalarBytes>>,
           middle |-> [i \in 1 .. 18 |-> 9], pubkeylen |-> 11]]

-----------------------------------------------------------------------------
(* A small mixing function in place of the rounds.                            *)
MCTransform[from \in Nat, block \in Seq(Octet)] ==
  ((from % 32749) * 31 + (from \div 32749) + block[1] * 7919 + block[2] * 6007 + block[3] * 5003
     + block[4] * 4001 + block[5] * 3001 + block[6] * 2003 + block[7] * 1009 + block[8] * 101) % 1000003
MCDigestOf[st \in Nat] == <<st % 256, (st \div 256) % 256, (st * 3 + 1) % 251, (st \div 4096) % 256>>

limbVars == <<fieldVars, scalarVars, chainVars, derVars, hashVars>>

FieldIdle == calls = 0
ScalarIdle == sCalls = 0
ChainIdle == line = 1 /\ chain = "fe_inv"
DerIdle == dcall = "none"
HashIdle == kind = "none"

MCInit == Init /\ ScalarInit /\ ChainInit /\ DerInit /\ HashInit
MCNext ==
  \/ /\ ScalarIdle /\ ChainIdle /\ DerIdle /\ HashIdle
     /\ Next /\ UNCHANGED <<scalarVars, chainVars, derVars, hashVars>>
  \/ /\ FieldIdle /\ ChainIdle /\ DerIdle /\ HashIdle
     /\ ScalarNext /\ UNCHANGED <<fieldVars, chainVars, derVars, hashVars>>
  \/ /\ FieldIdle /\ ScalarIdle /\ DerIdle /\ HashIdle
     /\ Row /\ UNCHANGED <<fieldVars, scalarVars, derVars, hashVars>>
  \/ /\ FieldIdle /\ ScalarIdle /\ ChainIdle /\ HashIdle
     /\ DerNext /\ UNCHANGED <<fieldVars, scalarVars, chainVars, hashVars>>
  \/ /\ FieldIdle /\ ScalarIdle /\ ChainIdle /\ DerIdle
     /\ HashNext /\ UNCHANGED <<fieldVars, scalarVars, chainVars, derVars>>
MCSpec == MCInit /\ [][MCNext]_limbVars
=============================================================================

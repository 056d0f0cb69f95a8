------------------------------ MODULE MCCurve ------------------------------
(* The curve y^2 = x^3 + 7 over the field of 43 elements: 31 points, seven    *)
(* of their x coordinates above 31, none with x = 0, as for secp256k1.        *)
EXTENDS PointCalls, Secp256k1

MCNonceLists == {<<5, 12>>, <<0, 33, 3>>, <<7>>, <<>>}
MCPeerLists == {<<>>, <<4, 4>>, <<4, 27>>, <<9, 4>>}
Input(size, tag, x, y) == [size |-> size, tag |-> tag, x |-> x, y |-> y]
MCPubkeyInputs ==
  {Input(33, 3, 20, 0), Input(33, 2, 3, 0), Input(33, 2, 45, 0), Input(65, 4, 20, 40),
   Input(65, 6, 20, 40), Input(65, 7, 20, 40), Input(65, 4, 20, 41), Input(65, 4, 2, 55),
   Input(64, 4, 20, 40)}
MCSigInputs ==
  {[r |-> r, s |-> s, recid |-> recid] :
     <<r, s, recid>> \in {<<25, 1, 1>>, <<6, 20, 2>>, <<20, 5, 2>>, <<33, 5, 1>>, <<5, 5, 0>>, <<12, 3, 4>>}}
MCSeeds == {<<17, 5>>}
MCMulMod(x, y) == (x * y) % P

(* The two parts share no state: each behaviour runs one of them, calls on    *)
(* points from the one start that has no context.                             *)
MCInit == PointInit /\ SecpInit
MCNext == \/ apiCalls = 0 /\ ctx = NoContext /\ key = 9 /\ PointNext /\ UNCHANGED secpVars
          \/ pointCalls = 0 /\ SecpNext /\ UNCHANGED pointVars
MCSpec == MCInit /\ [][MCNext]_<<pointVars, secpVars>>
=============================================================================

------------------------------ MODULE MCChain ------------------------------
(* Block trees for the model checker.                                      *)
EXTENDS ChainInv

(* Two chains from the genesis, a long one and a short one with a branch, a *)
(* block whose height does not fit, one with an unknown parent and one that *)
(* fails validation.                                                        *)
UBlock == {"G", "A1", "A2", "A3", "B1", "B2", "B3", "badHeight", "orphan", "badTx"}
UParent == [b \in UBlock |-> CASE b \in {"A1", "B1", "badHeight", "badTx"} -> "G"
                               [] b = "A2" -> "A1"
                               [] b = "A3" -> "A2"
                               [] b = "B2" -> "B1"
                               [] b = "B3" -> "B2"
                               [] OTHER -> "none"]
UHeight == [b \in UBlock |-> CASE b = "G" -> 0
                               [] b \in {"A1", "B1", "badTx", "orphan"} -> 1
                               [] b \in {"A2", "B2", "badHeight"} -> 2
                               [] OTHER -> 3]
UDifficulty == [b \in UBlock |-> IF b = "G" THEN 1 ELSE 2]
(* A1 and B1 hold nothing but a reward to the same account: one state root. *)
UStateHash == [b \in UBlock |-> IF b \in {"A1", "B1"} THEN "reward" ELSE b]
UValid == UBlock \ {"badTx"}

(* A heavy block against a longer chain of light ones: A1 outweighs B2 and   *)
(* shortens the canonical chain, B3 outweighs A1 and is two blocks longer,   *)
(* C2 outweighs A1 and is one block longer.                                  *)
VBlock == {"G", "A1", "B1", "B2", "B3", "C2"}
VParent == [b \in VBlock |-> CASE b = "G" -> "none"
                               [] b \in {"A1", "B1"} -> "G"
                               [] b \in {"B2", "C2"} -> "B1"
                               [] b = "B3" -> "B2"]
VHeight == [b \in VBlock |-> CASE b = "G" -> 0
                               [] b \in {"A1", "B1"} -> 1
                               [] b \in {"B2", "C2"} -> 2
                               [] b = "B3" -> 3]
VDifficulty == [b \in VBlock |-> CASE b = "G" -> 1
                                   [] b = "A1" -> 5
                                   [] b = "C2" -> 4
                                   [] OTHER -> 2]
VStateHash == [b \in VBlock |-> b]
VValid == VBlock
=============================================================================

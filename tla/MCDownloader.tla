---------------------------- MODULE MCDownloader ----------------------------
(* A master that may leave and come back, or connect twice, and a peer whose *)
(* chain leaves the master's after height 1.  The local chain is at genesis, *)
(* or one block of the master's long, or has left the master's further back  *)
(* than MaxForkAncestry.                                                     *)
EXTENDS Downloader

MCPeer == {"m", "p"}
MCpeerID == [c \in {"m1", "m2", "p1"} |-> IF c = "p1" THEN "p" ELSE "m"]
MCTop == [p \in MCPeer |-> 2]
MCSame == [p \in MCPeer |-> IF p = "m" THEN 2 ELSE 1]
MCLocalChains == {[height |-> 0, fork |-> 0], [height |-> 1, fork |-> 1],
                  [height |-> 1, fork |-> 0]}
=============================================================================

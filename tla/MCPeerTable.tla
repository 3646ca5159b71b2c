----------------------------- MODULE MCPeerTable -----------------------------
(* The small instances of PeerTable that TLC checks. *)
EXTENDS PeerTable

CONSTANTS p1, p2,   \* peers
          t1, t2    \* HTTP threads
=============================================================================

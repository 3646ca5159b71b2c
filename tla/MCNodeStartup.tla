---------------------------- MODULE MCNodeStartup ----------------------------
(* The small instances of NodeStartup that TLC checks. *)
EXTENDS NodeStartup

CONSTANTS l1, l2,   \* threads of mDNS
          p, q, s   \* reports of peers
=============================================================================

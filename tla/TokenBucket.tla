---------------------------- MODULE TokenBucket ----------------------------
(***************************************************************************)
(* What the rate limiter promises (p2p_libp2p.py): each peer has a bucket  *)
(* that is full to begin with, that time refills, and that a query which   *)
(* is let through takes a token from; a query that finds less than a       *)
(* token is refused.  No bucket is ever lost.                              *)
(***************************************************************************)
EXTENDS Integers

CONSTANTS
  Peer,   \* ids of peers
  Rate,   \* what a unit of time adds to a bucket
  Burst,  \* what fills a bucket
  Cost    \* a token

VARIABLES
  level,  \* what is in the bucket of each peer
  answer  \* to the last query: the peer, and whether it was let through

Filled(x) == IF x > Burst THEN Burst ELSE x
Answered(p, ok) == answer' = [peer |-> p, ok |-> ok]

Init ==
  /\ level = [p \in Peer |-> Burst]
  /\ answer = <<>>

Pass ==
  /\ \E t \in Nat : level' = [p \in Peer |-> Filled(level[p] + t * Rate)]
  /\ UNCHANGED answer

Take(p) ==
  /\ level[p] >= Cost
  /\ level' = [level EXCEPT ![p] = @ - Cost]
  /\ Answered(p, TRUE)

Refuse(p) ==
  /\ level[p] < Cost
  /\ Answered(p, FALSE)
  /\ UNCHANGED level

Reset ==
  /\ \E S \in SUBSET Peer : level' = [p \in Peer |-> IF p \in S THEN Burst ELSE level[p]]
  /\ UNCHANGED answer

Next == Pass \/ Reset \/ \E p \in Peer : Take(p) \/ Refuse(p)

Spec == Init /\ [][Next]_<<level, answer>>
=============================================================================

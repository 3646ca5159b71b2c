---------------------------- MODULE RateLimiter ----------------------------
(***************************************************************************)
(* The rate limiter of incoming queries (p2p_libp2p.py), which keeps a     *)
(* bucket only for the peers that asked, refills it when it is looked at,  *)
(* and, once there are many, throws away those that were idle for long.    *)
(* allow and reset hold a lock throughout, so each is one step.  The clock *)
(* is monotonic.  Times and tokens are integers, in units fine enough for  *)
(* the rate (Cost units are a token).                                      *)
(***************************************************************************)
EXTENDS Integers, FiniteSets

CONSTANTS
  Peer, Rate, Burst, Cost,  \* as in TokenBucket
  MaxBuckets,               \* more buckets than this make allow prune: 5000
  MaxIdle                   \* the age at which it keeps them: 300 s

VARIABLES
  buckets,  \* _buckets: peer -> tokens at the time it was last looked at
  now,      \* time_func()
  answer    \* history: the last answer of allow

vars == <<buckets, now, answer>>

Init ==
  /\ buckets = [p \in {} |-> 0]
  /\ now = 0
  /\ answer = <<>>

\* min(burst, tokens + elapsed * rate), and burst for a peer without a bucket
Filled(x) == IF x > Burst THEN Burst ELSE x
Tokens(p) ==
  IF p \in DOMAIN buckets
  THEN Filled(buckets[p].tokens + (now - buckets[p].last) * Rate)
  ELSE Burst

Bucket(t) == [tokens |-> t, last |-> now]
With(p, t) ==
  [q \in DOMAIN buckets \cup {p} |-> IF q = p THEN Bucket(t) ELSE buckets[q]]

\* _cleanup
Pruned(b) == [p \in {q \in DOMAIN b : now - b[q].last <= MaxIdle} |-> b[p]]

\* allow: only a query that is let through prunes.
Allow(p) ==
  /\ Tokens(p) >= Cost
  /\ buckets' = IF Cardinality(DOMAIN With(p, Tokens(p) - Cost)) > MaxBuckets
                THEN Pruned(With(p, Tokens(p) - Cost))
                ELSE With(p, Tokens(p) - Cost)
  /\ answer' = [peer |-> p, ok |-> TRUE]
  /\ UNCHANGED now

Deny(p) ==
  /\ Tokens(p) < Cost
  /\ buckets' = With(p, Tokens(p))
  /\ answer' = [peer |-> p, ok |-> FALSE]
  /\ UNCHANGED now

\* reset, of one peer or of all
Reset ==
  /\ \E S \in SUBSET Peer : buckets' = [p \in DOMAIN buckets \ S |-> buckets[p]]
  /\ UNCHANGED <<now, answer>>

Tick ==
  /\ \E t \in Nat : now' = now + t
  /\ UNCHANGED <<buckets, answer>>

Next == Tick \/ Reset \/ \E p \in Peer : Allow(p) \/ Deny(p)

Spec == Init /\ [][Next]_vars

-----------------------------------------------------------------------------
(* Properties *)

TypeOK ==
  /\ DOMAIN buckets \subseteq Peer
  /\ \A p \in DOMAIN buckets :
       /\ buckets[p].tokens \in 0..Burst
       /\ buckets[p].last \in 0..now
  /\ now \in Nat

\* Each bucket as it would be found now.
Level == [p \in Peer |-> Tokens(p)]
Buckets == INSTANCE TokenBucket WITH level <- Level

\* Peers are answered as by buckets that are refilled all the time and never
\* thrown away.
BucketSpec == Buckets!Spec
=============================================================================

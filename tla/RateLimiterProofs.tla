------------------------- MODULE RateLimiterProofs -------------------------
(***************************************************************************)
(* RateLimiter implements TokenBucket whenever a bucket fills up within    *)
(* the idle time after which it is pruned.  That holds of the defaults     *)
(* (burst 30, 20 per second, 300 s), and just so of the lowest rate that   *)
(* the node allows, 0.1 per second (L:177); a configured burst of more     *)
(* than 300 times the rate is beyond the theorem.                          *)
(***************************************************************************)
EXTENDS RateLimiter, TLAPS

\* The parameters are in units in which they are whole.
Refills ==
  /\ Rate \in Nat /\ Burst \in Nat /\ Cost \in Nat /\ MaxIdle \in Nat
  /\ MaxIdle * Rate >= Burst

USE DEF Filled

\* Time only adds.
LEMMA Refilling ==
  ASSUME NEW r \in Nat, NEW x \in Nat, NEW y \in Nat
  PROVE  /\ (x + y) * r = x * r + y * r
         /\ x * r \in Nat /\ y * r \in Nat
OBVIOUS

\* A bucket is between empty and full.
LEMMA TokensRange ==
  ASSUME Refills, TypeOK, NEW p \in Peer
  PROVE  Tokens(p) \in 0..Burst
<1>1. CASE p \notin DOMAIN buckets
  BY <1>1 DEF Tokens, Refills
<1>2. CASE p \in DOMAIN buckets
  <2>1. now - buckets[p].last \in Nat
    BY <1>2 DEF TypeOK
  <2>2. (now - buckets[p].last) * Rate \in Nat
    BY <2>1, Refilling DEF Refills
  <2> QED
    BY <1>2, <2>2 DEF Tokens, TypeOK, Refills
<1> QED
  BY <1>1, <1>2

\* What pruning throws away is full.
LEMMA PrunedIsFull ==
  ASSUME Refills, TypeOK, NEW p \in DOMAIN buckets, now - buckets[p].last > MaxIdle
  PROVE  Tokens(p) = Burst
<1> DEFINE d == now - buckets[p].last - MaxIdle
<1>1. d \in Nat /\ now - buckets[p].last = MaxIdle + d
  BY DEF TypeOK, Refills
<1> HIDE DEF d
<1>2. /\ (MaxIdle + d) * Rate = MaxIdle * Rate + d * Rate
      /\ d * Rate \in Nat /\ MaxIdle * Rate \in Nat
  BY <1>1, Refilling DEF Refills
<1>3. buckets[p].tokens \in 0..Burst
  BY DEF TypeOK
<1>4. Tokens(p) = Filled(buckets[p].tokens + (MaxIdle + d) * Rate)
  BY <1>1 DEF Tokens
<1>5. MaxIdle * Rate >= Burst /\ Burst \in Nat
  BY DEF Refills
<1>6. buckets[p].tokens + (MaxIdle + d) * Rate >= Burst
  <2> DEFINE a == MaxIdle * Rate
             b == d * Rate
             c == (MaxIdle + d) * Rate
  <2>1. c = a + b /\ a \in Nat /\ b \in Nat /\ a >= Burst /\ Burst \in Nat
    BY <1>2, <1>5
  <2> HIDE DEF a, b, c
  <2>2. buckets[p].tokens + c >= Burst
    BY <2>1, <1>3
  <2> QED
    BY <2>2 DEF c
<1>7. (MaxIdle + d) * Rate \in Nat
  BY <1>1, Refilling DEF Refills
<1> QED
  BY <1>3, <1>4, <1>5, <1>6, <1>7

-----------------------------------------------------------------------------
\* The effect of a new bucket for p on all buckets.
LEMMA WithFacts ==
  ASSUME Refills, TypeOK, NEW p \in Peer, NEW t \in 0..Burst,
         \/ buckets' = With(p, t)
         \/ buckets' = Pruned(With(p, t)),
         now' = now
  PROVE  TypeOK' /\ Level' = [Level EXCEPT ![p] = t]
<1> DEFINE W == With(p, t)
<1>1. /\ DOMAIN W = DOMAIN buckets \cup {p}
      /\ W[p] = [tokens |-> t, last |-> now]
      /\ \A q \in DOMAIN buckets : q # p => W[q] = buckets[q]
  BY DEF With, Bucket
<1> HIDE DEF W
<1>2. \A q \in DOMAIN W : W[q].tokens \in 0..Burst /\ W[q].last \in 0..now
  BY <1>1 DEF TypeOK
<1>3. DOMAIN W \subseteq Peer
  BY <1>1 DEF TypeOK
<1>4. /\ DOMAIN buckets' \subseteq DOMAIN W
      /\ \A q \in DOMAIN buckets' : buckets'[q] = W[q]
      /\ \A q \in DOMAIN W \ DOMAIN buckets' : now - W[q].last > MaxIdle
  <2>1. CASE buckets' = W
    BY <2>1
  <2>2. CASE buckets' = Pruned(W)
    BY <2>2, <1>2 DEF Pruned, Refills, TypeOK
  <2> QED
    BY <2>1, <2>2 DEF W
<1>5. TypeOK'
  BY <1>2, <1>3, <1>4 DEF TypeOK
<1>6. p \in DOMAIN buckets'
  BY <1>1, <1>4 DEF Refills, TypeOK
<1>7. Tokens(p)' = t
  <2>1. 0 * Rate = 0
    BY DEF Refills
  <2> QED
    BY <1>1, <1>4, <1>6, <2>1 DEF Tokens, TypeOK, Refills
<1>8. ASSUME NEW q \in Peer, q # p PROVE Tokens(q)' = Tokens(q)
  <2>1. CASE q \in DOMAIN buckets'
    BY <1>1, <1>4, <1>8, <2>1 DEF Tokens
  <2>2. CASE q \in DOMAIN buckets /\ q \notin DOMAIN buckets'
    <3>1. now - buckets[q].last > MaxIdle
      BY <1>1, <1>4, <1>8, <2>2
    <3>2. Tokens(q) = Burst
      BY <2>2, <3>1, PrunedIsFull
    <3> QED
      BY <2>2, <3>2 DEF Tokens
  <2>3. CASE q \notin DOMAIN buckets /\ q \notin DOMAIN buckets'
    BY <2>3 DEF Tokens
  <2> QED
    BY <2>1, <2>2, <2>3
<1> QED
  BY <1>5, <1>7, <1>8 DEF Level

\* Time fills each bucket by what has passed.
LEMMA TickFacts ==
  ASSUME Refills, TypeOK, NEW t \in Nat, now' = now + t, UNCHANGED buckets
  PROVE  /\ TypeOK'
         /\ Level' = [p \in Peer |-> Filled(Level[p] + t * Rate)]
<1>1. TypeOK'
  BY DEF TypeOK
<1>2. ASSUME NEW p \in Peer PROVE Tokens(p)' = Filled(Tokens(p) + t * Rate)
  <2>0. t * Rate \in Nat /\ Burst \in Nat
    BY Refilling DEF Refills
  <2>1. CASE p \notin DOMAIN buckets
    BY <2>0, <2>1 DEF Tokens
  <2>2. CASE p \in DOMAIN buckets
    <3> DEFINE d == now - buckets[p].last
               x == buckets[p].tokens
    <3>1. d \in Nat /\ x \in Nat /\ now' - buckets[p].last = d + t
      BY <2>2 DEF TypeOK
    <3>2. Tokens(p) = Filled(x + d * Rate) /\ Tokens(p)' = Filled(x + (d + t) * Rate)
      BY <2>2, <3>1 DEF Tokens
    <3> HIDE DEF d, x
    <3>3. (d + t) * Rate = d * Rate + t * Rate /\ d * Rate \in Nat
      BY <3>1, Refilling DEF Refills
    <3> QED
      BY <2>0, <3>1, <3>2, <3>3
  <2> QED
    BY <2>1, <2>2
<1> QED
  BY <1>1, <1>2 DEF Level

\* A reset fills buckets.
LEMMA ResetFacts ==
  ASSUME TypeOK, NEW S \in SUBSET Peer, UNCHANGED now,
         buckets' = [p \in DOMAIN buckets \ S |-> buckets[p]]
  PROVE  /\ TypeOK'
         /\ Level' = [p \in Peer |-> IF p \in S THEN Burst ELSE Level[p]]
BY DEF TypeOK, Level, Tokens

-----------------------------------------------------------------------------
\* Every step of the limiter is a step of the buckets, and keeps its types.
LEMMA StepImplements ==
  ASSUME Refills, TypeOK, [Next]_vars
  PROVE  TypeOK' /\ [Buckets!Next]_<<Level, answer>>
<1>1. CASE Tick
  <2>1. PICK t \in Nat : now' = now + t /\ UNCHANGED <<buckets, answer>>
    BY <1>1 DEF Tick
  <2>2. TypeOK' /\ Level' = [p \in Peer |-> Filled(Level[p] + t * Rate)]
    BY <2>1, TickFacts
  <2> QED
    BY <2>1, <2>2 DEF Buckets!Next, Buckets!Pass, Buckets!Filled
<1>2. CASE Reset
  <2>1. PICK S \in SUBSET Peer : buckets' = [p \in DOMAIN buckets \ S |-> buckets[p]]
    BY <1>2 DEF Reset
  <2>2. UNCHANGED <<now, answer>>
    BY <1>2 DEF Reset
  <2>3. TypeOK' /\ Level' = [p \in Peer |-> IF p \in S THEN Burst ELSE Level[p]]
    BY <2>1, <2>2, ResetFacts
  <2> QED
    BY <2>2, <2>3 DEF Buckets!Next, Buckets!Reset
<1>3. ASSUME NEW p \in Peer, Allow(p) PROVE TypeOK' /\ Buckets!Take(p)
  <2>1. Tokens(p) \in 0..Burst
    BY TokensRange
  <2>2. Tokens(p) - Cost \in 0..Burst /\ now' = now
    BY <1>3, <2>1 DEF Allow, Refills
  <2>3. TypeOK' /\ Level' = [Level EXCEPT ![p] = Tokens(p) - Cost]
    BY <1>3, <2>2, WithFacts DEF Allow
  <2> QED
    BY <1>3, <2>3 DEF Allow, Level, Buckets!Take, Buckets!Answered
<1>4. ASSUME NEW p \in Peer, Deny(p) PROVE TypeOK' /\ Buckets!Refuse(p)
  <2>1. TypeOK' /\ Level' = [Level EXCEPT ![p] = Tokens(p)]
    BY <1>4, TokensRange, WithFacts DEF Deny
  <2>2. UNCHANGED Level
    BY <2>1 DEF Level
  <2> QED
    BY <1>4, <2>1, <2>2 DEF Deny, Level, Buckets!Refuse, Buckets!Answered
<1>5. CASE UNCHANGED vars
  BY <1>5 DEF vars, TypeOK, Level, Tokens
<1> QED
  BY <1>1, <1>2, <1>3, <1>4, <1>5 DEF Next, Buckets!Next

\* Pruning and refilling on demand are invisible: a peer is let through or
\* refused as if its bucket had been there, and filling, all the time.
THEOREM LimiterImplementsBuckets == Refills /\ Spec => BucketSpec
<1> SUFFICES ASSUME Refills PROVE Spec => BucketSpec
  OBVIOUS
<1>1. Init => TypeOK /\ Buckets!Init
  BY DEF Init, TypeOK, Level, Tokens, Buckets!Init, Refills
<1>2. TypeOK /\ [Next]_vars => TypeOK' /\ [Buckets!Next]_<<Level, answer>>
  BY StepImplements
<1> QED
  BY <1>1, <1>2, PTL DEF Spec, BucketSpec, Buckets!Spec
=============================================================================

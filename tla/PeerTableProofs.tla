---------------------------- MODULE PeerTableProofs ----------------------------
(***************************************************************************)
(* Safety of the peer table for any peers, threads, cooldown and number of *)
(* checks and queries at once.                                             *)
(*                                                                         *)
(* A listed peer has no failure on record (ListedClean), and a peer that   *)
(* was not examined since it failed still has one (SuspectRecorded): so a  *)
(* report can list it again only through the end of its cooldown, which    *)
(* has it examined.                                                        *)
(***************************************************************************)
EXTENDS PeerTable, TLAPS

ListedClean == \A p \in discovered : cool[p] = None
SuspectRecorded == \A p \in suspect : cool[p] # None

Inv == TypeOK /\ ExaminedSinceFailure /\ ListedClean /\ SuspectRecorded

\* The parts of Inv that speak of the table, of the queries and of the rest.
TableOK ==
  /\ discovered \subseteq Peer /\ tested \subseteq Peer /\ suspect \subseteq Peer
  /\ cool \in [Peer -> 0 .. Cooldown \cup {None}]
  /\ diags \in [Peer -> 0 .. MaxDiags]
  /\ ExaminedSinceFailure /\ ListedClean /\ SuspectRecorded

QueriesOK ==
  /\ running \subseteq Thread
  /\ waiting \in [Thread -> SUBSET Peer] /\ asking \in [Thread -> SUBSET Peer]
  /\ \A t \in Thread \ running : waiting[t] = {} /\ asking[t] = {}

NetworkOK == up \subseteq Peer /\ stored \subseteq Peer /\ offers \in BOOLEAN

LEMMA InvParts == Inv <=> (NetworkOK /\ TableOK /\ QueriesOK)
<1> QED
  BY DEF Inv, TypeOK, NetworkOK, TableOK, QueriesOK

LEMMA InvPartsNext == Inv' <=> (NetworkOK' /\ TableOK' /\ QueriesOK')
<1> QED
  BY DEF Inv, TypeOK, NetworkOK, TableOK, QueriesOK

LEMMA InvInit == Init => Inv
<1> SUFFICES ASSUME Init PROVE Inv
  OBVIOUS
<1>1. NetworkOK
  BY DEF Init, NetworkOK
<1>2. TableOK
  BY ConstantsAssumption
  DEF Init, TableOK, ExaminedSinceFailure, ListedClean, SuspectRecorded
<1>3. QueriesOK
  BY DEF Init, QueriesOK
<1> QED
  BY <1>1, <1>2, <1>3, InvParts

-----------------------------------------------------------------------------
(* The steps that change the table. *)

LEMMA DiscoverTable ==
  ASSUME TableOK, NEW p \in Peer, Discover(p)
  PROVE  TableOK'
<1> USE ConstantsAssumption
<1>1. CASE Cooling(p)
  BY <1>1 DEF Discover, table, TableOK, ExaminedSinceFailure, ListedClean, SuspectRecorded
<1>2. ASSUME ~Cooling(p), NEW untested, untested = (p \notin tested \/ cool[p] = 0),
             List(p, untested)
      PROVE  TableOK'
  <2>1. cool' \in [Peer -> 0 .. Cooldown \cup {None}] /\ discovered' \subseteq Peer
    BY <1>2 DEF TableOK, List
  <2>2. CASE untested
    <3>1. diags' \in [Peer -> 0 .. MaxDiags]
      BY <1>2, <2>2 DEF TableOK, List
    <3> QED
      BY <1>2, <2>1, <2>2, <3>1
      DEF TableOK, List, ExaminedSinceFailure, ListedClean, SuspectRecorded
  <2>3. CASE ~untested
    <3>1. UNCHANGED <<tested, diags, suspect>> /\ cool[p] = None
      BY <1>2, <2>3 DEF List, Cooling
    <3>2. p \notin suspect
      BY <3>1 DEF TableOK, SuspectRecorded
    <3> QED
      BY <1>2, <2>1, <3>1, <3>2
      DEF TableOK, List, ExaminedSinceFailure, ListedClean, SuspectRecorded
  <2> QED
    BY <1>2, <2>2, <2>3
<1> QED
  BY <1>1, <1>2 DEF Discover

LEMMA FailedTable ==
  ASSUME TableOK, NEW p \in Peer, Failed(p), (diags \in [Peer -> 0 .. MaxDiags])'
  PROVE  TableOK'
<1> USE ConstantsAssumption
<1>1. cool' \in [Peer -> 0 .. Cooldown \cup {None}]
  BY DEF TableOK, Failed
<1> QED
  BY <1>1 DEF TableOK, Failed, ExaminedSinceFailure, ListedClean, SuspectRecorded

\* The end of a check keeps the number of running ones in its range.
LEMMA EndsRange ==
  ASSUME TableOK, NEW p \in Peer, Ends(p)
  PROVE  (diags \in [Peer -> 0 .. MaxDiags])'
<1>1. PICK n \in {diags[p] - 1} \cup (IF diags[p] = MaxDiags THEN {MaxDiags} ELSE {}) :
        diags' = [diags EXCEPT ![p] = n]
  BY DEF Ends
<1>2. n \in 0 .. MaxDiags
  BY <1>1, ConstantsAssumption DEF TableOK, Ends
<1> QED
  BY <1>1, <1>2 DEF TableOK

LEMMA DiagnosisTable ==
  ASSUME TableOK, NEW p \in Peer, Diagnosis(p)
  PROVE  TableOK'
<1> USE ConstantsAssumption
<1>1. CASE DiagnosisSucceeds(p)
  <2>1. (diags \in [Peer -> 0 .. MaxDiags])'
    BY <1>1, EndsRange DEF DiagnosisSucceeds
  <2>2. cool' = [cool EXCEPT ![p] = None] /\ suspect' = suspect \ {p} /\ UNCHANGED <<discovered, tested>>
    BY <1>1 DEF DiagnosisSucceeds
  <2>3. cool' \in [Peer -> 0 .. Cooldown \cup {None}]
    BY <2>2 DEF TableOK
  <2> QED
    BY <2>1, <2>2, <2>3 DEF TableOK, ExaminedSinceFailure, ListedClean, SuspectRecorded
<1>2. CASE DiagnosisFails(p)
  BY <1>2, EndsRange, FailedTable DEF DiagnosisFails
<1> QED
  BY <1>1, <1>2 DEF Diagnosis

LEMMA TickTable ==
  ASSUME TableOK, Tick
  PROVE  TableOK'
<1> USE ConstantsAssumption
<1>1. cool' = [p \in Peer |-> IF Cooling(p) THEN cool[p] - 1 ELSE cool[p]]
  BY DEF Tick
<1>2. \A p \in Peer : cool[p] \in 0 .. Cooldown \cup {None}
  BY DEF TableOK
<1>3. \A p \in Peer : cool'[p] \in 0 .. Cooldown \cup {None} /\ (cool'[p] = None <=> cool[p] = None)
  BY <1>1, <1>2 DEF Cooling
<1>4. cool' \in [Peer -> 0 .. Cooldown \cup {None}]
  BY <1>1, <1>3
<1> QED
  BY <1>3, <1>4 DEF Tick, TableOK, ExaminedSinceFailure, ListedClean, SuspectRecorded

-----------------------------------------------------------------------------
(* The steps of queries. *)

LEMMA QueriesNext ==
  ASSUME TableOK, QueriesOK, NEW t \in Thread,
         \/ Query(t) \/ AllAsked(t) \/ Timeout(t)
         \/ \E p \in Peer : Ask(t, p) \/ Answer(t, p) \/ Refuse(t, p)
  PROVE  QueriesOK'
<1>1. CASE Query(t)
  BY <1>1 DEF QueriesOK, TableOK, Query
<1>2. CASE AllAsked(t) \/ Timeout(t)
  <2>1. Over(t)
    BY <1>2 DEF AllAsked, Timeout
  <2> QED
    BY <2>1 DEF QueriesOK, Over
<1>3. ASSUME NEW p \in Peer, Ask(t, p) PROVE QueriesOK'
  <2>1. t \in running
    BY <1>3 DEF QueriesOK, Ask
  <2>2. asking' \in [Thread -> SUBSET Peer] /\ \A s \in Thread : s # t => asking'[s] = asking[s]
    BY <1>3 DEF QueriesOK, Ask
  <2> QED
    BY <1>3, <2>1, <2>2 DEF QueriesOK, Ask
<1>4. ASSUME NEW p \in Peer, Answer(t, p) \/ Refuse(t, p) PROVE QueriesOK'
  BY <1>4 DEF QueriesOK, Answer, Refuse
<1> QED
  BY <1>1, <1>2, <1>3, <1>4

-----------------------------------------------------------------------------

LEMMA InvNext == Inv /\ [Next]_vars => Inv'
<1> SUFFICES ASSUME Inv, [Next]_vars PROVE Inv'
  OBVIOUS
<1>0. NetworkOK /\ TableOK /\ QueriesOK
  BY InvParts
<1>1. ASSUME NEW p \in Peer, Report(p) \/ Sync(p) PROVE Inv'
  <2>1. TableOK'
    BY <1>0, <1>1, DiscoverTable DEF Report, Sync
  <2> QED
    BY <1>0, <1>1, <2>1, InvPartsNext DEF Report, Sync, Discover, network, queries, NetworkOK, QueriesOK
<1>2. ASSUME NEW p \in Peer, Diagnosis(p) PROVE Inv'
  <2>1. TableOK'
    BY <1>0, <1>2, DiagnosisTable
  <2> QED
    BY <1>0, <1>2, <2>1, InvPartsNext
    DEF Diagnosis, DiagnosisSucceeds, DiagnosisFails, network, queries, NetworkOK, QueriesOK
<1>3. ASSUME NEW p \in Peer, Turn(p) \/ Store(p) PROVE Inv'
  BY <1>0, <1>3, InvPartsNext DEF Turn, Store, Toggled, table, queries, NetworkOK, TableOK,
     QueriesOK, ExaminedSinceFailure, ListedClean, SuspectRecorded
<1>4. ASSUME NEW t \in Thread, Query(t) \/ AllAsked(t) \/ Timeout(t) PROVE Inv'
  <2>1. QueriesOK'
    BY <1>0, <1>4, QueriesNext
  <2>2. UNCHANGED <<network, table, offers>>
    BY <1>4 DEF Query, AllAsked, Timeout, Over
  <2> QED
    BY <1>0, <2>1, <2>2, InvPartsNext DEF network, table, NetworkOK, TableOK,
       ExaminedSinceFailure, ListedClean, SuspectRecorded
<1>5. ASSUME NEW t \in Thread, NEW p \in Peer, Ask(t, p) \/ Answer(t, p) PROVE Inv'
  <2>1. QueriesOK'
    BY <1>0, <1>5, QueriesNext
  <2>2. UNCHANGED <<network, table, offers>>
    BY <1>5 DEF Ask, Answer
  <2> QED
    BY <1>0, <2>1, <2>2, InvPartsNext DEF network, table, NetworkOK, TableOK,
       ExaminedSinceFailure, ListedClean, SuspectRecorded
<1>6. ASSUME NEW t \in Thread, NEW p \in Peer, Refuse(t, p) PROVE Inv'
  <2>1. QueriesOK'
    BY <1>0, <1>6, QueriesNext
  <2>2. (diags \in [Peer -> 0 .. MaxDiags])' /\ UNCHANGED <<network, offers>>
    BY <1>0, <1>6 DEF Refuse, TableOK
  <2>3. TableOK'
    BY <1>0, <1>6, <2>2, FailedTable DEF Refuse
  <2> QED
    BY <1>0, <2>1, <2>2, <2>3, InvPartsNext DEF network, NetworkOK
<1>7. CASE Tick
  <2>1. TableOK'
    BY <1>0, <1>7, TickTable
  <2> QED
    BY <1>0, <1>7, <2>1, InvPartsNext DEF Tick, network, queries, NetworkOK, QueriesOK
<1>8. CASE UNCHANGED vars
  BY <1>0, <1>8, InvPartsNext DEF vars, network, table, queries, NetworkOK, TableOK, QueriesOK,
     ExaminedSinceFailure, ListedClean, SuspectRecorded
<1> QED
  BY <1>1, <1>2, <1>3, <1>4, <1>5, <1>6, <1>7, <1>8 DEF Next

\* The strengthened invariant of the peer table.
THEOREM InvHolds == Spec => []Inv
<1> QED
  BY InvInit, InvNext, PTL DEF Spec

\* The tables hold peers, and a query that does not run has no tasks.
THEOREM TypeCorrect == Spec => []TypeOK
<1>1. Inv => TypeOK
  BY DEF Inv
<1> QED
  BY <1>1, InvHolds, PTL

\* Nothing lists a failed peer again unexamined, however reports, checks and
\* queries of the same peer overlap.
THEOREM Examined == Spec => []ExaminedSinceFailure
<1>1. Inv => ExaminedSinceFailure
  BY DEF Inv
<1> QED
  BY <1>1, InvHolds, PTL

\* No query contacts a peer in its cooldown, though it works from a copy of
\* the table.
THEOREM CooldownKept == Spec => CooldownRespected
<1> DEFINE Kept == \A t \in Thread : \A p \in asking'[t] \ asking[t] : ~Cooling(p)
<1>1. Inv /\ [Next]_vars => [Kept]_vars
  <2> SUFFICES ASSUME Inv, Next PROVE Kept
    OBVIOUS
  <2> USE DEF Inv, TypeOK
  <2>1. CASE \E p \in Peer : Report(p) \/ Sync(p) \/ Diagnosis(p) \/ Turn(p) \/ Store(p)
    BY <2>1 DEF Report, Sync, Diagnosis, DiagnosisSucceeds, DiagnosisFails, Turn, Store, queries
  <2>2. CASE Tick
    BY <2>2 DEF Tick, queries
  <2>3. CASE \E t \in Thread : Query(t) \/ AllAsked(t) \/ Timeout(t)
    BY <2>3 DEF Query, AllAsked, Timeout, Over
  <2>4. ASSUME NEW t \in Thread, NEW p \in Peer, Answer(t, p) \/ Refuse(t, p) PROVE Kept
    BY <2>4 DEF Answer, Refuse
  <2>5. ASSUME NEW t \in Thread, NEW p \in Peer, Ask(t, p) PROVE Kept
    <3>1. CASE p \in discovered
      <4>1. ~Cooling(p)
        BY <3>1 DEF ListedClean, Cooling
      <4> QED
        BY <2>5, <3>1, <4>1 DEF Ask
    <3>2. CASE p \notin discovered
      BY <2>5, <3>2 DEF Ask
    <3> QED
      BY <3>1, <3>2
  <2> QED
    BY <2>1, <2>2, <2>3, <2>4, <2>5 DEF Next
<1> QED
  BY <1>1, InvHolds, PTL DEF Spec, CooldownRespected
=============================================================================

------------------------------ MODULE PeerTable ------------------------------
(***************************************************************************)
(* The peers the libp2p node knows (discovered_peers, tested_peers and     *)
(* failed_peers of p2p_libp2p.py) under the tasks that share them: reports *)
(* and the peerstore sync, diagnostic checks, and the queries that HTTP    *)
(* threads have the node make.                                             *)
(*                                                                         *)
(* All of them run in the one Trio thread and give way to each other where *)
(* they await, so an action is what a task does between two awaits.        *)
(*                                                                         *)
(* failed_peers holds the time of a failure; here it is the time that is   *)
(* left of the cooldown, None without a failure, 0 when it is over.        *)
(***************************************************************************)
EXTENDS Integers, FiniteSets

CONSTANTS
  Peer,         \* the other nodes
  Thread,       \* HTTP threads that query peers
  Cooldown,     \* peer_failure_cooldown, in ticks
  MaxParallel,  \* max_parallel_peers
  MaxDiags,     \* diagnostic checks of one peer are counted up to here
  None          \* no failure

ASSUME ConstantsAssumption ==
  /\ Cooldown \in Nat \ {0} /\ MaxDiags \in Nat \ {0}
  /\ None \notin Nat

VARIABLES
  up,          \* the peers that are reachable and pass every check
  stored,      \* the peers of which libp2p's peerstore holds addresses
  discovered,  \* discovered_peers
  tested,      \* tested_peers
  cool,        \* failed_peers
  diags,       \* the diagnostic checks of each peer that are running
  running,     \* the threads whose query runs
  waiting,     \* per query: the peers whose task waits for the limiter
  asking,      \* per query: the peers it is connecting to or has asked
  suspect,     \* history: peers that failed and were not checked since
  offers       \* history: changes with every offer of a peer to the table

network == <<up, stored>>
table == <<discovered, tested, cool, diags, suspect>>
queries == <<running, waiting, asking>>
vars == <<network, table, queries, offers>>

Init ==
  /\ up \in SUBSET Peer /\ stored = {}
  /\ discovered = {} /\ tested = {}
  /\ cool = [p \in Peer |-> None]
  /\ diags = [p \in Peer |-> 0]
  /\ running = {}
  /\ waiting = [t \in Thread |-> {}] /\ asking = [t \in Thread |-> {}]
  /\ suspect = {} /\ offers = FALSE

-----------------------------------------------------------------------------
(* Discovery. *)

Cooling(p) == cool[p] # None /\ cool[p] # 0

\* The peer is listed; a peer that counts as untested is checked.
List(p, untested) ==
  /\ cool' = [cool EXCEPT ![p] = None]
  /\ discovered' = discovered \cup {p}
  /\ IF untested
     THEN /\ tested' = tested \cup {p}
          /\ diags' = [diags EXCEPT ![p] = IF @ < MaxDiags THEN @ + 1 ELSE @]
          /\ suspect' = suspect \ {p}
     ELSE UNCHANGED <<tested, diags, suspect>>

\* MUTANT: a peer that was tested once is not tested again.
DiscoverTrusting(p) ==
  /\ offers' = ~offers
  /\ IF Cooling(p) THEN UNCHANGED table ELSE List(p, p \notin tested)

\* MUTANT: a failure is never over.
DiscoverUnforgiving(p) ==
  /\ offers' = ~offers
  /\ IF cool[p] # None THEN UNCHANGED table ELSE List(p, p \notin tested)

\* _on_peer_discovered_async: nothing in the cooldown; when the cooldown is
\* over the peer counts as untested.
Discover(p) ==
  /\ offers' = ~offers
  /\ IF Cooling(p) THEN UNCHANGED table ELSE List(p, p \notin tested \/ cool[p] = 0)

\* mDNS reports a peer, whether it still runs or not.
Report(p) == Discover(p) /\ UNCHANGED <<network, queries>>

\* sync_peerstore_peers, and a query by the peer itself: a peer that is not in
\* the table, if the peerstore has an address of it.  A round of the sync that
\* ends with an exception passes over the peers that are left.
Sync(p) ==
  /\ p \in stored /\ p \notin discovered
  /\ Discover(p)
  /\ UNCHANGED <<network, queries>>

\* failed_peers[p] = time.time(); remove_peer(p, keep_cooldown=True)
Failed(p) ==
  /\ cool' = [cool EXCEPT ![p] = Cooldown]
  /\ discovered' = discovered \ {p}
  /\ suspect' = suspect \cup {p}
  /\ UNCHANGED tested

-----------------------------------------------------------------------------
(* Diagnostic checks. *)

\* A running check ends; MaxDiags stands for that many or more.
Ends(p) ==
  /\ diags[p] > 0
  /\ \E n \in {diags[p] - 1} \cup (IF diags[p] = MaxDiags THEN {MaxDiags} ELSE {}) :
       diags' = [diags EXCEPT ![p] = n]

DiagnosisSucceeds(p) ==
  /\ p \in up /\ Ends(p)
  /\ cool' = [cool EXCEPT ![p] = None]
  /\ suspect' = suspect \ {p}
  /\ UNCHANGED <<network, discovered, tested, queries, offers>>

\* No connection, a bad answer, or three downloads failed.
DiagnosisFails(p) ==
  /\ p \notin up /\ Ends(p)
  /\ Failed(p)
  /\ UNCHANGED <<network, queries, offers>>

-----------------------------------------------------------------------------
(* Queries: query_peers_for_package. *)

\* The peers to ask are copied when the query starts.
Query(t) ==
  /\ t \notin running
  /\ running' = running \cup {t}
  /\ waiting' = [waiting EXCEPT ![t] = discovered]
  /\ UNCHANGED <<network, table, asking, offers>>

\* MUTANT: the peer is taken from the copy.
AskCopied(t, p) ==
  /\ p \in waiting[t] /\ Cardinality(asking[t]) < MaxParallel
  /\ waiting' = [waiting EXCEPT ![t] = @ \ {p}]
  /\ asking' = [asking EXCEPT ![t] = @ \cup {p}]
  /\ UNCHANGED <<network, table, running, offers>>

\* The task of a peer gets the limiter; it ends at once when the peer has
\* left the table since.
Ask(t, p) ==
  /\ p \in waiting[t] /\ Cardinality(asking[t]) < MaxParallel
  /\ waiting' = [waiting EXCEPT ![t] = @ \ {p}]
  /\ asking' = IF p \in discovered THEN [asking EXCEPT ![t] = @ \cup {p}] ELSE asking
  /\ UNCHANGED <<network, table, running, offers>>

\* The peer has the package or not, or refuses to say.
Answer(t, p) ==
  /\ p \in asking[t] /\ p \in up
  /\ asking' = [asking EXCEPT ![t] = @ \ {p}]
  /\ UNCHANGED <<network, table, running, waiting, offers>>

\* No connection, or an exception of the request.
Refuse(t, p) ==
  /\ p \in asking[t] /\ p \notin up
  /\ asking' = [asking EXCEPT ![t] = @ \ {p}]
  /\ Failed(p)
  /\ UNCHANGED <<network, diags, running, waiting, offers>>

\* MUTANT: the peers it was asking are left behind.
OverHalf(t) ==
  /\ running' = running \ {t}
  /\ waiting' = [waiting EXCEPT ![t] = {}]
  /\ UNCHANGED <<network, table, asking, offers>>

Over(t) ==
  /\ running' = running \ {t}
  /\ waiting' = [waiting EXCEPT ![t] = {}]
  /\ asking' = [asking EXCEPT ![t] = {}]
  /\ UNCHANGED <<network, table, offers>>

AllAsked(t) == t \in running /\ waiting[t] = {} /\ asking[t] = {} /\ Over(t)

\* move_on_after(peer_discovery_timeout) cancels the tasks; a cancelled task
\* does not mark its peer.
Timeout(t) == t \in running /\ Over(t)

-----------------------------------------------------------------------------

\* Time goes by, for every cooldown.
Tick ==
  /\ \E p \in Peer : Cooling(p)
  /\ cool' = [p \in Peer |-> IF Cooling(p) THEN cool[p] - 1 ELSE cool[p]]
  /\ UNCHANGED <<network, discovered, tested, diags, suspect, queries, offers>>

Toggled(S, p) == IF p \in S THEN S \ {p} ELSE S \cup {p}

\* A peer comes or goes.
Turn(p) ==
  /\ up' = Toggled(up, p)
  /\ UNCHANGED <<stored, table, queries, offers>>

\* mDNS and connections bring addresses to the peerstore, which expire.
Store(p) ==
  /\ stored' = Toggled(stored, p)
  /\ UNCHANGED <<up, table, queries, offers>>

Diagnosis(p) == DiagnosisSucceeds(p) \/ DiagnosisFails(p)

Next ==
  \/ \E p \in Peer : Report(p) \/ Sync(p) \/ Diagnosis(p) \/ Turn(p) \/ Store(p)
  \/ \E t \in Thread : Query(t) \/ AllAsked(t) \/ Timeout(t)
  \/ \E t \in Thread, p \in Peer : Ask(t, p) \/ Answer(t, p) \/ Refuse(t, p)
  \/ Tick

\* Time goes by.  Nothing is assumed of reports, addresses, syncs or answers: a
\* connection or a check may take for ever.
Spec == Init /\ [][Next]_vars /\ WF_vars(Tick)

-----------------------------------------------------------------------------
(* Properties *)

TypeOK ==
  /\ up \subseteq Peer /\ stored \subseteq Peer /\ offers \in BOOLEAN
  /\ discovered \subseteq Peer /\ tested \subseteq Peer
  /\ cool \in [Peer -> 0 .. Cooldown \cup {None}]
  /\ diags \in [Peer -> 0 .. MaxDiags]
  /\ running \subseteq Thread
  /\ waiting \in [Thread -> SUBSET Peer] /\ asking \in [Thread -> SUBSET Peer]
  /\ \A t \in Thread \ running : waiting[t] = {} /\ asking[t] = {}
  /\ suspect \subseteq Peer

\* A peer in the table has been checked, or is being checked, since a query or
\* a check found it failing: nothing brings it back unexamined.
ExaminedSinceFailure == discovered \cap suspect = {}

\* A query never turns to a peer that is in its failure cooldown, although it
\* works through a copy of the table while others remove peers from it.
CooldownRespected ==
  [][\A t \in Thread : \A p \in asking'[t] \ asking[t] : ~Cooling(p)]_vars

\* A peer that is up for good is in the table for good, whatever failures of
\* the past are still recorded, counting down or being found out, as long as it
\* does not stay away from the table with no offer of it coming any more.
Offer(p) == Report(p) \/ Sync(p)
Recovers ==
  \A p \in Peer :
    <>[](p \in up) /\ ([]<>(p \in discovered) \/ []<><<Offer(p)>>_vars)
      => <>[](p \in discovered)
=============================================================================

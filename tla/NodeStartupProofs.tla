--------------------------- MODULE NodeStartupProofs ---------------------------
(***************************************************************************)
(* Safety of the start of the libp2p node for any number of threads that   *)
(* report peers, any reports and any failure of the loop.                  *)
(*                                                                         *)
(* NothingStranded rests on the order of two steps (the nursery is set     *)
(* before the queue is copied) and on the lock: a thread that saw no       *)
(* nursery and is about to queue its report (Queueing) holds the lock      *)
(* (Locked), so the copy cannot be made under it.                          *)
(***************************************************************************)
EXTENDS NodeStartup, FiniteSetTheorems, TLAPS

Locked == \A l \in Listener : at[l] \in {"test", "queue", "call"} => lock = l
NurseryFirst == loop \in {"drain", "spawn", "running", "closing"} => nursery
Queueing == loop \in {"spawn", "running", "closing"} => \A l \in Listener : at[l] # "queue"

Inv == TypeOK /\ NothingStranded /\ Locked /\ NurseryFirst /\ Queueing

LEMMA InvInit == Init => Inv
<1> SUFFICES ASSUME Init PROVE Inv
  OBVIOUS
<1> QED
  BY DEF Init, Inv, TypeOK, NothingStranded, Locked, NurseryFirst, Queueing

\* The steps of the main thread, and of the loop but for its start.
LEMMA LoopInv ==
  ASSUME Inv, Main \/ Stop \/ Loop \/ Crash
  PROVE  Inv'
<1> USE NoneAssumption
<1>1. UNCHANGED threadVars
  BY DEF Main, Stop, Loop, Crash, Start, Ready, StartTimesOut, Cancel, Join, SetUp,
     SetNursery, Drain, Spawn, Unwind
<1>2. Locked'
  BY <1>1 DEF Inv, Locked, threadVars
<1>3. CASE Main \/ Stop
  <2>1. UNCHANGED <<event, nursery, pending, batch, tasks>>
    BY <1>3 DEF Main, Stop, Start, Ready, StartTimesOut, Cancel, Join
  <2>2. loop' \in {"setup", "closing", loop} /\ (loop' = "closing" => loop \in {"running", "closing"})
    BY <1>3 DEF Main, Stop, Start, Ready, StartTimesOut, Cancel, Join
  <2>3. main' \in {"waiting", "up", "failed", "cancelling", "joining", "stopped"}
    BY <1>3 DEF Main, Stop, Start, Ready, StartTimesOut, Cancel, Join
  <2>4. TypeOK'
    BY <1>1, <2>1, <2>2, <2>3 DEF Inv, TypeOK, threadVars
  <2> QED
    BY <1>1, <1>2, <2>1, <2>2, <2>4 DEF Inv, NothingStranded, NurseryFirst, Queueing, threadVars
<1>4. CASE SetUp \/ Unwind \/ Crash
  <2>1. UNCHANGED <<main, event, nursery, pending, batch, tasks>> /\ loop' \in {"open", "dead"}
    BY <1>4 DEF SetUp, Unwind, Crash
  <2>2. TypeOK'
    BY <1>1, <2>1 DEF Inv, TypeOK, threadVars
  <2> QED
    BY <1>2, <2>1, <2>2 DEF Inv, NothingStranded, NurseryFirst, Queueing
<1>5. CASE SetNursery
  <2>1. TypeOK'
    BY <1>1, <1>5 DEF Inv, TypeOK, SetNursery, threadVars
  <2> QED
    BY <1>2, <1>5, <2>1 DEF Inv, NothingStranded, NurseryFirst, Queueing, SetNursery
<1>6. CASE Drain
  <2>1. TypeOK'
    BY <1>1, <1>6 DEF Inv, TypeOK, Drain, threadVars
  <2>2. \A l \in Listener : at[l] # "queue"
    BY <1>6 DEF Inv, Locked, Drain
  <2> QED
    BY <1>1, <1>2, <1>6, <2>1, <2>2
    DEF Inv, NothingStranded, NurseryFirst, Queueing, Drain, threadVars
<1>7. CASE Spawn
  <2>1. tasks' \in [Report -> Nat]
    BY <1>7 DEF Inv, TypeOK, Spawn
  <2>2. TypeOK'
    BY <1>1, <1>7, <2>1 DEF Inv, TypeOK, Spawn, threadVars
  <2> QED
    BY <1>1, <1>2, <1>7, <2>2
    DEF Inv, NothingStranded, NurseryFirst, Queueing, Spawn, threadVars
<1> QED
  BY <1>3, <1>4, <1>5, <1>6, <1>7 DEF Loop

\* The steps of a thread that reports a peer.
LEMMA ListenerInv ==
  ASSUME Inv, NEW l \in Listener, Discover(l) \/ Handle(l)
  PROVE  Inv'
<1> USE NoneAssumption
<1>1. UNCHANGED <<main, loop, event, nursery, batch>>
  BY DEF Discover, Handle, Enter, Test, Queue, Call
<1>2. CASE Discover(l)
  <2>1. PICK r \in coming : report' = [report EXCEPT ![l] = r] /\ coming' = coming \ {r}
    BY <1>2 DEF Discover
  <2>2. at' = [at EXCEPT ![l] = "enter"] /\ UNCHANGED <<lock, pending, tasks>>
    BY <1>2 DEF Discover
  <2>3. r \in Report /\ r # None
    BY <2>1 DEF Inv, TypeOK
  <2>4. TypeOK'
    BY <1>1, <2>1, <2>2, <2>3 DEF Inv, TypeOK
  <2> QED
    BY <1>1, <2>2, <2>4 DEF Inv, TypeOK, NothingStranded, Locked, NurseryFirst, Queueing
<1>3. CASE Enter(l)
  <2>1. TypeOK'
    BY <1>1, <1>3 DEF Inv, TypeOK, Enter
  <2>2. Locked'
    BY <1>3 DEF Inv, TypeOK, Locked, Enter
  <2> QED
    BY <1>1, <1>3, <2>1, <2>2 DEF Inv, TypeOK, NothingStranded, NurseryFirst, Queueing, Enter
<1>4. CASE Test(l)
  <2>1. TypeOK'
    BY <1>1, <1>4 DEF Inv, TypeOK, Test
  <2>2. Locked'
    BY <1>4 DEF Inv, TypeOK, Locked, Test
  <2> QED
    BY <1>1, <1>4, <2>1, <2>2 DEF Inv, TypeOK, NothingStranded, NurseryFirst, Queueing, Test
<1>5. CASE Queue(l) \/ Call(l)
  <2>1. at[l] \in {"queue", "call"} /\ Leave(l)
    BY <1>5 DEF Queue, Call
  <2>2. report[l] \in Report
    BY <2>1 DEF Inv, TypeOK
  <2>3. tasks' \in [Report -> Nat]
    BY <1>5, <2>2 DEF Inv, TypeOK, Queue, Call
  <2>4. pending' = pending \/ (loop \notin {"spawn", "running", "closing"} /\ pending' = pending \cup {report[l]})
    BY <1>5 DEF Inv, Queueing, Queue, Call
  <2>5. TypeOK'
    BY <1>1, <2>1, <2>2, <2>3, <2>4 DEF Inv, TypeOK, Leave
  <2>6. Locked'
    BY <2>1 DEF Inv, TypeOK, Locked, Leave
  <2> QED
    BY <1>1, <2>1, <2>4, <2>5, <2>6 DEF Inv, TypeOK, NothingStranded, NurseryFirst, Queueing, Leave
<1> QED
  BY <1>2, <1>3, <1>4, <1>5 DEF Handle

LEMMA InvNext == Inv /\ [Next]_vars => Inv'
<1> SUFFICES ASSUME Inv, [Next]_vars PROVE Inv'
  OBVIOUS
<1>1. CASE Main \/ Stop \/ Loop \/ Crash
  BY <1>1, LoopInv
<1>2. CASE \E l \in Listener : Discover(l) \/ Handle(l)
  BY <1>2, ListenerInv
<1>3. CASE UNCHANGED vars
  BY <1>3 DEF vars, Inv, TypeOK, NothingStranded, Locked, NurseryFirst, Queueing
<1> QED
  BY <1>1, <1>2, <1>3 DEF Next, Ended

\* The strengthened invariant of the start of the node.
THEOREM InvHolds == Spec => []Inv
<1> QED
  BY InvInit, InvNext, PTL DEF Spec

\* The variables of the node keep their types.
THEOREM TypeCorrect == Spec => []TypeOK
<1>1. Inv => TypeOK
  BY DEF Inv
<1> QED
  BY <1>1, InvHolds, PTL

\* No report of a peer stays in _pending_peer_discoveries after the loop has
\* drained it, whatever moment mDNS reports a peer at.
THEOREM NeverStranded == Spec => []NothingStranded
<1>1. Inv => NothingStranded
  BY DEF Inv
<1> QED
  BY <1>1, InvHolds, PTL

-----------------------------------------------------------------------------
(* A report is in one place only: not made, with one listener, queued, in  *)
(* the copy, or with the nursery.                                          *)

Placed(r) ==
  /\ \A l, k \in Listener : report[l] = r /\ report[k] = r => l = k
  /\ r \in coming => \A l \in Listener : report[l] # r
  /\ r \in coming \/ (\E l \in Listener : report[l] = r) =>
       r \notin pending /\ r \notin batch /\ tasks[r] = 0
  /\ r \in pending => r \notin batch /\ tasks[r] = 0
  /\ r \in batch => tasks[r] = 0
  /\ tasks[r] <= 1

AllPlaced == \A r \in Report : Placed(r)

LEMMA PlacedInit == Init => AllPlaced
BY NoneAssumption DEF Init, AllPlaced, Placed

LEMMA PlacedLoop ==
  ASSUME TypeOK, AllPlaced, Main \/ Stop \/ Loop \/ Crash
  PROVE  AllPlaced'
<1>1. UNCHANGED threadVars
  BY DEF Main, Stop, Loop, Crash, Start, Ready, StartTimesOut, Cancel, Join, SetUp,
     SetNursery, Drain, Spawn, Unwind
<1>2. CASE Drain
  BY <1>1, <1>2 DEF Drain, AllPlaced, Placed, threadVars
<1>3. CASE Spawn
  <2> SUFFICES ASSUME NEW r \in Report PROVE Placed(r)'
    BY DEF AllPlaced
  <2>1. /\ batch' = {} /\ UNCHANGED pending
        /\ tasks'[r] = IF r \in batch THEN tasks[r] + 1 ELSE tasks[r]
    BY <1>3 DEF Spawn
  <2>2. Placed(r) /\ tasks[r] \in Nat
    BY DEF AllPlaced, TypeOK
  <2> QED
    BY <1>1, <2>1, <2>2 DEF Placed, threadVars
<1>4. CASE UNCHANGED <<pending, batch, tasks>>
  BY <1>1, <1>4 DEF AllPlaced, Placed, threadVars
<1> QED
  BY <1>2, <1>3, <1>4 DEF Main, Stop, Loop, Crash, Start, Ready, StartTimesOut, Cancel, Join,
     SetUp, SetNursery, Unwind

LEMMA PlacedListener ==
  ASSUME TypeOK, AllPlaced, NEW l \in Listener, Discover(l) \/ Handle(l)
  PROVE  AllPlaced'
<1> SUFFICES ASSUME NEW r \in Report PROVE Placed(r)'
  BY DEF AllPlaced
<1>1. Placed(r) /\ tasks[r] \in Nat /\ UNCHANGED batch
  BY DEF AllPlaced, TypeOK, Discover, Handle, Enter, Test, Queue, Call
<1>2. CASE Discover(l)
  <2>1. PICK n \in coming : report' = [report EXCEPT ![l] = n] /\ coming' = coming \ {n}
    BY <1>2 DEF Discover
  <2>2. UNCHANGED <<pending, tasks>>
    BY <1>2 DEF Discover
  <2>3. report'[l] = n /\ \A k \in Listener \ {l} : report'[k] = report[k]
    BY <2>1 DEF TypeOK
  <2>4. CASE r = n
    BY <1>1, <2>1, <2>2, <2>3, <2>4 DEF Placed
  <2>5. CASE r # n
    BY <1>1, <2>1, <2>2, <2>3, <2>5 DEF Placed
  <2> QED
    BY <2>4, <2>5
<1>3. CASE Enter(l) \/ Test(l)
  BY <1>1, <1>3 DEF Enter, Test, Placed
<1>4. CASE Queue(l) \/ Call(l)
  <2>1. at[l] \in {"queue", "call"} /\ Leave(l)
    BY <1>4 DEF Queue, Call
  <2>2. report[l] \in Report
    BY <2>1 DEF TypeOK
  <2>3. /\ report'[l] = None /\ UNCHANGED coming
        /\ \A k \in Listener \ {l} : report'[k] = report[k]
    BY <2>1 DEF Leave, TypeOK
  <2>4. \/ pending' = pending \cup {report[l]} /\ UNCHANGED tasks
        \/ UNCHANGED <<pending, tasks>>
        \/ UNCHANGED pending /\ tasks' = [tasks EXCEPT ![report[l]] = @ + 1]
    BY <1>4 DEF Queue, Call
  <2>5. CASE r # report[l]
    <3>1. (r \in pending' <=> r \in pending) /\ tasks'[r] = tasks[r]
      BY <2>2, <2>4, <2>5 DEF TypeOK
    <3> QED
      BY <1>1, <2>3, <3>1, NoneAssumption DEF Placed
  <2>6. CASE r = report[l]
    <3>1. \A k \in Listener : report'[k] # r
      BY <1>1, <2>3, <2>6, NoneAssumption DEF Placed
    <3>2. r \notin coming /\ r \notin pending /\ r \notin batch /\ tasks[r] = 0
      BY <1>1, <2>6 DEF Placed
    <3>3. \/ r \in pending' /\ tasks'[r] = 0
          \/ r \notin pending' /\ tasks'[r] \in 0 .. 1
      BY <2>2, <2>4, <2>6, <3>2 DEF TypeOK
    <3> QED
      BY <1>1, <2>3, <3>1, <3>2, <3>3 DEF Placed
  <2> QED
    BY <2>5, <2>6
<1> QED
  BY <1>2, <1>3, <1>4 DEF Handle

LEMMA PlacedNext == TypeOK /\ AllPlaced /\ [Next]_vars => AllPlaced'
<1> SUFFICES ASSUME TypeOK, AllPlaced, [Next]_vars PROVE AllPlaced'
  OBVIOUS
<1>1. CASE Main \/ Stop \/ Loop \/ Crash
  BY <1>1, PlacedLoop
<1>2. CASE \E l \in Listener : Discover(l) \/ Handle(l)
  BY <1>2, PlacedListener
<1>3. CASE UNCHANGED vars
  BY <1>3 DEF vars, AllPlaced, Placed
<1> QED
  BY <1>1, <1>2, <1>3 DEF Next, Ended

LEMMA PlacedOnce == TypeOK /\ AllPlaced => HandledOnce
<1> SUFFICES ASSUME TypeOK, AllPlaced, NEW r \in Report
             PROVE  Cardinality({l \in Listener : report[l] = r})
                      + (IF r \in coming THEN 1 ELSE 0) + (IF r \in pending THEN 1 ELSE 0)
                      + (IF r \in batch THEN 1 ELSE 0) + tasks[r] <= 1
  BY DEF HandledOnce
<1>1. Placed(r) /\ tasks[r] \in Nat
  BY DEF AllPlaced, TypeOK
<1>2. CASE \A l \in Listener : report[l] # r
  <2>1. Cardinality({l \in Listener : report[l] = r}) = 0
    <3>1. {l \in Listener : report[l] = r} = {}
      BY <1>2
    <3> QED
      BY <3>1, FS_EmptySet
  <2> QED
    BY <1>1, <2>1 DEF Placed
<1>3. CASE \E l \in Listener : report[l] = r
  <2>1. PICK l \in Listener : report[l] = r
    BY <1>3
  <2>2. {k \in Listener : report[k] = r} = {l}
    BY <1>1, <2>1 DEF Placed
  <2>3. Cardinality({k \in Listener : report[k] = r}) = 1
    BY <2>2, FS_Singleton
  <2> QED
    BY <1>1, <1>3, <2>3 DEF Placed
<1> QED
  BY <1>2, <1>3

\* A report of a peer is given to the nursery once at most, whatever threads
\* report it while the loop copies the queue.
THEOREM OncePerReport == Spec => []HandledOnce
BY TypeCorrect, PlacedInit, PlacedNext, PlacedOnce, PTL DEF Spec
=============================================================================

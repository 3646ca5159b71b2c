----------------------------- MODULE NodeStartup -----------------------------
(***************************************************************************)
(* The start and the stop of the libp2p node (P2PLibp2pNode.start, stop,   *)
(* _run_loop and _async_run of p2p_libp2p.py).                             *)
(*                                                                         *)
(* Three kinds of threads meet: the main thread of the proxy, the thread   *)
(* that runs the Trio loop, and the threads in which mDNS reports a peer   *)
(* (on_peer_discovery).  A report that comes before the loop has a nursery *)
(* is queued; a later one is handed to the loop, and its thread waits for  *)
(* the loop to take it.  _pending_lock protects the queue.                 *)
(*                                                                         *)
(* What the loop does with a report is not part of this module: tasks      *)
(* counts the times _on_peer_discovered_async was started for it.          *)
(***************************************************************************)
EXTENDS Naturals, FiniteSets

CONSTANTS
  Listener,  \* threads that report peers
  Report,    \* reports of peers
  Crashes,   \* TRUE: the loop may end with an exception
  None       \* no thread, no report

ASSUME NoneAssumption == None \notin Listener /\ None \notin Report

VARIABLES
  main,     \* what the main thread is doing
  loop,     \* where the Trio thread is in _async_run
  event,    \* _started_event
  nursery,  \* self.nursery is set
  lock,     \* who has _pending_lock, or None
  pending,  \* _pending_peer_discoveries
  batch,    \* the local copy of pending that the loop works off
  at,       \* where each listener is in on_peer_discovery
  report,   \* the report each listener is handling, or None
  coming,   \* reports that mDNS has not made yet
  tasks     \* how often each report was given to the nursery

vars == <<main, loop, event, nursery, lock, pending, batch, at, report, coming, tasks>>
threadVars == <<lock, at, report, coming>>

Init ==
  /\ main = "new" /\ loop = "off"
  /\ event = FALSE /\ nursery = FALSE /\ lock = None
  /\ pending = {} /\ batch = {}
  /\ at = [l \in Listener |-> "idle"]
  /\ report = [l \in Listener |-> None]
  /\ coming = Report
  /\ tasks = [r \in Report |-> 0]

\* A start that fails ends the process, and so does the end of stop.
Alive == main \notin {"failed", "stopped"}

-----------------------------------------------------------------------------
(* The main thread. *)

Start ==
  /\ main = "new"
  /\ main' = "waiting" /\ loop' = "setup"
  /\ UNCHANGED <<event, nursery, pending, batch, tasks, threadVars>>

Ready ==
  /\ main = "waiting" /\ event
  /\ main' = "up"
  /\ UNCHANGED <<loop, event, nursery, pending, batch, tasks, threadVars>>

\* The loop waits for a lock whose holder waits for the loop.
Stuck == loop = "drain" /\ lock # None /\ at[lock] = "call"

\* _started_event.wait(timeout=15).  A loop that can move is ready in time.
StartTimesOut ==
  /\ main = "waiting" /\ ~event
  /\ Stuck \/ loop = "dead"
  /\ main' = "failed"
  /\ UNCHANGED <<loop, event, nursery, pending, batch, tasks, threadVars>>

Stop ==
  /\ main = "up"
  /\ main' = "cancelling"
  /\ UNCHANGED <<loop, event, nursery, pending, batch, tasks, threadVars>>

\* MUTANT: only a loop that runs ends the wait.
CancelRunning ==
  /\ main = "cancelling" /\ loop = "running"
  /\ main' = "joining" /\ loop' = "closing"
  /\ UNCHANGED <<event, nursery, pending, batch, tasks, threadVars>>

\* trio.from_thread.run_sync(cancel): waits for the loop, with no timeout, and
\* raises when the loop has ended.
Cancel ==
  /\ main = "cancelling"
  /\ \/ loop = "running" /\ loop' = "closing"
     \/ loop = "dead" /\ UNCHANGED loop
  /\ main' = "joining"
  /\ UNCHANGED <<event, nursery, pending, batch, tasks, threadVars>>

\* _thread.join(timeout=5.0), then the process ends.
Join ==
  /\ main = "joining"
  /\ main' = "stopped"
  /\ UNCHANGED <<loop, event, nursery, pending, batch, tasks, threadVars>>

-----------------------------------------------------------------------------
(* The Trio thread.  From the nursery on it does not give way to another task
   until it sleeps at the end, so it serves no call before it is running. *)

\* The handler is registered and host.run starts mDNS.
SetUp ==
  /\ Alive /\ loop = "setup"
  /\ loop' = "open"
  /\ UNCHANGED <<main, event, nursery, pending, batch, tasks, threadVars>>

SetNursery ==
  /\ Alive /\ loop = "open"
  /\ loop' = "drain" /\ nursery' = TRUE
  /\ UNCHANGED <<main, event, pending, batch, tasks, threadVars>>

\* MUTANT: the queue is copied without the lock.
DrainUnlocked ==
  /\ Alive /\ loop = "drain"
  /\ loop' = "spawn" /\ batch' = pending /\ pending' = {}
  /\ UNCHANGED <<main, event, nursery, tasks, threadVars>>

\* MUTANT: the queue is copied and not cleared.
DrainTwice ==
  /\ Alive /\ loop = "drain" /\ lock = None
  /\ loop' = "spawn" /\ batch' = pending
  /\ UNCHANGED <<main, event, nursery, pending, tasks, threadVars>>

Drain ==
  /\ Alive /\ loop = "drain" /\ lock = None
  /\ loop' = "spawn" /\ batch' = pending /\ pending' = {}
  /\ UNCHANGED <<main, event, nursery, tasks, threadVars>>

\* MUTANT: the copy is forgotten.
SpawnNothing ==
  /\ Alive /\ loop = "spawn"
  /\ loop' = "running" /\ event' = TRUE /\ batch' = {}
  /\ UNCHANGED <<main, nursery, pending, tasks, threadVars>>

\* nursery.start_soon for each report of the copy; _started_event.set().
Spawn ==
  /\ Alive /\ loop = "spawn"
  /\ loop' = "running" /\ event' = TRUE /\ batch' = {}
  /\ tasks' = [r \in Report |-> IF r \in batch THEN tasks[r] + 1 ELSE tasks[r]]
  /\ UNCHANGED <<main, nursery, pending, threadVars>>

\* An exception in the setup or in a task ends the loop; _run_loop logs it.
Crash ==
  /\ Alive /\ Crashes /\ loop \in {"setup", "open", "running"}
  /\ loop' = "dead"
  /\ UNCHANGED <<main, event, nursery, pending, batch, tasks, threadVars>>

\* The cancelled scope unwinds.
Unwind ==
  /\ Alive /\ loop = "closing"
  /\ loop' = "dead"
  /\ UNCHANGED <<main, event, nursery, pending, batch, tasks, threadVars>>

-----------------------------------------------------------------------------
(* The threads of mDNS: on_peer_discovery. *)

Discover(l) ==
  /\ Alive /\ loop \notin {"off", "setup"} /\ at[l] = "idle"
  /\ \E r \in coming :
       /\ report' = [report EXCEPT ![l] = r]
       /\ coming' = coming \ {r}
  /\ at' = [at EXCEPT ![l] = "enter"]
  /\ UNCHANGED <<main, loop, event, nursery, lock, pending, batch, tasks>>

Enter(l) ==
  /\ Alive /\ at[l] = "enter" /\ lock = None
  /\ lock' = l
  /\ at' = [at EXCEPT ![l] = "test"]
  /\ UNCHANGED <<main, loop, event, nursery, pending, batch, report, coming, tasks>>

\* if self.trio_token and self.nursery
Test(l) ==
  /\ Alive /\ at[l] = "test"
  /\ at' = [at EXCEPT ![l] = IF nursery THEN "call" ELSE "queue"]
  /\ UNCHANGED <<main, loop, event, nursery, lock, pending, batch, report, coming, tasks>>

\* MUTANT: the thread goes on with the report it had.
LeaveHalf(l) ==
  /\ lock' = None
  /\ at' = [at EXCEPT ![l] = "idle"]
  /\ UNCHANGED <<report, coming>>

\* The end of on_peer_discovery: the lock is released.
Leave(l) ==
  /\ lock' = None
  /\ at' = [at EXCEPT ![l] = "idle"]
  /\ report' = [report EXCEPT ![l] = None]
  /\ UNCHANGED coming

Queue(l) ==
  /\ Alive /\ at[l] = "queue"
  /\ pending' = pending \cup {report[l]}
  /\ Leave(l)
  /\ UNCHANGED <<main, loop, event, nursery, batch, tasks>>

\* trio.from_thread.run_sync: the loop takes the call, or the call raises
\* because the nursery is closed or the loop has ended.
Call(l) ==
  /\ Alive /\ at[l] = "call"
  /\ \/ loop = "running" /\ tasks' = [tasks EXCEPT ![report[l]] = @ + 1]
     \/ loop \in {"closing", "dead"} /\ UNCHANGED tasks
  /\ Leave(l)
  /\ UNCHANGED <<main, loop, event, nursery, pending, batch>>

-----------------------------------------------------------------------------

Main == Start \/ Ready \/ StartTimesOut \/ Cancel \/ Join
Loop == SetUp \/ SetNursery \/ Drain \/ Spawn \/ Unwind
Handle(l) == Enter(l) \/ Test(l) \/ Queue(l) \/ Call(l)

\* The process has ended.
Ended == ~Alive /\ UNCHANGED vars

Next == Main \/ Stop \/ Loop \/ Crash \/ (\E l \in Listener : Discover(l) \/ Handle(l)) \/ Ended

\* Threads keep running; a lock that is free again and again is got at last.
Spec ==
  /\ Init /\ [][Next]_vars
  /\ WF_vars(Main) /\ SF_vars(Loop)
  /\ \A l \in Listener : SF_vars(Handle(l))

-----------------------------------------------------------------------------
(* Properties *)

TypeOK ==
  /\ main \in {"new", "waiting", "up", "failed", "cancelling", "joining", "stopped"}
  /\ loop \in {"off", "setup", "open", "drain", "spawn", "running", "closing", "dead"}
  /\ event \in BOOLEAN /\ nursery \in BOOLEAN
  /\ lock \in Listener \cup {None}
  /\ pending \subseteq Report /\ batch \subseteq Report /\ coming \subseteq Report
  /\ at \in [Listener -> {"idle", "enter", "test", "queue", "call"}]
  /\ report \in [Listener -> Report \cup {None}]
  /\ \A l \in Listener : report[l] = None <=> at[l] = "idle"
  /\ tasks \in [Report -> Nat]

\* No report is queued that nobody will look at: once the loop has worked off
\* the queue, the queue stays empty, whatever moment a report comes at.
NothingStranded == loop \in {"spawn", "running", "closing"} => pending = {}

\* A report is handled once: it is not both queued and handed over, nor
\* started twice.
HandledOnce ==
  \A r \in Report :
    Cardinality({l \in Listener : report[l] = r})
      + (IF r \in coming THEN 1 ELSE 0) + (IF r \in pending THEN 1 ELSE 0)
      + (IF r \in batch THEN 1 ELSE 0) + tasks[r] <= 1

\* A peer that is reported is given to the nursery, unless the node ends.
Delivered ==
  \A r \in Report : (r \notin coming /\ Alive) ~> (tasks[r] = 1 \/ loop \in {"closing", "dead"} \/ ~Alive)

\* A stop comes to its end, also when the loop has died before.
StopEnds == main = "cancelling" ~> main = "stopped"

\* The start of the node fails only when its loop has raised.
StartFailsOnError == main = "failed" => loop = "dead"
=============================================================================

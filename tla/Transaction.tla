---------------------------- MODULE Transaction ----------------------------
(***************************************************************************)
(* A dnf transaction from the plugin's point of view (p2p_plugin.py): find *)
(* or start the proxy, route the repositories through it, register the     *)
(* hashes of the packages, download them.  The proxy is here its process,  *)
(* its table of expected hashes (p2p_server.py), which lives in memory     *)
(* only, and its cache, which is PackageStore: what PackageCache is proved *)
(* to implement for the names that are not in doubt.                       *)
(*                                                                         *)
(* Every call of the plugin has a timeout and every failure is swallowed,  *)
(* so the two sides may disagree on what happened: a registration may come *)
(* through after the plugin has given it up, and the proxy may forget all  *)
(* of them in a crash.  When the hooks are called is up to libdnf5.  A dnf *)
(* downloads its packages one by one, and two of them do not download one  *)
(* name at the same time (Exclusive in the README).                        *)
(***************************************************************************)
EXTENDS Integers, FiniteSets

CONSTANTS
  Dnf,    \* dnf processes, one run after the other each
  Name,   \* package file names; the repository of a package is its own
  Hash,   \* contents, each identified by its SHA-256
  None    \* no content, no name, no process

ASSUME NoneIsNothing == None \notin Dnf \cup Name \cup Hash

VARIABLES
  daemon,     \* the service: "stopped", "failed", "booting" or "up"
  expected,   \* expected_hashes of the proxy, None where there is no entry
  registrant, \* history: the process whose current run registered the entry
  posts,      \* registrations that a thread of the proxy has yet to work off
  store,      \* the cache of the proxy: a content under each name, or None
  dnf         \* per process: step, planned packages, and what came of them

vars == <<daemon, expected, registrant, posts, store, dnf>>

Cache == INSTANCE PackageStore WITH claims <- {}

Idle == [pc |-> "idle", plan |-> [n \in Name |-> None], proxied |-> {}, acked |-> {},
         left |-> {}, name |-> None, want |-> None, sure |-> FALSE,
         got |-> [n \in Name |-> None]]

Init ==
  /\ daemon = "stopped"
  /\ expected = [n \in Name |-> None]
  /\ registrant = [n \in Name |-> None]
  /\ posts = {}
  /\ Cache!Init
  /\ dnf = [d \in Dnf |-> Idle]

proxy == <<daemon, expected, registrant, posts, store>>

-----------------------------------------------------------------------------
(* The hooks of the plugin. *)

\* A dnf runs, with the packages that its metadata names and their hashes.
Run(d) ==
  /\ dnf[d].pc = "idle"
  /\ \E plan \in [Name -> Hash] :
       dnf' = [dnf EXCEPT ![d] = [Idle EXCEPT !.pc = "init", !.plan = plan, !.left = Name]]
  /\ posts' = {[m EXCEPT !.by = IF @ = d THEN None ELSE @] : m \in posts}
  /\ registrant' = [n \in Name |-> IF registrant[n] = d THEN None ELSE registrant[n]]
  /\ UNCHANGED <<daemon, expected, store>>

\* init: a root that finds nobody listening has systemd start the service, and
\* does not wait until it listens; the start may also fail.
StartProxy(d) ==
  /\ dnf[d].pc = "init"
  /\ \/ UNCHANGED daemon
     \/ daemon \in {"stopped", "failed"} /\ daemon' = "booting"
  /\ dnf' = [dnf EXCEPT ![d].pc = "repos"]
  /\ UNCHANGED <<expected, registrant, posts, store>>

\* repos_configured: after a pong all remote repositories go through the proxy,
\* or those before the one that raised; without a pong in 0.5 s none does.
ReposConfigured(d) ==
  /\ dnf[d].pc = "repos"
  /\ \E S \in SUBSET Name :
       /\ S # {} => daemon = "up"
       /\ dnf' = [dnf EXCEPT ![d].pc = "ready", ![d].proxied = S]
  /\ UNCHANGED proxy

\* pre_transaction: the hashes of the packages that have a SHA-256 are posted,
\* also when the repositories bypass the proxy.
PreTransaction(d) ==
  /\ dnf[d].pc = "ready"
  /\ \E S \in SUBSET Name :
       IF S # {} /\ daemon = "up"
       THEN /\ posts' = posts \cup {[by |-> d, hashes |-> [n \in S |-> dnf[d].plan[n]]]}
            /\ dnf' = [dnf EXCEPT ![d].pc = "posting"]
       ELSE /\ dnf' = [dnf EXCEPT ![d].pc = "download"]
            /\ UNCHANGED posts
  /\ UNCHANGED <<daemon, expected, registrant, store>>

\* MUTANT: the plugin waits for the answer of the proxy.
PostWaits(d) ==
  /\ dnf[d].pc = "posting" /\ daemon # "up"
  /\ dnf' = [dnf EXCEPT ![d].pc = "download"]
  /\ UNCHANGED proxy

\* No answer in 1.0 s, or the connection breaks: a warning is logged.
PostTimeout(d) ==
  /\ dnf[d].pc = "posting"
  /\ dnf' = [dnf EXCEPT ![d].pc = "download"]
  /\ UNCHANGED proxy

-----------------------------------------------------------------------------
(* The proxy takes a registration. *)

Registered(m) ==
  /\ posts' = posts \ {m}
  /\ \/ UNCHANGED dnf
     \/ /\ m.by # None /\ dnf[m.by].pc = "posting"
        /\ dnf' = [dnf EXCEPT ![m.by].pc = "download", ![m.by].acked = DOMAIN m.hashes]
  /\ UNCHANGED <<daemon, store>>

\* MUTANT: a hash that is registered already is kept.
PostFirstWins(m) ==
  /\ expected' = [n \in Name |-> IF n \in DOMAIN m.hashes /\ expected[n] = None
                                 THEN m.hashes[n] ELSE expected[n]]
  /\ registrant' = [n \in Name |-> IF n \in DOMAIN m.hashes THEN m.by ELSE registrant[n]]
  /\ Registered(m)

\* do_POST: expected_hashes.update(hashes) under its lock, then the answer,
\* which the plugin hears or has ceased to wait for.
Post(m) ==
  /\ expected' = [n \in Name |-> IF n \in DOMAIN m.hashes THEN m.hashes[n] ELSE expected[n]]
  /\ registrant' = [n \in Name |-> IF n \in DOMAIN m.hashes THEN m.by ELSE registrant[n]]
  /\ Registered(m)

-----------------------------------------------------------------------------
(* The downloads. *)

\* Package n is done with, and h came of it.
Received(d, n, h) ==
  LET x == dnf[d] IN
  dnf' = [dnf EXCEPT ![d] = [x EXCEPT !.left = x.left \ {n}, !.name = None, !.want = None,
                                      !.sure = FALSE, !.got[n] = h]]

\* A package of a repository that bypasses the proxy comes from the mirror; with
\* the proxy gone the download fails, for dnf does not go round a proxy.
Direct(d) ==
  /\ dnf[d].pc = "download" /\ dnf[d].name = None
  /\ \E n \in dnf[d].left :
       /\ n \notin dnf[d].proxied \/ daemon # "up"
       /\ Received(d, n, None)
  /\ UNCHANGED proxy

\* do_GET captures the expected hash once, before it looks anywhere.
Get(d) ==
  /\ dnf[d].pc = "download" /\ dnf[d].name = None
  /\ daemon = "up"
  /\ \E n \in dnf[d].left \cap dnf[d].proxied :
       /\ \A e \in Dnf : dnf[e].name # n
       /\ dnf' = [dnf EXCEPT ![d] = [@ EXCEPT !.name = n, !.want = expected[n],
                    !.sure = n \in dnf[d].acked /\ registrant[n] = d]]
  /\ UNCHANGED proxy

\* MUTANT: the cached file is served whatever is expected.
HitAny(d) ==
  LET n == dnf[d].name IN
  /\ n # None /\ store[n] # None
  /\ Received(d, n, store[n])
  /\ UNCHANGED proxy

Hit(d) ==
  LET n == dnf[d].name IN
  /\ n # None /\ store[n] # None
  /\ dnf[d].want \in {None, store[n]}
  /\ Received(d, n, store[n])
  /\ UNCHANGED proxy

\* A cached file with another hash counts as corrupt.
Drop(d) ==
  LET n == dnf[d].name IN
  /\ n # None /\ store[n] # None
  /\ dnf[d].want \notin {None, store[n]}
  /\ Cache!Remove({n})
  /\ UNCHANGED <<daemon, expected, registrant, posts, dnf>>

\* A download from peers or the mirror: what has the expected hash, or what no
\* hash is expected of, is published; a stream with a wrong one has gone to the
\* client before its hash is known; or everything fails.
Fetch(d) ==
  LET n == dnf[d].name IN
  /\ n # None /\ store[n] = None
  /\ \/ \E h \in Hash :
          /\ Received(d, n, h)
          /\ IF dnf[d].want \in {None, h} THEN Cache!Publish(n, h) ELSE UNCHANGED store
     \/ Received(d, n, None) /\ UNCHANGED store
  /\ UNCHANGED <<daemon, expected, registrant, posts>>

\* The transaction is over.
End(d) ==
  /\ dnf[d].pc = "download" /\ dnf[d].left = {}
  /\ dnf' = [dnf EXCEPT ![d] = Idle]
  /\ UNCHANGED proxy

-----------------------------------------------------------------------------
(* The service. *)

\* main: the socket is bound when the cache is loaded and the node has started.
Boot ==
  /\ daemon = "booting"
  /\ daemon' \in {"up", "failed"}
  /\ UNCHANGED <<expected, registrant, posts, store, dnf>>

\* MUTANT: requests go on without the process.
DownKeepsRequests(how) ==
  /\ daemon = "up" /\ daemon' = how
  /\ expected' = [n \in Name |-> None]
  /\ registrant' = [n \in Name |-> None]
  /\ posts' = {}
  /\ UNCHANGED <<store, dnf>>

\* The process ends, by a crash or a clean exit: its memory is lost, and each
\* client of it sees a broken connection.
Down(how) ==
  /\ daemon = "up" /\ daemon' = how
  /\ expected' = [n \in Name |-> None]
  /\ registrant' = [n \in Name |-> None]
  /\ posts' = {}
  /\ dnf' = [d \in Dnf |->
       IF dnf[d].name = None THEN dnf[d]
       ELSE [dnf[d] EXCEPT !.left = @ \ {dnf[d].name}, !.name = None, !.want = None,
                           !.sure = FALSE]]
  /\ UNCHANGED store

\* Restart=on-failure: after a crash, not after a clean exit.
SystemdRestarts ==
  /\ daemon = "failed"
  /\ daemon' = "booting"
  /\ UNCHANGED <<expected, registrant, posts, store, dnf>>

\* The cache evicts a package for another.
Evict ==
  /\ \E n \in Name : store[n] # None /\ Cache!Remove({n})
  /\ UNCHANGED <<daemon, expected, registrant, posts, dnf>>

Hooks(d) == StartProxy(d) \/ ReposConfigured(d) \/ PreTransaction(d) \/ PostTimeout(d)
Download(d) == Direct(d) \/ Get(d) \/ Hit(d) \/ Drop(d) \/ Fetch(d) \/ End(d)

Next ==
  \/ \E d \in Dnf : Run(d) \/ Hooks(d) \/ Download(d)
  \/ \E m \in posts : Post(m)
  \/ Boot \/ Down("failed") \/ Down("stopped") \/ SystemdRestarts \/ Evict

\* The timeouts of the plugin run out, and downloads end: the proxy's part as long
\* as dnf reads (Transfer!Ends), and dnf has timeouts of its own.  The fairness of
\* downloads is strong: a dnf whose connection is now taken, now refused, now
\* behind another dnf does not stay unanswered because of it.
Spec == Init /\ [][Next]_vars /\ \A d \in Dnf : WF_vars(Hooks(d)) /\ SF_vars(Download(d))

-----------------------------------------------------------------------------
(* Properties *)

Maybe(S) == S \cup {None}

TypeOK ==
  /\ daemon \in {"stopped", "failed", "booting", "up"}
  /\ expected \in [Name -> Maybe(Hash)] /\ registrant \in [Name -> Maybe(Dnf)]
  /\ \A m \in posts : m.by \in Maybe(Dnf) /\ m.hashes \in UNION {[S -> Hash] : S \in SUBSET Name}
  /\ store \in [Name -> Maybe(Hash)]
  /\ \A d \in Dnf :
       /\ dnf[d].pc \in {"idle", "init", "repos", "ready", "posting", "download"}
       /\ dnf[d].name \in Maybe(Name) /\ dnf[d].want \in Maybe(Hash)
       /\ dnf[d].left \subseteq Name
       /\ dnf[d].name # None =>
            dnf[d].pc = "download" /\ dnf[d].name \in dnf[d].left /\ daemon = "up"

\* What the proxy has acknowledged to a dnf is what it expects of that name, as
\* long as it runs and nobody else, or an earlier run, registers the name.
RegistrationHolds ==
  \A d \in Dnf : \A n \in dnf[d].acked :
    registrant[n] = d => expected[n] = dnf[d].plan[n]

\* A dnf whose registration is in force when it asks for a package is given
\* another content only by a source it streams from, never from the cache and
\* never into the cache, whatever was cached, registered or lost before.  Names
\* of which the cache is in doubt (PackageCache) are not in this store.
TrustedDelivery ==
  [][\A d \in Dnf : \A n \in Name :
       dnf[d].name = n /\ dnf[d].sure /\ dnf'[d].got[n] \notin {None, dnf[d].plan[n]}
         => store[n] = None /\ store'[n] = None]_vars

\* The plugin never keeps a dnf from its end, whatever the proxy does or does
\* not do.
RunEnds == \A d \in Dnf : dnf[d].pc = "init" ~> dnf[d].pc = "idle"
=============================================================================

------------------------- MODULE TransactionProofs -------------------------
(***************************************************************************)
(* Safety of Transaction for every set of dnf processes, packages and      *)
(* contents, whatever is lost, late, restarted or evicted.                 *)
(*                                                                         *)
(* RegistrationHolds is not inductive: the proxy may work off a            *)
(* registration long after it was posted, and what it writes then must     *)
(* still be the plan of the process that the entry is put down to.  So a   *)
(* post that is put down to a process carries the plan of its current run  *)
(* (Carried), which takes that a new run disowns the posts of the last one.*)
(* TrustedDelivery follows the hash from there: a request that is sure     *)
(* wants what its process has planned (SureWants), and has got nothing     *)
(* under that name before (NothingYet).                                    *)
(***************************************************************************)
EXTENDS Transaction, TLAPS

Hashes == UNION {[S -> Hash] : S \in SUBSET Name}

Process ==
  [pc : {"idle", "init", "repos", "ready", "posting", "download"},
   plan : [Name -> Maybe(Hash)], proxied : SUBSET Name, acked : SUBSET Name,
   left : SUBSET Name, name : Maybe(Name), want : Maybe(Hash), sure : BOOLEAN,
   got : [Name -> Maybe(Hash)]]

Types ==
  /\ daemon \in {"stopped", "failed", "booting", "up"}
  /\ expected \in [Name -> Maybe(Hash)] /\ registrant \in [Name -> Maybe(Dnf)]
  /\ posts \in SUBSET [by : Maybe(Dnf), hashes : Hashes]
  /\ store \in [Name -> Maybe(Hash)]
  /\ dnf \in [Dnf -> Process]

\* A package is asked for by a download that has yet to end, of a proxy that runs.
Asking(x, service) ==
  x.name # None => x.pc = "download" /\ x.name \in x.left /\ service = "up"

\* A process that runs has planned a content for each package, and one that
\* does not has registered nothing.
Planned(x) == IF x.pc = "idle" THEN x.acked = {} ELSE x.plan \in [Name -> Hash]

\* What a request that is sure wants is what was planned.
SureWants(x) == x.sure => x.name # None /\ x.want = x.plan[x.name]

\* Nothing has come of a package that is left.
NothingYet(x) == \A n \in x.left : x.got[n] = None

\* A registration is of what its process has planned, as long as the run lasts.
Carried ==
  \A m \in posts : \A n \in DOMAIN m.hashes :
    m.by # None /\ dnf[m.by].pc # "idle" => m.hashes[n] = dnf[m.by].plan[n]

Held(x, service) == Asking(x, service) /\ Planned(x) /\ SureWants(x) /\ NothingYet(x)

Inv == Types /\ Carried /\ RegistrationHolds /\ \A d \in Dnf : Held(dnf[d], daemon)
-----------------------------------------------------------------------------
(* The inductive invariant, action by action. *)

\* Most steps change one process and neither its plan nor what is registered.
LEMMA OneProcess ==
  ASSUME Inv, NEW d \in Dnf, NEW y \in Process, dnf' = [dnf EXCEPT ![d] = y],
         UNCHANGED <<expected, registrant, posts>>,
         daemon' \in {"stopped", "failed", "booting", "up"}, daemon = "up" => daemon' = "up",
         store' \in [Name -> Maybe(Hash)],
         Held(y, daemon'),
         y.pc # "idle" =>
           dnf[d].pc # "idle" /\ y.plan = dnf[d].plan /\ y.acked = dnf[d].acked
  PROVE  Inv'
<1>1. /\ dnf' \in [Dnf -> Process] /\ dnf'[d] = y
      /\ \A e \in Dnf : e # d => dnf'[e] = dnf[e]
  BY DEF Inv, Types
<1>2. Types'
  BY <1>1 DEF Inv, Types
<1>3. \A e \in Dnf : Held(dnf'[e], daemon')
  BY <1>1 DEF Inv, Held, Asking, Planned, SureWants, NothingYet
<1>4. Carried'
  <2> SUFFICES ASSUME NEW m \in posts, NEW n \in DOMAIN m.hashes,
                      m.by # None, dnf'[m.by].pc # "idle"
               PROVE  m.hashes[n] = dnf'[m.by].plan[n]
    BY DEF Carried
  <2>1. m.by \in Dnf
    BY DEF Inv, Types, Maybe
  <2> QED
    BY <1>1, <2>1 DEF Inv, Carried
<1>5. RegistrationHolds'
  <2>1. y.pc = "idle" => y.acked = {}
    BY DEF Held, Planned
  <2> QED
    BY <1>1, <2>1 DEF Inv, RegistrationHolds
<1> QED
  BY <1>2, <1>3, <1>4, <1>5 DEF Inv

\* Others change none, and neither what is registered.
LEMMA NoProcess ==
  ASSUME Inv, UNCHANGED <<dnf, expected, registrant, posts>>,
         daemon' \in {"stopped", "failed", "booting", "up"}, daemon = "up" => daemon' = "up",
         store' \in [Name -> Maybe(Hash)]
  PROVE  Inv'
<1>1. Types'
  BY DEF Inv, Types
<1>2. \A d \in Dnf : Held(dnf'[d], daemon')
  BY DEF Inv, Held, Asking, Planned, SureWants, NothingYet
<1> QED
  BY <1>1, <1>2 DEF Inv, Carried, RegistrationHolds

LEMMA IdleHeld == Idle \in Process /\ Held(Idle, daemon')
BY NoneIsNothing DEF Idle, Process, Maybe, Held, Asking, Planned, SureWants, NothingYet

LEMMA RunInv ==
  ASSUME Inv, NEW d \in Dnf, Run(d)
  PROVE  Inv'
<1>1. PICK plan \in [Name -> Hash] :
        dnf' = [dnf EXCEPT ![d] = [Idle EXCEPT !.pc = "init", !.plan = plan, !.left = Name]]
  BY DEF Run
<1> DEFINE y == [Idle EXCEPT !.pc = "init", !.plan = plan, !.left = Name]
<1>2. y \in Process /\ Held(y, daemon') /\ y.acked = {} /\ y.plan = plan
  BY NoneIsNothing DEF Idle, Process, Maybe, Held, Asking, Planned, SureWants, NothingYet
<1>3. /\ dnf' \in [Dnf -> Process] /\ dnf'[d] = y
      /\ \A e \in Dnf : e # d => dnf'[e] = dnf[e]
  BY <1>1, <1>2 DEF Inv, Types
<1>4. /\ UNCHANGED <<daemon, expected, store>>
      /\ posts' = {[m EXCEPT !.by = IF @ = d THEN None ELSE @] : m \in posts}
      /\ registrant' = [n \in Name |-> IF registrant[n] = d THEN None ELSE registrant[n]]
  BY DEF Run
<1>5. \A m \in posts' :
        /\ m \in [by : Maybe(Dnf), hashes : Hashes] /\ m.by # d
        /\ m.by # None => \E p \in posts : p.by = m.by /\ p.hashes = m.hashes
  <2> SUFFICES ASSUME NEW p \in posts
               PROVE  LET m == [p EXCEPT !.by = IF @ = d THEN None ELSE @] IN
                      /\ m \in [by : Maybe(Dnf), hashes : Hashes] /\ m.by # d
                      /\ m.by # None => p.by = m.by /\ p.hashes = m.hashes
    BY <1>4, Zenon
  <2>1. p \in [by : Maybe(Dnf), hashes : Hashes]
    BY DEF Inv, Types
  <2> QED
    BY <2>1, NoneIsNothing DEF Maybe
<1>6. Types'
  BY <1>3, <1>4, <1>5 DEF Inv, Types, Maybe
<1>7. Carried'
  <2> SUFFICES ASSUME NEW m \in posts', NEW n \in DOMAIN m.hashes,
                      m.by # None, dnf'[m.by].pc # "idle"
               PROVE  m.hashes[n] = dnf'[m.by].plan[n]
    BY DEF Carried
  <2>1. m.by \in Dnf \ {d}
    BY <1>5 DEF Maybe
  <2>2. PICK p \in posts : p.by = m.by /\ p.hashes = m.hashes
    BY <1>5
  <2> QED
    BY <1>3, <2>1, <2>2 DEF Inv, Carried
<1>8. RegistrationHolds'
  <2> SUFFICES ASSUME NEW e \in Dnf, NEW n \in dnf'[e].acked, registrant'[n] = e
               PROVE  expected'[n] = dnf'[e].plan[n]
    BY DEF RegistrationHolds
  <2>1. e # d /\ n \in Name
    BY <1>2, <1>3 DEF Process
  <2>2. registrant[n] = e
    BY <1>4, <2>1, NoneIsNothing
  <2> QED
    BY <1>3, <1>4, <2>1, <2>2 DEF Inv, RegistrationHolds
<1>9. \A e \in Dnf : Held(dnf'[e], daemon')
  BY <1>2, <1>3, <1>4 DEF Inv
<1> QED
  BY <1>6, <1>7, <1>8, <1>9 DEF Inv

\* A hook moves its process on, and may route repositories through the proxy.
LEMMA HookMoves ==
  ASSUME Inv, NEW d \in Dnf, NEW pc \in {"repos", "ready", "posting", "download"},
         NEW S \in SUBSET Name, dnf[d].pc \in {"init", "repos", "ready", "posting"},
         dnf' = [dnf EXCEPT ![d] = [@ EXCEPT !.pc = pc, !.proxied = S]]
  PROVE  \E y \in Process :
           /\ dnf' = [dnf EXCEPT ![d] = y]
           /\ Held(y, daemon') /\ y.pc = pc /\ y.plan = dnf[d].plan /\ y.acked = dnf[d].acked
<1> DEFINE x == dnf[d]
           y == [x EXCEPT !.pc = pc, !.proxied = S]
<1>1. x \in Process /\ Held(x, daemon)
  BY DEF Inv, Types
<1>2. /\ y \in Process /\ y.pc = pc
      /\ y.plan = x.plan /\ y.acked = x.acked /\ y.left = x.left /\ y.name = x.name
      /\ y.want = x.want /\ y.sure = x.sure /\ y.got = x.got
  BY <1>1 DEF Process
<1>3. Asking(y, daemon') /\ NothingYet(y)
  BY <1>1, <1>2 DEF Held, Asking, NothingYet
<1>4. Planned(y)
  BY <1>1, <1>2 DEF Held, Planned
<1>5. SureWants(y)
  BY <1>1, <1>2 DEF Held, SureWants
<1> QED
  BY <1>2, <1>3, <1>4, <1>5 DEF Held

LEMMA HookInv ==
  ASSUME Inv, NEW d \in Dnf, StartProxy(d) \/ ReposConfigured(d) \/ PostTimeout(d)
  PROVE  Inv'
<1>1. dnf[d] \in Process /\ daemon \in {"stopped", "failed", "booting", "up"}
      /\ store \in [Name -> Maybe(Hash)]
  BY DEF Inv, Types
<1>2. PICK S \in SUBSET Name, pc \in {"repos", "ready", "download"} :
        dnf' = [dnf EXCEPT ![d] = [@ EXCEPT !.pc = pc, !.proxied = S]]
  <2>1. dnf[d].proxied \in SUBSET Name
        /\ \A pc : [dnf[d] EXCEPT !.pc = pc]
                     = [dnf[d] EXCEPT !.pc = pc, !.proxied = dnf[d].proxied]
    BY <1>1 DEF Process
  <2>2. CASE StartProxy(d) \/ PostTimeout(d)
    BY <2>1, <2>2 DEF StartProxy, PostTimeout
  <2>3. CASE ReposConfigured(d)
    BY <2>3 DEF ReposConfigured
  <2> QED
    BY <2>2, <2>3
<1>3. dnf[d].pc \in {"init", "repos", "ready", "posting"}
      /\ UNCHANGED <<expected, registrant, posts, store>>
      /\ daemon' \in {"stopped", "failed", "booting", "up"} /\ (daemon = "up" => daemon' = "up")
  BY <1>1 DEF StartProxy, ReposConfigured, PostTimeout, proxy
<1>4. PICK y \in Process :
        /\ dnf' = [dnf EXCEPT ![d] = y]
        /\ Held(y, daemon') /\ y.plan = dnf[d].plan /\ y.acked = dnf[d].acked
  BY <1>2, <1>3, HookMoves
<1> QED
  BY <1>1, <1>3, <1>4, OneProcess
LEMMA PreTransactionInv ==
  ASSUME Inv, NEW d \in Dnf, PreTransaction(d)
  PROVE  Inv'
<1> DEFINE x == dnf[d]
<1>1. x \in Process /\ Held(x, daemon) /\ x.pc = "ready"
  BY DEF PreTransaction, Inv, Types
<1>2. x.plan \in [Name -> Hash] /\ UNCHANGED <<daemon, expected, registrant, store>>
  BY <1>1 DEF PreTransaction, Held, Planned
<1>3. PICK S \in SUBSET Name, pc \in {"posting", "download"} :
        /\ dnf' = [dnf EXCEPT ![d].pc = pc]
        /\ \/ UNCHANGED posts
           \/ posts' = posts \cup {[by |-> d, hashes |-> [n \in S |-> x.plan[n]]]}
  BY DEF PreTransaction
<1>4. dnf' = [dnf EXCEPT ![d] = [@ EXCEPT !.pc = pc, !.proxied = x.proxied]]
      /\ x.proxied \in SUBSET Name
  BY <1>1, <1>3 DEF Process
<1>5. PICK y \in Process :
        /\ dnf' = [dnf EXCEPT ![d] = y]
        /\ Held(y, daemon') /\ y.plan = dnf[d].plan /\ y.acked = dnf[d].acked
  BY <1>1, <1>4, HookMoves
<1>6. CASE UNCHANGED posts
  BY <1>1, <1>2, <1>5, <1>6, OneProcess DEF Inv, Types
<1>7. CASE posts' = posts \cup {[by |-> d, hashes |-> [n \in S |-> x.plan[n]]]}
  <2>1. /\ dnf' \in [Dnf -> Process] /\ dnf'[d] = y
        /\ \A e \in Dnf : e # d => dnf'[e] = dnf[e]
    BY <1>5 DEF Inv, Types
  <2>2. [n \in S |-> x.plan[n]] \in Hashes
    BY <1>2 DEF Hashes
  <2>3. Types'
    BY <1>2, <1>7, <2>1, <2>2 DEF Inv, Types, Maybe
  <2>4. ASSUME NEW m \in posts', NEW n \in DOMAIN m.hashes,
               m.by # None, dnf'[m.by].pc # "idle"
        PROVE  m.hashes[n] = dnf'[m.by].plan[n]
    <3>1. CASE m = [by |-> d, hashes |-> [k \in S |-> x.plan[k]]]
      BY <1>5, <2>1, <2>4, <3>1
    <3>2. CASE m \in posts
      <4>1. m.by \in Dnf
        BY <2>4, <3>2 DEF Inv, Types, Maybe
      <4> QED
        BY <1>1, <1>5, <2>1, <2>4, <3>2, <4>1 DEF Inv, Carried
    <3> QED
      BY <1>7, <3>1, <3>2
  <2>5. RegistrationHolds'
    BY <1>2, <1>5, <2>1 DEF Inv, RegistrationHolds
  <2>6. \A e \in Dnf : Held(dnf'[e], daemon')
    BY <1>2, <1>5, <2>1 DEF Inv
  <2> QED
    BY <2>3, <2>4, <2>5, <2>6 DEF Inv, Carried
<1> QED
  BY <1>3, <1>6, <1>7

\* The entries that a late registration writes are the plan of its process, or
\* nobody's.
LEMMA PostInv ==
  ASSUME Inv, NEW m \in posts, Post(m)
  PROVE  Inv'
<1>1. m.by \in Maybe(Dnf) /\ m.hashes \in Hashes
  BY DEF Inv, Types
<1>2. PICK S \in SUBSET Name : m.hashes \in [S -> Hash]
  BY <1>1 DEF Hashes
<1>3. S = DOMAIN m.hashes
  BY <1>2
<1>4. /\ expected' = [n \in Name |-> IF n \in S THEN m.hashes[n] ELSE expected[n]]
      /\ registrant' = [n \in Name |-> IF n \in S THEN m.by ELSE registrant[n]]
      /\ posts' = posts \ {m} /\ UNCHANGED <<daemon, store>>
  BY <1>3 DEF Post, Registered
<1>5. /\ expected' \in [Name -> Maybe(Hash)] /\ registrant' \in [Name -> Maybe(Dnf)]
      /\ posts' \in SUBSET [by : Maybe(Dnf), hashes : Hashes]
  BY <1>1, <1>2, <1>4 DEF Inv, Types, Maybe
<1>6. /\ dnf' \in [Dnf -> Process]
      /\ \A d \in Dnf :
           /\ Held(dnf'[d], daemon')
           /\ dnf'[d].plan = dnf[d].plan
           /\ dnf'[d].pc = "idle" <=> dnf[d].pc = "idle"
           /\ \/ dnf'[d].acked = dnf[d].acked
              \/ m.by = d /\ dnf[d].pc # "idle" /\ dnf'[d].acked = S
  <2>1. CASE UNCHANGED dnf
    BY <1>4, <2>1 DEF Inv, Types
  <2>2. CASE /\ m.by # None /\ dnf[m.by].pc = "posting"
             /\ dnf' = [dnf EXCEPT ![m.by].pc = "download", ![m.by].acked = S]
    <3>1. PICK d \in Dnf : m.by = d
      BY <1>1, <2>2 DEF Maybe
    <3>2. dnf[d] \in Process /\ Held(dnf[d], daemon)
      BY DEF Inv, Types
    <3>3. PICK y : y = [dnf[d] EXCEPT !.pc = "download", !.acked = S]
      OBVIOUS
    <3>4. /\ y \in Process /\ y.pc = "download" /\ y.acked = S
          /\ y.plan = dnf[d].plan /\ y.left = dnf[d].left /\ y.name = dnf[d].name
          /\ y.want = dnf[d].want /\ y.sure = dnf[d].sure /\ y.got = dnf[d].got
      BY <3>2, <3>3 DEF Process
    <3>5. Asking(y, daemon') /\ NothingYet(y)
      BY <1>4, <3>2, <3>4 DEF Held, Asking, NothingYet
    <3>6. Planned(y)
      BY <2>2, <3>1, <3>2, <3>4 DEF Held, Planned
    <3>7. SureWants(y)
      BY <3>2, <3>4 DEF Held, SureWants
    <3>8. dnf' = [dnf EXCEPT ![d] = y]
      BY <2>2, <3>1, <3>3 DEF Inv, Types
    <3>9. /\ dnf' \in [Dnf -> Process] /\ dnf'[d] = y
          /\ \A e \in Dnf : e # d => dnf'[e] = dnf[e]
      BY <3>4, <3>8 DEF Inv, Types
    <3>10. Held(y, daemon')
      BY <3>5, <3>6, <3>7 DEF Held
    <3> QED
      BY <1>4, <2>2, <3>1, <3>4, <3>9, <3>10 DEF Inv
  <2> QED
    BY <1>3, <2>1, <2>2 DEF Post, Registered
<1>7. ASSUME NEW p \in posts', NEW n \in DOMAIN p.hashes,
             p.by # None, dnf'[p.by].pc # "idle"
      PROVE  p.hashes[n] = dnf'[p.by].plan[n]
  <2>1. p \in posts /\ p.by \in Dnf
    BY <1>4, <1>7 DEF Inv, Types, Maybe
  <2> QED
    BY <1>6, <1>7, <2>1 DEF Inv, Carried
<1>8. ASSUME NEW d \in Dnf, NEW n \in dnf'[d].acked, registrant'[n] = d
      PROVE  expected'[n] = dnf'[d].plan[n]
  <2>1. n \in Name
    BY <1>6 DEF Process
  <2>2. CASE n \in S
    <3>1. m.by = d
      BY <1>4, <1>8, <2>1, <2>2
    <3>2. dnf[d].pc # "idle"
      BY <1>6, <1>8 DEF Held, Planned
    <3>3. m.hashes[n] = dnf[d].plan[n]
      BY <1>3, <2>2, <3>1, <3>2, NoneIsNothing DEF Inv, Carried
    <3> QED
      BY <1>4, <1>6, <2>1, <2>2, <3>3
  <2>3. CASE n \notin S
    <3>1. n \in dnf[d].acked /\ registrant[n] = d
      BY <1>4, <1>6, <1>8, <2>1, <2>3
    <3> QED
      BY <1>4, <1>6, <2>1, <2>3, <3>1 DEF Inv, RegistrationHolds
  <2> QED
    BY <2>2, <2>3
<1>9. Types'
  BY <1>4, <1>5, <1>6 DEF Inv, Types
<1>10. Carried'
  BY <1>7 DEF Carried
<1>11. RegistrationHolds'
  BY <1>8 DEF RegistrationHolds
<1> QED
  BY <1>6, <1>9, <1>10, <1>11 DEF Inv
\* What has come of a package, or that nothing has, is all that changes of it.
LEMMA ReceivedFacts ==
  ASSUME Inv, NEW d \in Dnf, NEW n \in Name, NEW h \in Maybe(Hash),
         dnf[d].pc = "download", Received(d, n, h)
  PROVE  \E y \in Process :
           /\ dnf' = [dnf EXCEPT ![d] = y]
           /\ Held(y, daemon) /\ y.pc = "download"
           /\ y.plan = dnf[d].plan /\ y.acked = dnf[d].acked
           /\ y.got = [dnf[d].got EXCEPT ![n] = h]
<1> DEFINE x == dnf[d]
<1>1. x \in Process /\ Held(x, daemon)
  BY DEF Inv, Types
<1>2. PICK y : y = [x EXCEPT !.left = x.left \ {n}, !.name = None, !.want = None,
                             !.sure = FALSE, !.got[n] = h]
  OBVIOUS
<1>3. dnf' = [dnf EXCEPT ![d] = y]
  BY <1>2 DEF Received
<1>4. [x.got EXCEPT ![n] = h] \in [Name -> Maybe(Hash)]
  BY <1>1 DEF Process
<1>5. /\ y \in Process /\ y.pc = "download"
      /\ y.plan = x.plan /\ y.acked = x.acked /\ y.left = x.left \ {n} /\ y.name = None
      /\ y.sure = FALSE /\ y.got = [x.got EXCEPT ![n] = h]
  BY <1>1, <1>2, <1>4 DEF Process, Maybe
<1>6. Asking(y, daemon)
  BY <1>5 DEF Asking
<1>7. Planned(y)
  BY <1>1, <1>5 DEF Held, Planned
<1>8. NothingYet(y)
  BY <1>1, <1>5 DEF Held, NothingYet, Process
<1> QED
  BY <1>3, <1>5, <1>6, <1>7, <1>8 DEF Held, SureWants

\* A request in progress is of a package that is left.
LEMMA AskingFacts ==
  ASSUME Inv, NEW d \in Dnf, dnf[d].name # None
  PROVE  /\ dnf[d].pc = "download" /\ dnf[d].name \in Name /\ dnf[d].name \in dnf[d].left
         /\ dnf[d].want \in Maybe(Hash) /\ daemon = "up"
<1>1. dnf[d] \in Process /\ Held(dnf[d], daemon)
  BY DEF Inv, Types
<1> QED
  BY <1>1 DEF Process, Maybe, Held, Asking

LEMMA ReceiveInv ==
  ASSUME Inv, NEW d \in Dnf, Direct(d) \/ Hit(d) \/ Fetch(d)
  PROVE  Inv'
<1>1. \E n \in Name, h \in Maybe(Hash) : dnf[d].pc = "download" /\ Received(d, n, h)
  <2>1. CASE Direct(d)
    <3>1. dnf[d].left \subseteq Name
      BY DEF Inv, Types, Process
    <3> QED
      BY <2>1, <3>1 DEF Direct, Maybe
  <2>2. CASE Hit(d)
    BY <2>2, AskingFacts DEF Hit, Inv, Types
  <2>3. CASE Fetch(d)
    BY <2>3, AskingFacts DEF Fetch, Maybe
  <2> QED
    BY <2>1, <2>2, <2>3
<1>2. /\ UNCHANGED <<daemon, expected, registrant, posts>>
      /\ store' \in [Name -> Maybe(Hash)]
  BY AskingFacts DEF Direct, Hit, Fetch, proxy, Inv, Types, Maybe, Cache!Publish
<1>3. PICK y \in Process :
        /\ dnf' = [dnf EXCEPT ![d] = y]
        /\ Held(y, daemon) /\ y.plan = dnf[d].plan /\ y.acked = dnf[d].acked
        /\ dnf[d].pc = "download"
  BY <1>1, ReceivedFacts
<1> QED
  BY <1>2, <1>3, OneProcess DEF Inv, Types

\* A request is sure only when what the proxy expects is what was planned.
LEMMA GetInv ==
  ASSUME Inv, NEW d \in Dnf, Get(d)
  PROVE  Inv'
<1> DEFINE x == dnf[d]
<1>1. x \in Process /\ Held(x, daemon)
  BY DEF Inv, Types
<1>0. PICK n \in x.left :
        dnf' = [dnf EXCEPT ![d] = [x EXCEPT !.name = n, !.want = expected[n],
                                     !.sure = n \in x.acked /\ registrant[n] = d]]
  BY DEF Get
<1>2. PICK y :
        /\ y = [x EXCEPT !.name = n, !.want = expected[n],
                  !.sure = n \in x.acked /\ registrant[n] = d]
        /\ dnf' = [dnf EXCEPT ![d] = y]
  BY <1>0
<1>3. n \in Name /\ expected[n] \in Maybe(Hash)
  BY <1>1 DEF Process, Inv, Types
<1>4. /\ y \in Process /\ y.pc = x.pc /\ y.name = n /\ y.want = expected[n]
      /\ y.plan = x.plan /\ y.acked = x.acked /\ y.left = x.left /\ y.got = x.got
      /\ y.sure = (n \in x.acked /\ registrant[n] = d)
  BY <1>1, <1>2, <1>3 DEF Process, Maybe
<1>5. x.pc = "download" /\ daemon = "up" /\ UNCHANGED proxy
  BY DEF Get
<1>6. Asking(y, daemon) /\ NothingYet(y)
  BY <1>1, <1>4, <1>5 DEF Asking, Held, NothingYet
<1>7. Planned(y)
  BY <1>1, <1>4 DEF Held, Planned
<1>8. SureWants(y)
  <2>1. n \in x.acked /\ registrant[n] = d => expected[n] = x.plan[n]
    BY DEF Inv, RegistrationHolds
  <2>2. n # None
    BY <1>3, NoneIsNothing
  <2> QED
    BY <1>4, <2>1, <2>2 DEF SureWants
<1> QED
  BY <1>2, <1>4, <1>5, <1>6, <1>7, <1>8, OneProcess DEF Held, proxy, Inv, Types

LEMMA EndInv ==
  ASSUME Inv, NEW d \in Dnf, End(d)
  PROVE  Inv'
<1>1. Idle.pc = "idle"
  BY DEF Idle
<1> QED
  BY <1>1, IdleHeld, OneProcess DEF End, proxy, Inv, Types

\* The cached packages come and go, and the service starts.
LEMMA QuietInv ==
  ASSUME Inv,
         \/ \E d \in Dnf : Drop(d)
         \/ Boot \/ SystemdRestarts \/ Evict \/ UNCHANGED vars
  PROVE  Inv'
<1>1. UNCHANGED <<dnf, expected, registrant, posts>>
  BY DEF Drop, Boot, SystemdRestarts, Evict, vars
<1>2. daemon' \in {"stopped", "failed", "booting", "up"} /\ (daemon = "up" => daemon' = "up")
  BY DEF Drop, Boot, SystemdRestarts, Evict, vars, Inv, Types
<1>3. store' \in [Name -> Maybe(Hash)]
  <2>1. ASSUME NEW n, Cache!Remove({n}) PROVE store' \in [Name -> Maybe(Hash)]
    BY <2>1 DEF Cache!Remove, Inv, Types, Maybe
  <2> QED
    BY <2>1 DEF Drop, Boot, SystemdRestarts, Evict, vars, Inv, Types
<1> QED
  BY <1>1, <1>2, <1>3, NoProcess

\* With the memory of the proxy go all entries and posts, and each request of it.
LEMMA DownInv ==
  ASSUME Inv, NEW how \in {"failed", "stopped"}, Down(how)
  PROVE  Inv'
<1>1. /\ expected' = [n \in Name |-> None] /\ registrant' = [n \in Name |-> None]
      /\ posts' = {} /\ daemon' = how /\ UNCHANGED store
  BY DEF Down
<1>2. ASSUME NEW d \in Dnf
      PROVE  dnf'[d] \in Process /\ Held(dnf'[d], how)
  <2>1. dnf[d] \in Process /\ Held(dnf[d], daemon)
    BY DEF Inv, Types
  <2>2. CASE dnf[d].name = None
    <3>1. dnf'[d] = dnf[d]
      BY <2>2 DEF Down
    <3> QED
      BY <2>1, <2>2, <3>1 DEF Held, Asking
  <2>3. CASE dnf[d].name # None
    <3> DEFINE x == dnf[d]
    <3>1. PICK y : y = [x EXCEPT !.left = @ \ {x.name}, !.name = None, !.want = None,
                                 !.sure = FALSE]
      OBVIOUS
    <3>2. /\ y \in Process /\ y.pc = x.pc /\ y.name = None /\ y.sure = FALSE
          /\ y.plan = x.plan /\ y.acked = x.acked /\ y.left \subseteq x.left /\ y.got = x.got
      BY <2>1, <3>1 DEF Process, Maybe
    <3>3. dnf'[d] = y
      BY <2>3, <3>1 DEF Down
    <3>4. Asking(y, how) /\ SureWants(y) /\ NothingYet(y)
      BY <2>1, <3>2 DEF Held, Asking, SureWants, NothingYet
    <3>5. Planned(y)
      BY <2>1, <3>2 DEF Held, Planned
    <3> QED
      BY <3>2, <3>3, <3>4, <3>5 DEF Held
  <2> QED
    BY <2>2, <2>3
<1>3. dnf' \in [Dnf -> Process]
  BY <1>2 DEF Down
<1>4. Types'
  BY <1>1, <1>3 DEF Inv, Types, Maybe
<1>5. RegistrationHolds'
  <2>1. ASSUME NEW d \in Dnf, NEW n \in dnf'[d].acked PROVE registrant'[n] # d
    <3>1. n \in Name
      BY <1>2 DEF Process
    <3> QED
      BY <1>1, <3>1, NoneIsNothing
  <2> QED
    BY <2>1 DEF RegistrationHolds
<1> QED
  BY <1>1, <1>2, <1>4, <1>5 DEF Inv, Carried
-----------------------------------------------------------------------------
LEMMA InvInit == Init => Inv
<1> SUFFICES ASSUME Init PROVE Inv
  OBVIOUS
<1>1. Idle \in Process
  BY DEF Idle, Process, Maybe
<1>2. Types
  BY <1>1 DEF Init, Types, Maybe, Cache!Init
<1>3. \A d \in Dnf : Held(dnf[d], daemon) /\ dnf[d].acked = {}
  BY DEF Init, Idle, Held, Asking, Planned, SureWants, NothingYet
<1> QED
  BY <1>2, <1>3 DEF Inv, Init, Carried, RegistrationHolds

LEMMA InvNext == Inv /\ [Next]_vars => Inv'
<1> SUFFICES ASSUME Inv, [Next]_vars PROVE Inv'
  OBVIOUS
<1>1. ASSUME NEW d \in Dnf, Run(d) \/ Hooks(d) PROVE Inv'
  BY <1>1, RunInv, HookInv, PreTransactionInv DEF Hooks
<1>2. ASSUME NEW d \in Dnf, Download(d) PROVE Inv'
  BY <1>2, ReceiveInv, GetInv, EndInv, QuietInv DEF Download
<1>3. ASSUME NEW m \in posts, Post(m) PROVE Inv'
  BY <1>3, PostInv
<1>4. CASE Down("failed") \/ Down("stopped")
  BY <1>4, DownInv
<1>5. CASE Boot \/ SystemdRestarts \/ Evict \/ UNCHANGED vars
  BY <1>5, QuietInv
<1> QED
  BY <1>1, <1>2, <1>3, <1>4, <1>5 DEF Next

\* The strengthened invariant holds for every set of processes, packages and
\* contents.
THEOREM InvHolds == Spec => []Inv
BY InvInit, InvNext, PTL DEF Spec

\* The types of the proxy and of the processes; a package is asked for only of
\* a proxy that runs, by a process that has reached its downloads.
THEOREM TypeCorrect == Spec => []TypeOK
<1>1. Inv => TypeOK
  <2> SUFFICES ASSUME Inv PROVE TypeOK
    OBVIOUS
  <2>1. \A m \in posts : m.by \in Maybe(Dnf) /\ m.hashes \in Hashes
    BY DEF Inv, Types
  <2>2. ASSUME NEW d \in Dnf
        PROVE  /\ dnf[d].pc \in {"idle", "init", "repos", "ready", "posting", "download"}
               /\ dnf[d].name \in Maybe(Name) /\ dnf[d].want \in Maybe(Hash)
               /\ dnf[d].left \subseteq Name
               /\ dnf[d].name # None =>
                    dnf[d].pc = "download" /\ dnf[d].name \in dnf[d].left /\ daemon = "up"
    <3>1. dnf[d] \in Process
      BY DEF Inv, Types
    <3> QED
      BY <3>1, AskingFacts DEF Process
  <2> QED
    BY <2>1, <2>2 DEF Inv, Types, TypeOK, Hashes
<1> QED
  BY <1>1, InvHolds, PTL

\* However late the proxy works off a registration, and whatever it forgets in
\* a crash: an entry that is put down to the run of a dnf that had it
\* acknowledged has the hash that this dnf planned.
THEOREM RegistrationsHold == Spec => []RegistrationHolds
<1>1. Inv => RegistrationHolds
  BY DEF Inv
<1> QED
  BY <1>1, InvHolds, PTL
-----------------------------------------------------------------------------
(* What is delivered. *)

\* Only a cached file or a download gives a request what it asked for.
LEMMA DeliveredBy ==
  ASSUME Inv, [Next]_vars, NEW d \in Dnf, dnf[d].name # None,
         dnf'[d].got[dnf[d].name] # None
  PROVE  Hit(d) \/ Fetch(d)
<1> DEFINE x == dnf[d]
           n == x.name
<1>1. x \in Process /\ Held(x, daemon) /\ n \in x.left /\ x.pc = "download" /\ n \in Name
  BY AskingFacts DEF Inv, Types
<1>2. x.got[n] = None
  BY <1>1 DEF Held, NothingYet
<1>3. ~ (dnf'[d] = x)
  BY <1>2
<1>4. ASSUME NEW e \in Dnf, Run(e) \/ Hooks(e) PROVE FALSE
  BY <1>1, <1>3, <1>4
     DEF Run, Hooks, StartProxy, ReposConfigured, PreTransaction, PostTimeout, Inv, Types
<1>5. ASSUME NEW e \in Dnf, Download(e) PROVE Hit(d) \/ Fetch(d)
  <2>1. CASE e # d
    BY <1>3, <1>5, <2>1
       DEF Download, Direct, Get, Hit, Drop, Fetch, End, Received, Inv, Types
  <2>2. CASE e = d
    BY <1>1, <1>3, <1>5, <2>2, NoneIsNothing DEF Download, Direct, Get, Drop, End
  <2> QED
    BY <2>1, <2>2
<1>6. ASSUME NEW m \in posts, Post(m) PROVE FALSE
  BY <1>1, <1>3, <1>6 DEF Post, Registered, Inv, Types
<1>7. ASSUME NEW how, Down(how) PROVE FALSE
  <2>1. dnf'[d] = [x EXCEPT !.left = @ \ {n}, !.name = None, !.want = None, !.sure = FALSE]
    BY <1>7 DEF Down
  <2>2. dnf'[d].got = x.got
    BY <1>1, <2>1 DEF Process
  <2> QED
    BY <1>2, <2>2
<1>8. CASE Boot \/ SystemdRestarts \/ Evict \/ UNCHANGED vars
  BY <1>3, <1>8 DEF Boot, SystemdRestarts, Evict, vars
<1> QED
  BY <1>4, <1>5, <1>6, <1>7, <1>8 DEF Next

LEMMA DeliveryStep ==
  ASSUME Inv, [Next]_vars, NEW d \in Dnf, NEW n \in Name,
         dnf[d].name = n, dnf[d].sure, dnf'[d].got[n] \notin {None, dnf[d].plan[n]}
  PROVE  store[n] = None /\ store'[n] = None
<1> DEFINE x == dnf[d]
<1>1. x \in Process /\ Held(x, daemon) /\ x.pc = "download" /\ n # None
  BY AskingFacts, NoneIsNothing DEF Inv, Types
<1>2. x.want = x.plan[n] /\ x.plan[n] \in Hash
  BY <1>1 DEF Held, SureWants, Planned
<1>3. Hit(d) \/ Fetch(d)
  BY <1>1, DeliveredBy
<1>4. PICK h : Received(d, n, h) /\ (Hit(d) => h = store[n])
               /\ (Fetch(d) => store[n] = None /\ (x.want = h \/ UNCHANGED store))
  <2>1. CASE Hit(d)
    BY <2>1 DEF Hit, Fetch
  <2>2. CASE Fetch(d)
    BY <1>2, <2>2, NoneIsNothing DEF Hit, Fetch
  <2> QED
    BY <1>3, <2>1, <2>2
<1>5. dnf'[d].got[n] = h
  BY <1>1, <1>4 DEF Received, Inv, Types, Process
<1> QED
  BY <1>2, <1>3, <1>4, <1>5, NoneIsNothing DEF Hit

\* A dnf whose registration was in force when it asked for a package gets
\* another content only in a stream from a source, while the cache has nothing
\* under that name before and after: whatever other processes register and
\* download, whatever the cache had, and however often the proxy restarts.
THEOREM DeliveryTrusted == Spec => TrustedDelivery
<1>1. Inv /\ [Next]_vars =>
        [\A d \in Dnf : \A n \in Name :
           dnf[d].name = n /\ dnf[d].sure /\ dnf'[d].got[n] \notin {None, dnf[d].plan[n]}
             => store[n] = None /\ store'[n] = None]_vars
  BY DeliveryStep
<1> QED
  BY <1>1, InvHolds, PTL DEF Spec, TrustedDelivery
=============================================================================

------------------------- MODULE PackageCacheProofs -------------------------
(***************************************************************************)
(* Safety of PackageCache for every set of names, contents and threads,    *)
(* every limit, any crash and any failure of a save or an unlink, when     *)
(* requests for one name do not overlap.                                   *)
(*                                                                         *)
(* IndexTruth is not inductive: a finished download overwrites the file of *)
(* a name without the lock, so it takes that no entry, in memory or in an  *)
(* index file that is not stale, has that name while the download runs     *)
(* (Clean), which in turn takes that entries without a file exist only     *)
(* while one request removes them (Grounded) and that the index file       *)
(* follows memory (Durable).  All of it speaks of names not in doubt.      *)
(***************************************************************************)
EXTENDS PackageCache, FiniteSetTheorems, WellFoundedInduction, TLAPS

USE DEF indexFile, OnFile

\* What is known of a request by the step it has reached.
Clean ==
  \A w \in Worker :
    /\ req[w].name \notin doubted =>
         /\ req[w].pc \in {"fetch", "forget"} => files[req[w].name] = None
         /\ req[w].pc = "fetch" =>
              /\ \A e \in index : e.name # req[w].name
              /\ holder # w => \A e \in OnFile : e.name # req[w].name
    /\ req[w].pc = "placed" => files[req[w].name] \in {None, req[w].got}

OnePerName ==
  \A v, w \in Worker : req[v].name = req[w].name /\ req[v].name # None => v = w

LockShape ==
  /\ phase = "free" => holder = None
  /\ torn => saved = {}
  /\ phase = "evict" => todo \subseteq index

Inv ==
  /\ TypeOK
  /\ LockShape /\ Durable /\ IndexTruth /\ Grounded
  /\ OnePerName /\ Clean

-----------------------------------------------------------------------------
(* Facts about the index operations. *)

\* Registering or adopting a file keeps the index a dictionary, and adds at
\* most an entry of that name with the size of that file.
LEMMA PutFacts ==
  ASSUME TypeOK, NEW h \in Hash, NEW n \in Name, files[n] # None
  PROVE  /\ Put(h, n) \in SUBSET Entry
         /\ UniqueKeys(Put(h, n))
         /\ \A e \in Put(h, n) :
              e \in index \/ (e.name = n /\ e.hash = h /\ e.size = Size[files[n]])
<1> DEFINE new == [hash |-> h, name |-> n, size |-> Size[files[n]], last |-> clock]
<1>1. new \in Entry
  BY ConstantsAssumption DEF TypeOK, Entry
<1> QED
  BY <1>1 DEF Put, TypeOK, UniqueKeys

\* Touching an entry changes its last access and nothing else.
LEMMA TouchFacts ==
  ASSUME TypeOK, NEW e \in index
  PROVE  /\ Touched(e) \in SUBSET Entry
         /\ UniqueKeys(Touched(e))
         /\ \A f \in Touched(e) : \E g \in index :
              f.hash = g.hash /\ f.name = g.name /\ f.size = g.size
<1> DEFINE new == [e EXCEPT !.last = clock]
<1>1. new \in Entry /\ new.hash = e.hash /\ new.name = e.name /\ new.size = e.size
  BY DEF TypeOK, Entry
<1> QED
  BY <1>1 DEF Touched, TypeOK, UniqueKeys

\* The types of the index and the lock after a lookup, whoever makes it.
LEMMA LookupTypes ==
  ASSUME TypeOK, NEW n \in Name, NEW hit \in BOOLEAN, NEW by \in Worker \cup {"query"},
         Lookup(n, hit, by)
  PROVE  /\ index' \in SUBSET Entry /\ UniqueKeys(index')
         /\ phase' \in {"free", "save"} /\ phase = "free"
         /\ holder' \in Worker \cup {"query", None}
         /\ phase' = "free" => index' = index /\ holder' = holder
         /\ phase' # "free" => holder' = by
         /\ ~hit => files[n] = None
<1>1. CASE \E e \in Named(n) : index' = Touched(e) /\ hit /\ Lock(by, "save")
  <2>1. PICK e \in index : index' = Touched(e)
    BY <1>1 DEF Named
  <2> QED
    BY <1>1, <2>1, TouchFacts DEF Lock
<1>2. CASE files[n] = None /\ ~hit /\ Lock(by, "save") /\ \E e \in Named(n) : index' = index \ {e}
  BY <1>2 DEF Lock, TypeOK, UniqueKeys
<1>3. CASE files[n] # None /\ hit /\ Lock(by, "save") /\ index' = Put(files[n], n)
  <2>1. files[n] \in Hash
    BY <1>3 DEF TypeOK
  <2> QED
    BY <1>3, <2>1, PutFacts DEF Lock
<1>4. CASE files[n] = None /\ ~hit /\ phase = "free" /\ UNCHANGED <<index, phase, holder>>
  BY <1>4 DEF TypeOK
<1> QED
  BY <1>1, <1>2, <1>3, <1>4 DEF Lookup

\* What a lookup leaves in a truthful index is as true, and of the names that
\* were there or have a file.
LEMMA LookupFacts ==
  ASSUME TypeOK, IndexTruth,
         NEW n \in Name, NEW hit \in BOOLEAN, NEW by \in Worker \cup {"query"},
         Lookup(n, hit, by), NEW e \in index'
  PROVE  /\ e.name \notin doubted => files[e.name] \in {None, e.hash}
         /\ e.size = Size[e.hash]
         /\ files[e.name] = None => \E f \in index : f.name = e.name
         /\ \/ \E f \in index : f.name = e.name
            \/ files[e.name] # None
<1>1. CASE \E g \in Named(n) : index' = Touched(g)
  <2>1. PICK g \in index : index' = Touched(g)
    BY <1>1 DEF Named
  <2> QED
    BY <2>1, TouchFacts DEF IndexTruth
<1>2. CASE index' \subseteq index
  BY <1>2 DEF IndexTruth
<1>3. CASE files[n] # None /\ index' = Put(files[n], n)
  <2>1. files[n] \in Hash
    BY <1>3 DEF TypeOK
  <2> QED
    BY <1>3, <2>1, PutFacts DEF IndexTruth
<1> QED
  BY <1>1, <1>2, <1>3 DEF Lookup

-----------------------------------------------------------------------------
(* Type correctness. *)

ReqOK(r) ==
  /\ r \in [Worker -> [pc : Steps, name : Name \cup {None},
                       want : Hash \cup {None}, got : Hash \cup {None}]]
  /\ \A w \in Worker : /\ r[w].pc # "idle" => r[w].name \in Name
                       /\ r[w].pc \in {"placed", "register"} => r[w].got \in Hash

\* The name of a request in progress, and the hash of its download.
LEMMA ReqFacts ==
  ASSUME TypeOK, NEW w \in Worker
  PROVE  /\ req[w].pc # "idle" => req[w].name \in Name
         /\ req[w].pc = "fetch" => req[w].name \in Name
         /\ req[w].pc = "placed" => req[w].name \in Name /\ req[w].got \in Hash
BY DEF TypeOK

\* A move of one request keeps the types of the requests.
LEMMA GotoType ==
  ASSUME TypeOK, NEW w \in Worker, NEW pc \in Steps, Goto(w, pc),
         req[w].pc # "idle", pc \in {"placed", "register"} => req[w].pc = "placed"
  PROVE  ReqOK(req')
BY DEF TypeOK, Goto, ReqOK

LEMMA FinishType ==
  ASSUME TypeOK, NEW w \in Worker, Finish(w)
  PROVE  ReqOK(req')
BY DEF TypeOK, Finish, Idle, Steps, ReqOK

\* What a restart makes of the index: entries of the index file, each with its
\* file, and what of them memory had dropped is in doubt; and of the file.
LEMMA RestartFacts ==
  ASSUME TypeOK, Restart
  PROVE  /\ index' \subseteq saved /\ \A e \in index' : files[e.name] # None
         /\ saved' \subseteq saved
         /\ torn' \in BOOLEAN /\ stale' \in BOOLEAN /\ (torn' => saved' = {})
         /\ torn' \/ stale' \/ saved' = index'
         /\ doubted \subseteq doubted' /\ doubted' \subseteq Name
         /\ OnFile' \subseteq index'
         /\ \A e \in index' : e.name \in doubted' \/
              \E f \in index \cup OnFile : f.hash = e.hash /\ f.name = e.name
<1>1. CASE LoadNothing /\ UNCHANGED doubted
  BY <1>1 DEF LoadNothing, TypeOK
<1>2. CASE LoadSaved /\ doubted' = doubted \cup Revived
  <2>1. /\ index' = Load(saved) /\ ~torn
        /\ \/ saved' = saved /\ index' = saved /\ torn' = torn /\ stale' = FALSE
           \/ saved' = index' /\ torn' = FALSE /\ stale' = FALSE
           \/ saved' = {} /\ torn' = TRUE /\ stale' = FALSE
           \/ saved' = saved /\ torn' = torn /\ stale' = TRUE
    BY <1>2 DEF LoadSaved, Saving
  <2>2. index' \subseteq saved /\ \A e \in index' : files[e.name] # None
    BY <2>1 DEF Load
  <2>3. Revived \subseteq Name
    BY DEF Revived, Load, TypeOK, Entry
  <2>4. ASSUME NEW e \in index', stale
        PROVE  e.name \in Revived \/ \E f \in index : f.hash = e.hash /\ f.name = e.name
    BY <2>1, <2>4 DEF Revived
  <2>5. ~stale => \A e \in index' : \E f \in index \cup OnFile : f.hash = e.hash /\ f.name = e.name
    BY <2>2
  <2>6. torn' \in BOOLEAN /\ stale' \in BOOLEAN
    BY <2>1 DEF TypeOK
  <2>7. torn' => saved' = {}
    BY <2>1
  <2>8. OnFile' \subseteq index'
    <3>1. stale' \/ saved' \subseteq index'
      BY <2>1
    <3> QED
      BY <3>1
  <2> QED
    BY <1>2, <2>1, <2>2, <2>3, <2>4, <2>5, <2>6, <2>7, <2>8 DEF TypeOK
<1> QED
  BY <1>1, <1>2 DEF Restart

\* The types hold initially.
LEMMA TypeInit == Init => TypeOK
<1> SUFFICES ASSUME Init PROVE TypeOK
  OBVIOUS
<1>1. Idle \in [pc : Steps, name : Name \cup {None},
                want : Hash \cup {None}, got : Hash \cup {None}]
  BY DEF Idle, Steps
<1>2. \A w \in Worker : req[w] = Idle /\ req[w].pc = "idle"
  BY DEF Init, Idle
<1>3. files \in [Name -> Hash \cup {None}] /\ req \in [Worker -> {Idle}]
  BY DEF Init
<1> QED
  BY <1>1, <1>2, <1>3 DEF Init, TypeOK, UniqueKeys

\* Every action keeps the types.
LEMMA TypeNext ==
  ASSUME TypeOK, [Next]_vars
  PROVE  TypeOK'
<1>1. CASE Query
  <2>1. PICK n \in Name, hit \in BOOLEAN : Lookup(n, hit, "query")
    BY <1>1 DEF Query
  <2> QED
    BY <1>1, <2>1, LookupTypes DEF Query, TypeOK, UniqueKeys, pass
<1>2. CASE QueryHash
  <2>1. PICK e \in index :
          index' = IF files[e.name] # None THEN Touched(e) ELSE index \ {e}
    BY <1>2 DEF QueryHash
  <2>2. index' \in SUBSET Entry /\ UniqueKeys(index')
    BY <2>1, TouchFacts DEF TypeOK, UniqueKeys
  <2> QED
    BY <1>2, <2>2 DEF QueryHash, Lock, TypeOK, UniqueKeys, pass
<1>3. ASSUME NEW w \in Worker, Get(w) PROVE TypeOK'
  <2>1. PICK n \in Name, h \in Hash \cup {None}, hit \in BOOLEAN :
          /\ Lookup(n, hit, w)
          /\ req' = [req EXCEPT ![w] = [pc |-> IF hit THEN "hit" ELSE "fetch",
                                        name |-> n, want |-> h, got |-> None]]
    BY <1>3 DEF Get
  <2>2. ReqOK(req')
    BY <2>1 DEF TypeOK, ReqOK, Steps
  <2> QED
    BY <1>3, <2>1, <2>2, LookupTypes DEF Get, TypeOK, ReqOK, UniqueKeys, pass
<1>4. ASSUME NEW w \in Worker, Check(w) PROVE TypeOK'
  <2>1. Goto(w, "drop") \/ Finish(w)
    BY <1>4 DEF Check
  <2> QED
    BY <1>4, <2>1, GotoType, FinishType DEF Check, TypeOK, ReqOK, Steps, UniqueKeys, pass
<1>5. ASSUME NEW w \in Worker, UnlinkCorrupt(w) PROVE TypeOK'
  <2>1. Goto(w, "forget") \/ Goto(w, "fetch")
    BY <1>5 DEF UnlinkCorrupt
  <2>2. files' \in [Name -> Hash \cup {None}] /\ doubted' \subseteq Name
    BY <1>5, ReqFacts DEF UnlinkCorrupt, TypeOK
  <2> QED
    BY <1>5, <2>1, <2>2, GotoType DEF UnlinkCorrupt, TypeOK, ReqOK, Steps, UniqueKeys, pass
<1>6. ASSUME NEW w \in Worker, ForgetCorrupt(w) PROVE TypeOK'
  BY <1>6, GotoType DEF ForgetCorrupt, Lock, TypeOK, ReqOK, Steps, UniqueKeys, pass
<1>7. ASSUME NEW w \in Worker, Place(w) PROVE TypeOK'
  <2>1. PICK h \in Hash : /\ files' = [files EXCEPT ![req[w].name] = h]
                         /\ req' = [req EXCEPT ![w].pc = "placed", ![w].got = h]
    BY <1>7 DEF Place
  <2>0. req[w].pc = "fetch"
    BY <1>7 DEF Place
  <2>3. req[w].name \in Name
    BY <2>0, ReqFacts
  <2>2. ReqOK(req')
    BY <2>1, <2>0 DEF TypeOK, ReqOK, Steps
  <2>4. files' \in [Name -> Hash \cup {None}]
    BY <2>1, <2>3 DEF TypeOK
  <2> QED
    BY <1>7, <2>2, <2>4 DEF Place, TypeOK, ReqOK, UniqueKeys, pass
<1>8. ASSUME NEW w \in Worker, Abort(w) PROVE TypeOK'
  BY <1>8, FinishType DEF Abort, TypeOK, ReqOK, UniqueKeys, pass
<1>9. ASSUME NEW w \in Worker, Register(w) PROVE TypeOK'
  <2>1. CASE Finish(w) /\ UNCHANGED <<index, phase, holder, pass>>
    BY <1>9, <2>1, FinishType DEF Register, TypeOK, ReqOK, UniqueKeys, pass
  <2>2. CASE /\ files[req[w].name] # None /\ Lock(w, "evict") /\ Goto(w, "register")
             /\ index' = {e \in Put(req[w].got, req[w].name) : files[e.name] # None}
             /\ todo' = index' /\ stuck' = {}
    <3>1. req[w].pc = "placed" /\ req[w].name \in Name /\ req[w].got \in Hash
      BY <1>9, ReqFacts DEF Register
    <3> DEFINE put == Put(req[w].got, req[w].name)
    <3>2. put \in SUBSET Entry /\ UniqueKeys(put)
      BY <2>2, <3>1, PutFacts
    <3> HIDE DEF put
    <3>3. index' \in SUBSET Entry /\ UniqueKeys(index')
      <4>1. index' \subseteq put
        BY <2>2 DEF put
      <4> QED
        BY <3>2, <4>1 DEF UniqueKeys
    <3>4. ReqOK(req')
      BY <2>2, <3>1, GotoType DEF Steps
    <3> QED
      BY <1>9, <2>2, <3>3, <3>4 DEF Register, Lock, TypeOK, ReqOK
  <2> QED
    BY <1>9, <2>1, <2>2 DEF Register
<1>10. CASE EvictStep
  BY <1>10 DEF EvictStep, TypeOK, UniqueKeys
<1>11. CASE EvictDone
  BY <1>11 DEF EvictDone, PassOver, TypeOK, UniqueKeys
<1>12. CASE Save
  <2>1. ReqOK(req')
    BY <1>12 DEF Save, TypeOK, ReqOK, Idle, Steps
  <2>2. saved' \in SUBSET Entry /\ UniqueKeys(saved') /\ torn' \in BOOLEAN /\ stale' \in BOOLEAN
    BY <1>12 DEF Save, Saving, TypeOK, UniqueKeys
  <2> QED
    BY <1>12, <2>1, <2>2 DEF Save, TypeOK, ReqOK, UniqueKeys, pass
<1>13. CASE Restart
  <2>1. ReqOK(req')
    BY <1>13 DEF Restart, ReqOK, Idle, Steps
  <2>2. /\ index' \subseteq saved /\ saved' \subseteq saved
        /\ torn' \in BOOLEAN /\ stale' \in BOOLEAN /\ doubted' \subseteq Name
    BY <1>13, RestartFacts
  <2> QED
    BY <1>13, <2>1, <2>2 DEF Restart, PassOver, TypeOK, ReqOK, UniqueKeys
<1>14. CASE Tick
  BY <1>14 DEF Tick, TypeOK, UniqueKeys, pass
<1>15. CASE UNCHANGED vars
  BY <1>15 DEF vars, TypeOK, UniqueKeys, pass
<1> QED
  BY <1>1, <1>2, <1>3, <1>4, <1>5, <1>6, <1>7, <1>8, <1>9, <1>10, <1>11,
     <1>12, <1>13, <1>14, <1>15 DEF Next, Request, LockStep

-----------------------------------------------------------------------------
(* The inductive invariant, action by action. *)

Safety == LockShape /\ Durable /\ IndexTruth /\ Grounded /\ OnePerName /\ Clean

\* A plain lookup.
LEMMA QueryInv ==
  ASSUME Inv, Query
  PROVE  Safety'
<1>1. PICK n \in Name, hit \in BOOLEAN : Lookup(n, hit, "query")
  BY DEF Query
<1>2. UNCHANGED <<files, indexFile, req, doubted>>
  BY DEF Query
<1>3. LockShape' /\ Durable'
  BY <1>1, <1>2, LookupTypes, LookupFacts DEF Inv, LockShape, Durable
<1>4. IndexTruth'
  BY <1>1, <1>2, LookupTypes, LookupFacts DEF Inv, IndexTruth
<1>5. Grounded'
  BY <1>1, <1>2, LookupTypes, LookupFacts DEF Inv, Grounded
<1>6. OnePerName'
  BY <1>2 DEF Inv, OnePerName
<1>7. Clean'
  <2> SUFFICES ASSUME NEW w \in Worker
               PROVE  /\ req[w].name \notin doubted =>
                           /\ req[w].pc \in {"fetch", "forget"} => files[req[w].name] = None
                           /\ req[w].pc = "fetch" =>
                                /\ \A e \in index' : e.name # req[w].name
                                /\ holder' # w => \A e \in OnFile : e.name # req[w].name
                      /\ req[w].pc = "placed" => files[req[w].name] \in {None, req[w].got}
    BY <1>2 DEF Clean
  <2>1. holder' # w => holder # w
    BY <1>1, LookupTypes, LookupFacts, ConstantsAssumption DEF Inv, LockShape, TypeOK
  <2> QED
    BY <1>1, <2>1, LookupTypes, LookupFacts DEF Inv, Clean
<1> QED
  BY <1>3, <1>4, <1>5, <1>6, <1>7 DEF Safety

\* A lookup by hash.
LEMMA QueryHashInv ==
  ASSUME Inv, QueryHash
  PROVE  Safety'
<1>1. PICK e \in index :
        index' = IF files[e.name] # None THEN Touched(e) ELSE index \ {e}
  BY DEF QueryHash
<1>2. UNCHANGED <<files, indexFile, req, doubted>> /\ phase = "free" /\ phase' = "save"
  BY DEF QueryHash, Lock
<1>3. holder = None /\ holder' = "query"
  BY <1>2 DEF QueryHash, Lock, Inv, LockShape
<1>4. \A f \in index' : \E g \in index :
        f.hash = g.hash /\ f.name = g.name /\ f.size = g.size
  BY <1>1, TouchFacts DEF Inv
<1>5. LockShape' /\ Durable'
  BY <1>2 DEF Inv, LockShape, Durable
<1>6. IndexTruth'
  BY <1>2, <1>4 DEF Inv, IndexTruth
<1>7. Grounded'
  BY <1>2, <1>4 DEF Inv, Grounded
<1>8. OnePerName'
  BY <1>2 DEF Inv, OnePerName
<1>9. Clean'
  BY <1>2, <1>3, <1>4, ConstantsAssumption DEF Inv, Clean
<1> QED
  BY <1>5, <1>6, <1>7, <1>8, <1>9 DEF Safety

\* A GET takes a name that no request has: a miss finds no entry, since an
\* entry without a file belongs to a request for that name.
LEMMA GetInv ==
  ASSUME Inv, Exclusive, NEW w \in Worker, Get(w)
  PROVE  Safety'
<1>1. PICK n \in Name, h \in Hash \cup {None}, hit \in BOOLEAN :
        /\ \A v \in Worker : req[v].name # n
        /\ Lookup(n, hit, w)
        /\ req' = [req EXCEPT ![w] = [pc |-> IF hit THEN "hit" ELSE "fetch",
                                      name |-> n, want |-> h, got |-> None]]
  BY DEF Get
<1>2. UNCHANGED <<files, indexFile, doubted>>
  BY DEF Get
<1>3. req \in [Worker -> [pc : Steps, name : Name \cup {None},
                          want : Hash \cup {None}, got : Hash \cup {None}]]
  BY DEF Inv, TypeOK
<1>4. \A v \in Worker : v # w => req'[v] = req[v]
  BY <1>1, <1>3
<1>5. /\ req'[w].name = n
      /\ req'[w].pc \in {"hit", "fetch"}
      /\ req'[w].pc = "fetch" => ~hit
  BY <1>1, <1>3
<1>6. files[n] = None /\ n \notin doubted => \A e \in index : e.name # n
  BY <1>1 DEF Inv, Grounded
<1>7. LockShape' /\ Durable'
  BY <1>1, <1>2, LookupTypes, LookupFacts DEF Inv, LockShape, Durable
<1>8. IndexTruth'
  BY <1>1, <1>2, LookupTypes, LookupFacts DEF Inv, IndexTruth
<1>9. Grounded'
  <2> SUFFICES ASSUME NEW e \in index', files[e.name] = None, e.name \notin doubted
               PROVE  \E v \in Worker : req'[v].pc = "forget" /\ req'[v].name = e.name
    BY <1>2 DEF Grounded
  <2>1. PICK v \in Worker : req[v].pc = "forget" /\ req[v].name = e.name
    BY <1>1, LookupTypes, LookupFacts DEF Inv, Grounded
  <2>2. v # w
    BY <2>1 DEF Get
  <2> QED
    BY <1>4, <2>1, <2>2
<1>10. OnePerName'
  BY <1>1, <1>4, <1>5 DEF Inv, OnePerName
<1>11. Clean'
  <2>1. ASSUME NEW v \in Worker, v # w
        PROVE  /\ req'[v].name \notin doubted =>
                    /\ req'[v].pc \in {"fetch", "forget"} => files[req'[v].name] = None
                    /\ req'[v].pc = "fetch" =>
                         /\ \A e \in index' : e.name # req'[v].name
                         /\ holder' # v => \A e \in OnFile : e.name # req'[v].name
               /\ req'[v].pc = "placed" => files[req'[v].name] \in {None, req'[v].got}
    <3>1. holder' # v => holder # v
      BY <1>1, LookupTypes, LookupFacts, ConstantsAssumption DEF Inv, LockShape, TypeOK
    <3> QED
      BY <1>1, <1>4, <2>1, <3>1, LookupTypes, LookupFacts DEF Inv, Clean
  <2>2. n \notin doubted =>
          /\ req'[w].pc \in {"fetch", "forget"} => files[n] = None
          /\ req'[w].pc = "fetch" =>
               /\ \A e \in index' : e.name # n
               /\ holder' # w => \A e \in OnFile : e.name # n
    <3>1. SUFFICES ASSUME n \notin doubted, req'[w].pc \in {"fetch", "forget"}
                   PROVE  /\ files[n] = None
                          /\ \A e \in index' : e.name # n
                          /\ holder' # w => \A e \in OnFile : e.name # n
      OBVIOUS
    <3>2. files[n] = None
      BY <1>1, <1>5, <3>1, LookupTypes, LookupFacts DEF Inv
    <3>3. \A e \in index' : e.name # n
      BY <1>1, <1>6, <3>1, <3>2, LookupTypes, LookupFacts DEF Inv
    <3>4. holder' # w => index' = index /\ phase = "free"
      BY <1>1, LookupTypes, LookupFacts DEF Inv
    <3> QED
      BY <1>6, <3>2, <3>3, <3>4 DEF Inv, Durable, LockShape
  <2> QED
    BY <1>2, <1>5, <2>1, <2>2 DEF Clean
<1> QED
  BY <1>7, <1>8, <1>9, <1>10, <1>11 DEF Safety

\* A request that moves on without touching files or the index, to a step of
\* which Clean says nothing.
LEMMA MoveInv ==
  ASSUME Inv, NEW w \in Worker, req[w].pc # "forget",
         UNCHANGED <<files, index, indexFile, clock, phase, holder, pass, doubted>>,
         Finish(w) \/ Goto(w, "drop")
  PROVE  Safety'
<1>1. req \in [Worker -> [pc : Steps, name : Name \cup {None},
                          want : Hash \cup {None}, got : Hash \cup {None}]]
  BY DEF Inv, TypeOK
<1>2. /\ \A v \in Worker : v # w => req'[v] = req[v]
      /\ req'[w].pc \in {"idle", "drop"}
      /\ req'[w].name \in {None, req[w].name}
  BY <1>1 DEF Finish, Goto, Idle
<1>3. LockShape' /\ Durable' /\ IndexTruth'
  BY DEF Inv, LockShape, Durable, IndexTruth, pass
<1>4. Grounded'
  BY <1>2 DEF Inv, Grounded
<1>5. OnePerName'
  BY <1>2 DEF Inv, OnePerName
<1>6. Clean'
  BY <1>2 DEF Inv, Clean
<1> QED
  BY <1>3, <1>4, <1>5, <1>6 DEF Safety

\* Once a corrupt file is gone its entries wait for this request to remove
\* them; when it was gone before, no entry of its name is left; when it cannot
\* be removed, its name is in doubt.
LEMMA UnlinkInv ==
  ASSUME Inv, Exclusive, NEW w \in Worker, UnlinkCorrupt(w)
  PROVE  Safety'
<1> DEFINE n == req[w].name
<1>1. /\ req[w].pc = "drop" /\ n \in Name /\ n # None
      /\ UNCHANGED <<index, indexFile, phase, holder, todo>>
  BY ReqFacts, ConstantsAssumption DEF UnlinkCorrupt, Inv, pass
<1>2. \A v \in Worker : v # w => req[v].name # n
  BY <1>1 DEF Inv, OnePerName
<1>3. /\ req \in [Worker -> [pc : Steps, name : Name \cup {None},
                          want : Hash \cup {None}, got : Hash \cup {None}]]
      /\ files \in [Name -> Hash \cup {None}]
  BY DEF Inv, TypeOK
<1>4. CASE /\ files[n] # None /\ files' = [files EXCEPT ![n] = None] /\ Goto(w, "forget")
           /\ UNCHANGED doubted
  <2>1. /\ \A v \in Worker : v # w => req'[v] = req[v]
        /\ req'[w].pc = "forget" /\ req'[w].name = n
    BY <1>3, <1>4 DEF Goto
  <2>2. /\ files'[n] = None
        /\ \A m \in Name : m # n => files'[m] = files[m]
    BY <1>1, <1>3, <1>4
  <2>3. \A e \in index \cup saved : e.name \in Name
    BY DEF Inv, TypeOK, Entry
  <2>4. LockShape' /\ Durable' /\ IndexTruth'
    BY <1>1, <1>4, <2>2, <2>3 DEF Inv, LockShape, Durable, IndexTruth
  <2>5. Grounded'
    <3> SUFFICES ASSUME NEW e \in index, files'[e.name] = None, e.name \notin doubted
                 PROVE  \E v \in Worker : req'[v].pc = "forget" /\ req'[v].name = e.name
      BY <1>1, <1>4 DEF Grounded
    <3>1. CASE e.name = n
      BY <2>1, <3>1
    <3>2. CASE e.name # n
      <4>1. files[e.name] = None
        BY <2>2, <2>3, <3>2
      <4> QED
        BY <1>1, <2>1, <4>1 DEF Inv, Grounded
    <3> QED
      BY <3>1, <3>2
  <2>6. OnePerName'
    BY <2>1 DEF Inv, OnePerName
  <2>7. Clean'
    <3>1. ASSUME NEW v \in Worker, v # w, req[v].pc \in {"fetch", "forget", "placed"}
          PROVE  files'[req[v].name] = files[req[v].name]
      BY <1>2, <2>2, <3>1, ReqFacts DEF Inv
    <3> QED
      BY <1>1, <1>4, <2>1, <2>2, <3>1 DEF Inv, Clean
  <2> QED
    BY <2>4, <2>5, <2>6, <2>7 DEF Safety
<1>5. CASE files[n] = None /\ phase = "free" /\ Goto(w, "fetch") /\ UNCHANGED <<files, doubted>>
  <2>1. /\ \A v \in Worker : v # w => req'[v] = req[v]
        /\ req'[w].pc = "fetch" /\ req'[w].name = n
    BY <1>3, <1>5 DEF Goto
  <2>2. n \notin doubted => \A e \in index : e.name # n
    BY <1>1, <1>2, <1>5 DEF Inv, Grounded
  <2>3. n \notin doubted => \A e \in OnFile : e.name # n
    BY <1>5, <2>2 DEF Inv, Durable, LockShape
  <2>4. LockShape' /\ Durable' /\ IndexTruth'
    BY <1>1, <1>5 DEF Inv, LockShape, Durable, IndexTruth
  <2>5. Grounded'
    BY <1>1, <1>5, <2>1 DEF Inv, Grounded
  <2>6. OnePerName'
    BY <2>1 DEF Inv, OnePerName
  <2>7. Clean'
    BY <1>1, <1>5, <2>1, <2>2, <2>3 DEF Inv, Clean
  <2> QED
    BY <2>4, <2>5, <2>6, <2>7 DEF Safety
<1>6. CASE doubted' = doubted \cup {n} /\ Goto(w, "fetch") /\ UNCHANGED files
  <2>1. /\ \A v \in Worker : v # w => req'[v] = req[v]
        /\ req'[w].pc = "fetch" /\ req'[w].name = n
    BY <1>3, <1>6 DEF Goto
  <2>2. LockShape' /\ Durable' /\ IndexTruth'
    BY <1>1, <1>6 DEF Inv, LockShape, Durable, IndexTruth
  <2>3. Grounded'
    BY <1>1, <1>6, <2>1 DEF Inv, Grounded
  <2>4. OnePerName'
    BY <2>1 DEF Inv, OnePerName
  <2>5. Clean'
    BY <1>1, <1>6, <2>1 DEF Inv, Clean
  <2> QED
    BY <2>2, <2>3, <2>4, <2>5 DEF Safety
<1> QED
  BY <1>4, <1>5, <1>6 DEF UnlinkCorrupt

\* The entries of the corrupt file are gone when the download begins.
LEMMA ForgetInv ==
  ASSUME Inv, NEW w \in Worker, ForgetCorrupt(w)
  PROVE  Safety'
<1> DEFINE n == req[w].name
<1>1. /\ req[w].pc = "forget" /\ UNCHANGED <<files, indexFile, doubted>>
      /\ phase = "free" /\ phase' = "save" /\ holder' = w
      /\ index' = {e \in index : e.name # n}
  BY DEF ForgetCorrupt, Lock, Named
<1>2. /\ \A v \in Worker : v # w => req'[v] = req[v]
      /\ req'[w].pc = "fetch" /\ req'[w].name = n
  BY DEF ForgetCorrupt, Goto, Inv, TypeOK
<1>3. LockShape' /\ Durable' /\ IndexTruth'
  BY <1>1 DEF Inv, LockShape, Durable, IndexTruth
<1>4. Grounded'
  BY <1>1, <1>2 DEF Inv, Grounded
<1>5. OnePerName'
  BY <1>2 DEF Inv, OnePerName
<1>6. holder = None /\ w # None
  BY <1>1, ConstantsAssumption DEF Inv, LockShape
<1>7. Clean'
  BY <1>1, <1>2, <1>6, ConstantsAssumption DEF Inv, Clean
<1> QED
  BY <1>3, <1>4, <1>5, <1>7 DEF Safety

\* A download that ends replaces a file of which no entry speaks.
LEMMA PlaceInv ==
  ASSUME Inv, NEW w \in Worker, Place(w)
  PROVE  Safety'
<1> DEFINE n == req[w].name
<1>1. /\ req[w].pc = "fetch" /\ holder # w /\ n \in Name /\ n # None
      /\ UNCHANGED <<index, indexFile, phase, holder, todo, doubted>>
  BY ReqFacts, ConstantsAssumption DEF Place, Inv, pass
<1>2. PICK h \in Hash : /\ files' = [files EXCEPT ![n] = h]
                        /\ req' = [req EXCEPT ![w].pc = "placed", ![w].got = h]
  BY DEF Place
<1>3. /\ \A v \in Worker : v # w => req'[v] = req[v]
      /\ req'[w].pc = "placed" /\ req'[w].name = n /\ req'[w].got = h
  BY <1>2 DEF Inv, TypeOK
<1>4. /\ files'[n] = h
      /\ \A m \in Name : m # n => files'[m] = files[m]
  BY <1>1, <1>2 DEF Inv, TypeOK
<1>5. \A e \in index \cup OnFile : e.name \in Name /\ (n \notin doubted => e.name # n)
  BY <1>1 DEF Inv, Clean, TypeOK, Entry
<1>6. LockShape' /\ Durable' /\ IndexTruth'
  BY <1>1, <1>4, <1>5 DEF Inv, LockShape, Durable, IndexTruth
<1>7. Grounded'
  <2> SUFFICES ASSUME NEW e \in index, files'[e.name] = None, e.name \notin doubted
               PROVE  \E v \in Worker : req'[v].pc = "forget" /\ req'[v].name = e.name
    BY <1>1 DEF Grounded
  <2>1. files[e.name] = None
    BY <1>4, <1>5
  <2> QED
    BY <1>1, <1>3, <2>1 DEF Inv, Grounded
<1>8. OnePerName'
  BY <1>3 DEF Inv, OnePerName
<1>9. Clean'
  <2>1. ASSUME NEW v \in Worker, v # w, req[v].pc \in {"fetch", "forget", "placed"}
        PROVE  files'[req[v].name] = files[req[v].name]
    BY <1>1, <1>4, <2>1, ReqFacts DEF Inv, OnePerName
  <2> QED
    BY <1>1, <1>3, <1>4, <2>1 DEF Inv, Clean
<1> QED
  BY <1>6, <1>7, <1>8, <1>9 DEF Safety

\* What a download registers is the file that is there.
LEMMA RegisterInv ==
  ASSUME Inv, NEW w \in Worker, Register(w)
  PROVE  Safety'
<1> DEFINE n == req[w].name
<1>1. /\ req[w].pc = "placed" /\ n \in Name /\ n # None /\ req[w].got \in Hash
      /\ UNCHANGED <<files, indexFile, clock, doubted>>
  BY ReqFacts, ConstantsAssumption DEF Register, Inv
<1>2. CASE files[n] = None /\ Finish(w) /\ UNCHANGED <<index, phase, holder, pass>>
  BY <1>1, <1>2, MoveInv
<1>3. CASE /\ files[n] # None /\ Lock(w, "evict") /\ Goto(w, "register")
           /\ index' = {e \in Put(req[w].got, n) : files[e.name] # None}
           /\ todo' = index'
  <2>1. files[n] = req[w].got
    BY <1>1, <1>3 DEF Inv, Clean
  <2>2. /\ \A v \in Worker : v # w => req'[v] = req[v]
        /\ req'[w].pc = "register" /\ req'[w].name = n
    BY <1>3 DEF Goto, Inv, TypeOK
  <2>3. \A e \in index' :
          /\ files[e.name] # None
          /\ e \in index \/ (e.name = n /\ e.hash = files[n] /\ e.size = Size[files[n]])
    BY <1>1, <1>3, <2>1, PutFacts DEF Inv
  <2>4. phase = "free" /\ phase' = "evict" /\ holder = None /\ holder' = w
    BY <1>3 DEF Lock, Inv, LockShape
  <2>5. LockShape' /\ Durable'
    BY <1>1, <1>3, <2>4 DEF Inv, LockShape, Durable
  <2>6. IndexTruth'
    BY <1>1, <2>3 DEF Inv, IndexTruth
  <2>7. Grounded'
    BY <1>1, <2>3 DEF Grounded
  <2>8. OnePerName'
    BY <2>2 DEF Inv, OnePerName
  <2>9. Clean'
    <3>1. ASSUME NEW v \in Worker, v # w PROVE req[v].name # n /\ holder # v
      BY <1>1, <2>4, <3>1, ConstantsAssumption DEF Inv, OnePerName
    <3> QED
      BY <1>1, <2>2, <2>3, <3>1 DEF Inv, Clean
  <2> QED
    BY <2>5, <2>6, <2>7, <2>8, <2>9 DEF Safety
<1> QED
  BY <1>2, <1>3 DEF Register

\* Two entries of one name with a file have the hash of that file, hence are
\* one entry: an eviction leaves no entry without a file.
LEMMA EvictInv ==
  ASSUME Inv, EvictStep
  PROVE  Safety'
<1>1. UNCHANGED <<indexFile, clock, phase, holder, req, doubted>> /\ phase = "evict"
  BY DEF EvictStep
<1>2. PICK e \in todo :
        /\ todo' = todo \ {e}
        /\ index \ {e} \subseteq index'
        /\ \/ /\ files[e.name] # None
              /\ files' = [files EXCEPT ![e.name] = None]
              /\ index' = index \ {e}
           \/ UNCHANGED files /\ index' \subseteq index
  BY DEF EvictStep
<1>3. /\ e.name \in Name /\ e.hash \in Hash
      /\ \A f \in index \cup saved : f.name \in Name /\ f.hash \in Hash
      /\ files \in [Name -> Hash \cup {None}]
  BY DEF Inv, TypeOK, Entry
<1>4. index' \subseteq index /\ \A m \in Name : files'[m] \in {files[m], None}
  BY <1>2, <1>3
<1>5. \A m : files[m] = None /\ m \in Name => files'[m] = None
  BY <1>4
<1>6. LockShape' /\ Durable'
  BY <1>1, <1>2 DEF Inv, LockShape, Durable
<1>7. IndexTruth'
  BY <1>1, <1>3, <1>4 DEF Inv, IndexTruth
<1>8. Grounded'
  <2> SUFFICES ASSUME NEW f \in index', files'[f.name] = None, f.name \notin doubted
               PROVE  \E w \in Worker : req[w].pc = "forget" /\ req[w].name = f.name
    BY <1>1 DEF Grounded
  <2>1. CASE files[f.name] = None
    BY <1>4, <2>1 DEF Inv, Grounded
  <2>2. CASE files[f.name] # None
    <3>1. /\ files[e.name] # None /\ index' = index \ {e}
          /\ files' = [files EXCEPT ![e.name] = None]
      BY <1>2, <2>2
    <3>2. f.name = e.name
      BY <1>3, <1>4, <2>2, <3>1
    <3>3. e \in index
      BY <1>1 DEF Inv, LockShape
    <3>4. f.hash = e.hash
      BY <1>3, <1>4, <2>2, <3>2, <3>3 DEF Inv, IndexTruth
    <3> QED
      BY <1>4, <3>1, <3>3, <3>4 DEF Inv, TypeOK, UniqueKeys
  <2> QED
    BY <2>1, <2>2
<1>9. OnePerName'
  BY <1>1 DEF Inv, OnePerName
<1>10. Clean'
  <2>1. ASSUME NEW w \in Worker, req[w].pc \in {"fetch", "forget", "placed"}
        PROVE  files'[req[w].name] \in {files[req[w].name], None}
    BY <1>4, <2>1, ReqFacts DEF Inv
  <2> QED
    BY <1>1, <1>4, <2>1 DEF Inv, Clean
<1> QED
  BY <1>6, <1>7, <1>8, <1>9, <1>10 DEF Safety

\* The index file receives what memory holds, or nothing that parses, or it is
\* stale.
LEMMA SaveInv ==
  ASSUME Inv, Save
  PROVE  Safety'
<1>1. /\ UNCHANGED <<files, index, doubted>>
      /\ phase' = "free" /\ holder' = None
      /\ \/ saved' = index /\ torn' = FALSE
         \/ saved' = {} /\ torn' = TRUE
         \/ saved' = saved /\ torn' = torn /\ stale' = TRUE
      /\ OnFile' \subseteq index
  BY DEF Save, Saving
<1>2. \A w \in Worker : req'[w] = req[w] \/ (req[w].pc = "register" /\ req'[w] = Idle)
  BY DEF Save
<1>3. LockShape' /\ Durable'
  BY <1>1 DEF Inv, LockShape, Durable
<1>4. IndexTruth'
  BY <1>1 DEF Inv, IndexTruth
<1>5. Grounded'
  BY <1>1, <1>2 DEF Inv, Grounded
<1>6. OnePerName'
  BY <1>2 DEF Inv, OnePerName, Idle
<1>7. Clean'
  BY <1>1, <1>2 DEF Inv, Clean, Idle
<1> QED
  BY <1>3, <1>4, <1>5, <1>6, <1>7 DEF Safety

\* After a restart memory has entries of the index file, each with its file,
\* those of names not in doubt it had before, and no request is in progress.
LEMMA RestartInv ==
  ASSUME Inv, Restart
  PROVE  Safety'
<1>1. UNCHANGED files /\ phase' = "free" /\ holder' = None
  BY DEF Restart
<1>2. \A w \in Worker : req'[w] = Idle
  BY DEF Restart
<1>3. LockShape' /\ Durable'
  BY <1>1, RestartFacts DEF Inv, LockShape, Durable
<1>4. IndexTruth'
  <2>1. ASSUME NEW e \in index', e.name \notin doubted'
        PROVE  files[e.name] \in {None, e.hash}
    <3>1. e.name \notin doubted
      BY <2>1, RestartFacts DEF Inv
    <3>2. PICK f \in index \cup OnFile : f.hash = e.hash /\ f.name = e.name
      BY <2>1, RestartFacts DEF Inv
    <3> QED
      BY <3>1, <3>2 DEF Inv, IndexTruth
  <2>2. index' \cup saved' \subseteq saved /\ OnFile' \subseteq index'
    BY RestartFacts DEF Inv
  <2> QED
    BY <1>1, <2>1, <2>2 DEF Inv, IndexTruth
<1>5. Grounded'
  BY <1>1, RestartFacts DEF Inv, Grounded
<1>6. OnePerName' /\ Clean'
  BY <1>2 DEF OnePerName, Clean, Idle
<1> QED
  BY <1>3, <1>4, <1>5, <1>6 DEF Safety

\* Steps that touch neither files, index, index file nor requests.
LEMMA QuietInv ==
  ASSUME Inv, UNCHANGED <<files, index, indexFile, holder, req, doubted>>,
         (phase' = phase /\ todo' = todo) \/ (phase = "evict" /\ phase' = "save")
  PROVE  Safety'
<1>1. LockShape' /\ Durable'
  BY DEF Inv, LockShape, Durable
<1>2. IndexTruth' /\ Grounded' /\ OnePerName' /\ Clean'
  BY DEF Inv, IndexTruth, Grounded, OnePerName, Clean
<1> QED
  BY <1>1, <1>2 DEF Safety

LEMMA InvInit == Init => Inv
<1> SUFFICES ASSUME Init PROVE Inv
  OBVIOUS
<1>1. \A w \in Worker : req[w] = Idle
  BY DEF Init
<1>2. OnePerName /\ Clean
  BY <1>1 DEF OnePerName, Clean, Idle
<1> QED
  BY <1>2, TypeInit DEF Init, Inv, LockShape, Durable, IndexTruth, Grounded

LEMMA InvNext == Exclusive /\ Inv /\ [Next]_vars => Inv'
<1> SUFFICES ASSUME Exclusive, Inv, [Next]_vars PROVE Inv'
  OBVIOUS
<1>1. TypeOK'
  BY TypeNext DEF Inv
<1>2. Safety'
  <2>1. CASE Query
    BY <2>1, QueryInv
  <2>2. CASE QueryHash
    BY <2>2, QueryHashInv
  <2>3. ASSUME NEW w \in Worker, Get(w) PROVE Safety'
    BY <2>3, GetInv
  <2>4. ASSUME NEW w \in Worker, Check(w) PROVE Safety'
    BY <2>4, MoveInv DEF Check
  <2>5. ASSUME NEW w \in Worker, UnlinkCorrupt(w) PROVE Safety'
    BY <2>5, UnlinkInv
  <2>6. ASSUME NEW w \in Worker, ForgetCorrupt(w) PROVE Safety'
    BY <2>6, ForgetInv
  <2>7. ASSUME NEW w \in Worker, Place(w) PROVE Safety'
    BY <2>7, PlaceInv
  <2>8. ASSUME NEW w \in Worker, Abort(w) PROVE Safety'
    BY <2>8, MoveInv DEF Abort
  <2>9. ASSUME NEW w \in Worker, Register(w) PROVE Safety'
    BY <2>9, RegisterInv
  <2>10. CASE EvictStep
    BY <2>10, EvictInv
  <2>11. CASE EvictDone
    BY <2>11, QuietInv DEF EvictDone
  <2>12. CASE Save
    BY <2>12, SaveInv
  <2>13. CASE Restart
    BY <2>13, RestartInv
  <2>14. CASE Tick \/ UNCHANGED vars
    <3>1. UNCHANGED <<files, index, indexFile, holder, req, phase, todo, doubted>>
      BY <2>14 DEF Tick, vars, pass
    <3> QED
      BY <3>1, QuietInv
  <2> QED
    BY <2>1, <2>2, <2>3, <2>4, <2>5, <2>6, <2>7, <2>8, <2>9, <2>10, <2>11,
       <2>12, <2>13, <2>14 DEF Next, Request, LockStep
<1> QED
  BY <1>1, <1>2 DEF Inv, Safety

-----------------------------------------------------------------------------
(* The theorems. *)

\* The strengthened invariant holds for every set of names, contents and
\* threads, every limit and every placement of crashes.
THEOREM InvHolds == Exclusive /\ Spec => []Inv
<1> SUFFICES ASSUME Exclusive PROVE Spec => []Inv
  OBVIOUS
<1>1. Init => Inv
  BY InvInit
<1>2. Inv /\ [Next]_vars => Inv'
  BY InvNext
<1> QED
  BY <1>1, <1>2, PTL DEF Spec

\* The variables keep their types and the index stays a dictionary, whatever
\* requests overlap.
THEOREM TypeCorrect == Spec => []TypeOK
BY TypeInit, TypeNext, PTL DEF Spec

\* The hash the index gives for a name is the hash of the file do_GET serves
\* in its stead, whatever lookups, evictions, failed saves and crashes, unless
\* the name is in doubt, by one of the three ways into doubt.
THEOREM EntriesTrue == Exclusive /\ Spec => []IndexTruth
<1>1. Inv => IndexTruth
  BY DEF Inv
<1> QED
  BY <1>1, InvHolds, PTL

\* Only the request that unlinked a corrupt file leaves entries without one,
\* of names not in doubt.
THEOREM EntriesGrounded == Exclusive /\ Spec => []Grounded
<1>1. Inv => Grounded
  BY DEF Inv
<1> QED
  BY <1>1, InvHolds, PTL

LEMMA DurableNext == Durable /\ [Next]_vars => Durable'
<1> SUFFICES ASSUME Durable, [Next]_vars PROVE Durable'
  OBVIOUS
<1>1. CASE UNCHANGED vars
  BY <1>1 DEF vars, indexFile, Durable
<1>2. CASE Query \/ QueryHash
  BY <1>2 DEF Query, QueryHash, Lookup, Lock, indexFile, Durable
<1>3. ASSUME NEW w \in Worker, Request(w) PROVE Durable'
  <2>1. CASE Get(w)
    BY <2>1 DEF Get, Lookup, Lock, indexFile, Durable
  <2>2. CASE Check(w) \/ UnlinkCorrupt(w) \/ Place(w) \/ Abort(w)
    BY <2>2 DEF Check, UnlinkCorrupt, Place, Abort, indexFile, Durable
  <2>3. CASE ForgetCorrupt(w) \/ Register(w)
    BY <2>3 DEF ForgetCorrupt, Register, Lock, indexFile, Durable
  <2> QED
    BY <1>3, <2>1, <2>2, <2>3 DEF Request
<1>4. CASE EvictStep \/ EvictDone
  BY <1>4 DEF EvictStep, EvictDone, Durable
<1>5. CASE Save
  BY <1>5 DEF Save, Saving, Durable
<1>6. CASE Restart
  BY <1>6 DEF Restart, LoadNothing, LoadSaved, Saving, Durable
<1>7. CASE Tick
  BY <1>7 DEF Tick, indexFile, Durable
<1> QED
  BY <1>1, <1>2, <1>3, <1>4, <1>5, <1>6, <1>7 DEF Next, LockStep

\* Between critical sections a restart loses no change of the index but by a
\* file that does not parse, or by a save that has just failed; whoever overlaps
\* with whom.
THEOREM IndexDurable == Spec => []Durable
<1>1. Init => Durable
  BY DEF Init, Durable
<1> QED
  BY <1>1, DurableNext, PTL DEF Spec

\* The running pass has yet to visit all that the index keeps, but what it
\* failed to unlink: nobody else changes the index meanwhile.
Unvisited == phase = "evict" => index \ stuck \subseteq todo

LEMMA UnvisitedNext == Unvisited /\ [Next]_vars => Unvisited'
<1> SUFFICES ASSUME Unvisited, [Next]_vars PROVE Unvisited'
  OBVIOUS
<1>1. CASE Query \/ QueryHash
  BY <1>1 DEF Query, QueryHash, Lookup, Lock, Unvisited
<1>2. ASSUME NEW w \in Worker, Get(w) PROVE Unvisited'
  BY <1>2 DEF Get, Lookup, Lock, Unvisited
<1>3. ASSUME NEW w \in Worker, Check(w) \/ UnlinkCorrupt(w) \/ Place(w) \/ Abort(w)
      PROVE  Unvisited'
  BY <1>3 DEF Check, UnlinkCorrupt, Place, Abort, pass, Unvisited
<1>4. ASSUME NEW w \in Worker, ForgetCorrupt(w) PROVE Unvisited'
  BY <1>4 DEF ForgetCorrupt, Lock, Unvisited
<1>5. ASSUME NEW w \in Worker, Register(w) PROVE Unvisited'
  BY <1>5 DEF Register, Lock, pass, Unvisited
<1>6. CASE EvictStep
  BY <1>6 DEF EvictStep, Unvisited
<1>7. CASE EvictDone \/ Save \/ Restart
  BY <1>7 DEF EvictDone, Save, Restart, Unvisited
<1>8. CASE Tick \/ UNCHANGED vars
  BY <1>8 DEF Tick, vars, pass, Unvisited
<1> QED
  BY <1>1, <1>2, <1>3, <1>4, <1>5, <1>6, <1>7, <1>8 DEF Next, Request, LockStep

LEMMA OldestStep ==
  ASSUME Unvisited, [Next]_vars, phase = "evict", phase' = "evict",
         NEW e \in index \ index', NEW f \in index' \ stuck
  PROVE  e.last <= f.last
<1>1. CASE EvictStep
  <2>1. PICK g \in todo : Oldest(g) /\ index' \in {index, index \ {g}}
    BY <1>1 DEF EvictStep
  <2>2. e = g /\ f \in todo
    BY <2>1 DEF Unvisited
  <2> QED
    BY <2>1, <2>2 DEF Oldest
<1>2. CASE UNCHANGED index
  BY <1>2
<1>3. EvictStep \/ UNCHANGED index
  BY DEF Next, vars, Query, QueryHash, Request, Get, Lookup, Lock, Check, UnlinkCorrupt,
         ForgetCorrupt, Place, Abort, Register, LockStep, EvictDone, Save, Restart, Tick
<1> QED
  BY <1>1, <1>2, <1>3

\* Whatever fails, and whoever reads, unlinks or downloads meanwhile, a pass
\* removes no entry while it keeps an older one it could have removed.
THEOREM EvictsOldestFirst == Spec => OldestFirst
<1>1. Init => Unvisited
  BY DEF Init, Unvisited
<1>2. Unvisited /\ [Next]_vars =>
        [phase = "evict" /\ phase' = "evict" =>
           \A e \in index \ index', f \in index' \ stuck : e.last <= f.last]_vars
  BY OldestStep
<1> QED
  BY <1>1, <1>2, UnvisitedNext, PTL DEF Spec, OldestFirst
-----------------------------------------------------------------------------
(* Sums of sizes.  MapThenSumSet takes one element after the other out of  *)
(* the set, whichever CHOOSE picks, by a recursive function.  That there   *)
(* is such a function for a finite set, and what it computes, is shown on  *)
(* a smallest set for which it would fail.                                 *)

Pick(s) == CHOOSE x \in s : TRUE
Sum(S, g) == [s \in SUBSET S |-> IF s = {} THEN 0 ELSE Pick(s).size + g[s \ {Pick(s)}]]
Summed(S) == CHOOSE g : g = Sum(S, g)

LEMMA BytesSummed ==
  ASSUME NEW S
  PROVE  Bytes(S) = Summed(S)[S]
BY DEF Bytes, MapThenSumSet, MapThenFoldSet, Summed, Sum, Pick

\* Of some subsets of a finite set one has no other below it.
LEMMA Smallest ==
  ASSUME NEW S, IsFiniteSet(S), NEW T, T \subseteq SUBSET S, T # {}
  PROVE  \E s \in T : IsFiniteSet(s) /\ \A t \in T : t \subseteq s => t = s
<1>1. IsWellFoundedOn(StrictSubsetOrdering(S), FiniteSubsetsOf(S))
  BY FS_StrictSubsetOrderingWellFounded
<1>2. FiniteSubsetsOf(S) = SUBSET S
  BY FS_FiniteSubsetsOfFinite
<1>3. PICK s \in T : \A t \in T : <<t, s>> \notin StrictSubsetOrdering(S)
  <2> HIDE DEF FiniteSubsetsOf, StrictSubsetOrdering
  <2> QED
    BY <1>1, <1>2, WFMin
<1>4. ASSUME NEW t \in T, t \subseteq s PROVE t = s
  BY <1>3, <1>4 DEF StrictSubsetOrdering
<1>5. IsFiniteSet(s)
  BY FS_Subset
<1> QED
  BY <1>4, <1>5

LEMMA PickFacts ==
  ASSUME NEW s, s # {}
  PROVE  /\ Pick(s) \in s
         /\ s \ {Pick(s)} \subseteq s /\ s \ {Pick(s)} # s
<1>1. Pick(s) \in s
  BY DEF Pick
<1> QED
  BY <1>1

\* Two such functions agree where both are defined.
LEMMA SumsAgree ==
  ASSUME NEW S, NEW T, NEW g, NEW h, g = Sum(S, g), h = Sum(T, h),
         NEW u, IsFiniteSet(u), u \subseteq S, u \subseteq T
  PROVE  g[u] = h[u]
<1> DEFINE Bad == {s \in SUBSET u : g[s] # h[s]}
<1>1. ASSUME NEW s \in Bad, \A t \in Bad : t \subseteq s => t = s
      PROVE  FALSE
  <2>1. s \in SUBSET S /\ s \in SUBSET T /\ g[s] # h[s]
    OBVIOUS
  <2>2. /\ g[s] = IF s = {} THEN 0 ELSE Pick(s).size + g[s \ {Pick(s)}]
        /\ h[s] = IF s = {} THEN 0 ELSE Pick(s).size + h[s \ {Pick(s)}]
    BY <2>1 DEF Sum
  <2>3. s # {}
    BY <2>1, <2>2
  <2>4. s \ {Pick(s)} \in SUBSET u /\ s \ {Pick(s)} \notin Bad
    BY <1>1, <2>3, PickFacts
  <2> QED
    BY <2>1, <2>2, <2>3, <2>4
<1>2. Bad = {}
  <2>1. Bad \subseteq SUBSET u
    OBVIOUS
  <2> HIDE DEF Bad
  <2> QED
    BY <1>1, <2>1, Smallest
<1> QED
  BY <1>2

\* For a finite set there is such a function.
LEMMA SumExists ==
  ASSUME NEW S, IsFiniteSet(S)
  PROVE  Summed(S) = Sum(S, Summed(S))
<1> DEFINE Bad == {s \in SUBSET S : Summed(s) # Sum(s, Summed(s))}
<1>0. ASSUME NEW s, NEW g, g = Sum(s, g) PROVE Summed(s) = Sum(s, Summed(s))
  BY <1>0 DEF Summed
<1>1. ASSUME NEW s \in Bad, IsFiniteSet(s), \A t \in Bad : t \subseteq s => t = s
      PROVE  FALSE
  <2>3. \A t \in SUBSET s : IsFiniteSet(t) /\ (t # s => Summed(t) = Sum(t, Summed(t)))
    BY <1>1, FS_Subset
  <2> DEFINE g == [t \in SUBSET s |->
                     IF t # s THEN Summed(t)[t]
                     ELSE IF s = {} THEN 0
                     ELSE Pick(s).size + Summed(s \ {Pick(s)})[s \ {Pick(s)}]]
  <2>4. ASSUME NEW t \in SUBSET s
        PROVE  g[t] = IF t = {} THEN 0 ELSE Pick(t).size + g[t \ {Pick(t)}]
    <3> DEFINE u == t \ {Pick(t)}
    <3>2. CASE t = {}
      <4>1. CASE t = s
        BY <3>2, <4>1
      <4>2. CASE t # s
        <5>1. Summed(t) = Sum(t, Summed(t))
          BY <2>3, <4>2
        <5>2. Summed(t)[t] = 0
          BY <3>2, <5>1 DEF Sum
        <5> QED
          BY <3>2, <4>2, <5>2
      <4> QED
        BY <4>1, <4>2
    <3>3. CASE t # {}
      <4>1. u \in SUBSET s /\ u # s /\ u \subseteq t /\ u # t /\ IsFiniteSet(u)
        BY <2>3, <3>3, PickFacts
      <4>2. g[u] = Summed(u)[u]
        BY <4>1
      <4>3. CASE t = s
        BY <3>3, <4>2, <4>3
      <4>4. CASE t # s
        <5>1. Summed(t) = Sum(t, Summed(t)) /\ Summed(u) = Sum(u, Summed(u))
          BY <2>3, <4>1, <4>4
        <5>2. Summed(t)[t] = Pick(t).size + Summed(t)[u]
          <6>1. \A G : G = Sum(t, G) => G[t] = Pick(t).size + G[u]
            BY <3>3 DEF Sum
          <6> QED
            BY <5>1, <6>1
        <5>3. Summed(t)[u] = Summed(u)[u]
          <6> HIDE DEF u
          <6> QED
            BY <4>1, <5>1, SumsAgree
        <5> QED
          BY <3>3, <4>2, <4>4, <5>2, <5>3
      <4> QED
        BY <4>3, <4>4
    <3> QED
      BY <3>2, <3>3
  <2>5. g = Sum(s, g)
    BY <2>4 DEF Sum
  <2> HIDE DEF g
  <2> QED
    BY <1>0, <2>5
<1>2. Bad = {}
  <2>1. Bad \subseteq SUBSET S
    OBVIOUS
  <2> HIDE DEF Bad
  <2> QED
    BY <1>1, <2>1, Smallest
<1> QED
  BY <1>2

\* The sum of a finite set: of none, and with the element picked first.
LEMMA BytesFacts ==
  /\ Bytes({}) = 0
  /\ \A S : IsFiniteSet(S) /\ S # {} =>
       Bytes(S) = Pick(S).size + Bytes(S \ {Pick(S)})
<1>1. Bytes({}) = 0
  <2>1. IsFiniteSet({})
    BY FS_EmptySet
  <2>2. Summed({}) = Sum({}, Summed({}))
    BY <2>1, SumExists
  <2>3. \A G : G = Sum({}, G) => G[{}] = 0
    BY DEF Sum
  <2> QED
    BY <2>2, <2>3, BytesSummed
<1>2. ASSUME NEW S, IsFiniteSet(S), S # {}
      PROVE  Bytes(S) = Pick(S).size + Bytes(S \ {Pick(S)})
  <2> DEFINE u == S \ {Pick(S)}
  <2>1. u \subseteq S /\ IsFiniteSet(u)
    BY <1>2, FS_RemoveElement
  <2>2. Summed(S) = Sum(S, Summed(S)) /\ Summed(u) = Sum(u, Summed(u))
    BY <1>2, <2>1, SumExists
  <2>3. Summed(S)[S] = Pick(S).size + Summed(S)[u]
    <3>1. \A G : G = Sum(S, G) => G[S] = Pick(S).size + G[u]
      BY <1>2 DEF Sum
    <3> QED
      BY <2>2, <3>1
  <2>4. Summed(S)[u] = Summed(u)[u]
    <3> HIDE DEF u
    <3> QED
      BY <2>1, <2>2, SumsAgree
  <2> QED
    BY <2>3, <2>4, BytesSummed
<1> QED
  BY <1>1, <1>2

\* The sum is a number, and whatever element is taken out has its share of it.
LEMMA BytesNat ==
  ASSUME NEW S \in SUBSET Entry, IsFiniteSet(S)
  PROVE  Bytes(S) \in Nat
<1> DEFINE Bad == {s \in SUBSET S : Bytes(s) \notin Nat}
<1>1. ASSUME NEW s \in Bad, IsFiniteSet(s), \A t \in Bad : t \subseteq s => t = s
      PROVE  FALSE
  <2>1. s # {}
    <3>1. Bytes({}) \in Nat /\ Bytes(s) \notin Nat
      BY BytesFacts
    <3> QED
      BY <3>1
  <2>2. Pick(s) \in s /\ s \ {Pick(s)} \in SUBSET S /\ s \ {Pick(s)} \notin Bad
    BY <1>1, <2>1, PickFacts
  <2>3. Pick(s).size \in Nat /\ Bytes(s \ {Pick(s)}) \in Nat
    BY <2>2 DEF Entry
  <2> QED
    BY <1>1, <2>1, <2>3, BytesFacts
<1>2. Bad = {}
  <2>1. Bad \subseteq SUBSET S
    OBVIOUS
  <2> HIDE DEF Bad
  <2> QED
    BY <1>1, <2>1, Smallest
<1> QED
  BY <1>2

LEMMA BytesRemove ==
  ASSUME NEW S \in SUBSET Entry, IsFiniteSet(S), NEW e \in S
  PROVE  Bytes(S \ {e}) = Bytes(S) - e.size
<1> DEFINE Bad == {s \in SUBSET S : \E f \in s : Bytes(s) # f.size + Bytes(s \ {f})}
<1>1. ASSUME NEW s \in Bad, IsFiniteSet(s), \A t \in Bad : t \subseteq s => t = s
      PROVE  FALSE
  <2>1. PICK f \in s : Bytes(s) # f.size + Bytes(s \ {f})
    OBVIOUS
  <2>2. PICK x \in s : Bytes(s) = x.size + Bytes(s \ {x})
    BY <1>1, PickFacts, BytesFacts
  <2>3. x # f
    BY <2>1, <2>2
  <2>4. s \ {x} \notin Bad /\ s \ {f} \notin Bad
    BY <1>1
  <2>5. PICK rest : rest = s \ {x, f} /\ rest \in SUBSET Entry /\ IsFiniteSet(rest)
    <3>1. PICK rest \in SUBSET S : rest = s \ {x, f}
      OBVIOUS
    <3>2. IsFiniteSet(rest)
      BY FS_Subset
    <3> QED
      BY <3>1, <3>2
  <2>6. (s \ {x}) \ {f} = rest /\ (s \ {f}) \ {x} = rest
    BY <2>5
  <2>7. Bytes(s \ {x}) = f.size + Bytes(rest) /\ Bytes(s \ {f}) = x.size + Bytes(rest)
    <3>1. /\ Bytes(s \ {x}) = f.size + Bytes((s \ {x}) \ {f})
          /\ Bytes(s \ {f}) = x.size + Bytes((s \ {f}) \ {x})
      BY <2>3, <2>4
    <3> QED
      BY <2>6, <3>1
  <2>8. x.size \in Nat /\ f.size \in Nat /\ Bytes(rest) \in Nat
    BY <2>5, BytesNat DEF Entry
  <2> QED
    BY <2>1, <2>2, <2>7, <2>8
<1>2. Bad = {}
  <2>1. Bad \subseteq SUBSET S
    OBVIOUS
  <2> HIDE DEF Bad
  <2> QED
    BY <1>1, <2>1, Smallest
<1>3. Bytes(S) = e.size + Bytes(S \ {e})
  BY <1>2
<1>4. e.size \in Nat /\ Bytes(S \ {e}) \in Nat
  BY FS_Subset, BytesNat DEF Entry
<1> QED
  BY <1>3, <1>4
-----------------------------------------------------------------------------
(* The limit. *)

Finite == IsFiniteSet(index) /\ IsFiniteSet(saved)

\* What the running pass believes to be left is no less than what is.  It is
\* more when a file vanished under the pass, whose size it does not subtract.
Budget ==
  phase = "evict" => todo \subseteq index /\ total \in Int /\ Bytes(index) <= total

LEMMA LookupFinite ==
  ASSUME Finite, NEW n, NEW hit, NEW by, Lookup(n, hit, by)
  PROVE  IsFiniteSet(index')
<1>1. PICK x : index' \subseteq index \cup {x}
  BY DEF Lookup, Touched, Put
<1> QED
  BY <1>1, FS_AddElement, FS_Subset DEF Finite

LEMMA FiniteNext == Finite /\ [Next]_vars => Finite'
<1> SUFFICES ASSUME Finite, [Next]_vars PROVE Finite'
  OBVIOUS
<1>1. CASE Query
  BY <1>1, LookupFinite DEF Query, Finite
<1>2. ASSUME NEW w \in Worker, Get(w) PROVE Finite'
  BY <1>2, LookupFinite DEF Get, Finite
<1>3. CASE (\E x : index' \subseteq index \cup {x}) /\ UNCHANGED saved
  BY <1>3, FS_AddElement, FS_Subset DEF Finite
<1>4. CASE QueryHash
  BY <1>3, <1>4 DEF QueryHash, Touched
<1>5. ASSUME NEW w \in Worker, Register(w) PROVE Finite'
  BY <1>3, <1>5 DEF Register, Put
<1>6. ASSUME NEW w \in Worker,
             \/ Check(w) \/ UnlinkCorrupt(w) \/ ForgetCorrupt(w) \/ Place(w) \/ Abort(w)
      PROVE  Finite'
  BY <1>3, <1>6 DEF Check, UnlinkCorrupt, ForgetCorrupt, Place, Abort
<1>7. CASE EvictStep \/ EvictDone \/ Tick \/ UNCHANGED vars
  BY <1>3, <1>7 DEF EvictStep, EvictDone, Tick, vars
<1>8. CASE Save
  BY <1>8, FS_EmptySet DEF Save, Saving, Finite
<1>9. CASE Restart
  <2>1. saved' \subseteq saved /\ index' \subseteq saved
    BY <1>9 DEF Restart, LoadNothing, LoadSaved, Saving, Load
  <2> QED
    BY <2>1, FS_Subset DEF Finite
<1> QED
  BY <1>1, <1>2, <1>4, <1>5, <1>6, <1>7, <1>8, <1>9 DEF Next, Request, LockStep

LEMMA EvictBudget ==
  ASSUME TypeOK, Finite, Budget, EvictStep
  PROVE  Budget'
<1>1. phase = "evict" /\ todo \subseteq index /\ total \in Int /\ Bytes(index) <= total
  BY DEF EvictStep, Budget
<1>2. PICK e \in todo :
        /\ todo' = todo \ {e}
        /\ \/ index' = index \ {e} /\ total' \in {total, total - e.size}
           \/ UNCHANGED <<index, total>>
  BY DEF EvictStep
<1>3. e \in index /\ index \in SUBSET Entry /\ e.size \in Nat
  BY <1>1 DEF TypeOK, Entry
<1>4. Bytes(index) \in Nat
  BY <1>3, BytesNat DEF Finite
<1>5. CASE index' = index \ {e} /\ total' \in {total, total - e.size}
  <2>1. Bytes(index') = Bytes(index) - e.size
    BY <1>3, <1>5, BytesRemove DEF Finite
  <2> QED
    BY <1>1, <1>2, <1>3, <1>4, <1>5, <2>1 DEF Budget
<1>6. CASE UNCHANGED <<index, total>>
  BY <1>1, <1>2, <1>6 DEF Budget
<1> QED
  BY <1>2, <1>5, <1>6

LEMMA BudgetNext == TypeOK /\ Finite /\ Budget /\ [Next]_vars => Budget'
<1> SUFFICES ASSUME TypeOK, Finite, Budget, [Next]_vars PROVE Budget'
  OBVIOUS
<1>0. TypeOK' /\ Finite'
  BY TypeNext, FiniteNext
<1>1. CASE Query \/ QueryHash
  BY <1>1 DEF Query, QueryHash, Lookup, Lock, Budget
<1>2. ASSUME NEW w \in Worker, Get(w) PROVE Budget'
  BY <1>2 DEF Get, Lookup, Lock, Budget
<1>3. ASSUME NEW w \in Worker, Check(w) \/ UnlinkCorrupt(w) \/ Place(w) \/ Abort(w)
      PROVE  Budget'
  BY <1>3 DEF Check, UnlinkCorrupt, Place, Abort, pass, Budget
<1>4. ASSUME NEW w \in Worker, ForgetCorrupt(w) PROVE Budget'
  BY <1>4 DEF ForgetCorrupt, Lock, Budget
<1>5. ASSUME NEW w \in Worker, Register(w) PROVE Budget'
  <2>1. CASE todo' = index' /\ total' = Bytes(index')
    <3>1. Bytes(index') \in Nat
      BY <1>0, BytesNat DEF TypeOK, Finite
    <3> QED
      BY <2>1, <3>1 DEF Budget
  <2>2. CASE UNCHANGED <<index, phase, pass>>
    BY <2>2 DEF pass, Budget
  <2> QED
    BY <1>5, <2>1, <2>2 DEF Register
<1>6. CASE EvictStep
  BY <1>6, EvictBudget
<1>7. CASE EvictDone \/ Save \/ Restart
  BY <1>7 DEF EvictDone, Save, Restart, Budget
<1>8. CASE Tick \/ UNCHANGED vars
  BY <1>8 DEF Tick, vars, pass, Budget
<1> QED
  BY <1>1, <1>2, <1>3, <1>4, <1>5, <1>6, <1>7, <1>8 DEF Next, Request, LockStep

LEMMA LimitStep ==
  ASSUME TypeOK, Finite, Budget, Unvisited, [Next]_vars,
         phase = "evict", phase' = "save", MaxBytes > 0
  PROVE  Bytes(index) <= MaxBytes \/ index \subseteq stuck
<1>1. EvictDone
  BY DEF Next, vars, Query, QueryHash, Request, Get, Lookup, Lock, Check, UnlinkCorrupt,
         ForgetCorrupt, Place, Abort, Register, LockStep, EvictStep, Save, Restart, Tick
<1>2. CASE todo = {}
  BY <1>2 DEF Unvisited
<1>3. CASE ~ OverSize
  <2>1. total <= MaxBytes /\ Bytes(index) <= total /\ total \in Int
    BY <1>3, ConstantsAssumption DEF OverSize, Budget
  <2>2. Bytes(index) \in Nat
    BY BytesNat DEF TypeOK, Finite
  <2> QED
    BY <2>1, <2>2, ConstantsAssumption
<1> QED
  BY <1>1, <1>2, <1>3 DEF EvictDone

\* An eviction pass ends with no more than the limit in the index, or with
\* nothing but what it failed to unlink, whatever is unlinked, published or
\* lost while it runs; no assumption on the requests is needed.
THEOREM LimitEnforced == Spec => PassEnforcesLimit
<1>1. Init => Finite /\ Budget /\ Unvisited
  BY FS_EmptySet DEF Init, Finite, Budget, Unvisited
<1>2. TypeOK /\ Finite /\ Budget /\ Unvisited /\ [Next]_vars =>
        [phase = "evict" /\ phase' = "save" /\ MaxBytes > 0 =>
           Bytes(index) <= MaxBytes \/ index \subseteq stuck]_vars
  BY LimitStep
<1>3. Spec => []TypeOK
  BY TypeCorrect
<1> QED
  BY <1>1, <1>2, <1>3, FiniteNext, BudgetNext, UnvisitedNext, PTL DEF Spec, PassEnforcesLimit
-----------------------------------------------------------------------------
(* PackageCache implements PackageStore, under the same Exclusive.  The
   variables of the store are functions of those of the cache, so each step
   of the cache is mapped to a step of the store: a finished download
   publishes, an eviction and the rejection of a corrupt copy remove, and
   everything that touches the index or the index file revises the claims,
   or none of these. *)

\* Each entry of the new index and index file was there, but for its age, or
\* describes the file that is there.
Justified ==
  \A e \in index' \cup OnFile' : e.name \notin doubted' =>
    \/ \E f \in index \cup OnFile : f.hash = e.hash /\ f.name = e.name
    \/ e.name \in Name /\ e.hash \in Hash /\ files[e.name] = e.hash

\* A step that leaves the files alone and adds only justified entries revises
\* the claims.
LEMMA Revising ==
  ASSUME UNCHANGED <<files, doubted>>, Justified
  PROVE  Store!Revise
<1>1. ASSUME NEW c \in Claims' PROVE c \in Claims \cup Store!Contents
  <2>1. PICK e \in index' \cup OnFile' : c = <<e.hash, e.name>> /\ e.name \notin doubted
    BY DEF Claims
  <2>2. CASE \E f \in index \cup OnFile : f.hash = e.hash /\ f.name = e.name
    BY <2>1, <2>2 DEF Claims
  <2>3. CASE e.name \in Name /\ e.hash \in Hash /\ files[e.name] = e.hash
    BY <2>1, <2>3 DEF Store!Contents, Trusted
  <2> QED
    BY <2>1, <2>2, <2>3 DEF Justified
<1> QED
  BY <1>1 DEF Store!Revise, Trusted

\* A step by which names come into doubt, and that leaves the files alone,
\* removes them from the store.
LEMMA Doubting ==
  ASSUME NEW names \in SUBSET Name, UNCHANGED files, doubted' = doubted \cup names, Justified
  PROVE  Store!Remove(names)
<1>1. Trusted' = [n \in Name |-> IF n \in names THEN None ELSE Trusted[n]]
  BY DEF Trusted
<1>2. ASSUME NEW c \in Claims' PROVE c \in Claims \cup Store!Contents'
  <2>1. PICK e \in index' \cup OnFile' : c = <<e.hash, e.name>> /\ e.name \notin doubted'
    BY <1>2 DEF Claims
  <2>2. CASE \E f \in index \cup OnFile : f.hash = e.hash /\ f.name = e.name
    BY <2>1, <2>2 DEF Claims
  <2>3. CASE e.name \in Name /\ e.hash \in Hash /\ files[e.name] = e.hash
    <3>1. Trusted'[e.name] = e.hash
      BY <2>1, <2>3 DEF Trusted
    <3> QED
      BY <2>1, <2>3, <3>1 DEF Store!Contents
  <2> QED
    BY <2>1, <2>2, <2>3 DEF Justified
<1> QED
  BY <1>1, <1>2 DEF Store!Remove

\* A step that removes one file and adds no entry removes it from the store.
LEMMA Removing ==
  ASSUME NEW n \in Name, files' = [files EXCEPT ![n] = None],
         index' \cup OnFile' \subseteq index \cup OnFile, UNCHANGED doubted, TypeOK
  PROVE  Store!Remove({n})
<1>1. Trusted' = [m \in Name |-> IF m \in {n} THEN None ELSE Trusted[m]]
  BY DEF TypeOK, Trusted
<1>2. Claims' \subseteq Claims
  BY DEF Claims
<1> QED
  BY <1>1, <1>2 DEF Store!Remove

\* Lookups by others and of a GET, which may adopt a file.
LEMMA LookupRevises ==
  ASSUME TypeOK, NEW n \in Name, NEW hit \in BOOLEAN, NEW by,
         Lookup(n, hit, by), UNCHANGED <<files, indexFile, doubted>>
  PROVE  Store!Revise
<1>1. CASE \E e \in Named(n) : index' = Touched(e)
  <2>1. PICK e \in index : index' = Touched(e)
    BY <1>1 DEF Named
  <2>2. Justified
    BY <2>1, TouchFacts DEF Justified
  <2> QED
    BY <2>2, Revising
<1>2. CASE index' \subseteq index
  BY <1>2, Revising DEF Justified
<1>3. CASE files[n] # None /\ index' = Put(files[n], n)
  <2>1. files[n] \in Hash
    BY <1>3 DEF TypeOK
  <2>2. Justified
    BY <1>3, <2>1, PutFacts DEF Justified
  <2> QED
    BY <2>2, Revising
<1> QED
  BY <1>1, <1>2, <1>3 DEF Lookup

LEMMA QueryHashRevises == TypeOK /\ QueryHash => Store!Revise
<1> SUFFICES ASSUME TypeOK, QueryHash PROVE Store!Revise
  OBVIOUS
<1>1. PICK e \in index :
        index' = IF files[e.name] # None THEN Touched(e) ELSE index \ {e}
  BY DEF QueryHash
<1>2. Justified
  BY <1>1, TouchFacts DEF QueryHash, Justified
<1> QED
  BY <1>2, Revising DEF QueryHash

\* A download ends under a name that has no file and of which nothing is
\* claimed, or that is in doubt and not in the store.
LEMMA PlacePublishes ==
  ASSUME Inv, NEW w \in Worker, Place(w)
  PROVE  UNCHANGED <<Trusted, Claims>> \/ \E n \in Name, h \in Hash : Store!Publish(n, h)
<1> DEFINE n == req[w].name
<1>1. /\ req[w].pc = "fetch" /\ holder # w /\ n \in Name
      /\ UNCHANGED <<index, indexFile, doubted>>
  BY ReqFacts DEF Place, Inv
<1>2. PICK h \in Hash : files' = [files EXCEPT ![n] = h]
  BY DEF Place
<1>3. Claims' = Claims
  BY <1>1 DEF Claims
<1>4. CASE n \in doubted
  <2>1. Trusted' = Trusted
    BY <1>1, <1>2, <1>4 DEF Trusted, Inv, TypeOK
  <2> QED
    BY <1>3, <2>1
<1>5. CASE n \notin doubted
  <2>1. files[n] = None /\ \A e \in index \cup OnFile : e.name # n
    BY <1>1, <1>5 DEF Inv, Clean
  <2>2. \A c \in Claims : c[2] # n
    BY <2>1 DEF Claims
  <2>3. Trusted[n] = None /\ Trusted' = [Trusted EXCEPT ![n] = h]
    BY <1>1, <1>2, <1>5, <2>1 DEF Trusted, Inv, TypeOK
  <2>4. Store!Publish(n, h)
    BY <1>3, <2>2, <2>3 DEF Store!Publish
  <2> QED
    BY <1>1, <2>4
<1> QED
  BY <1>4, <1>5

\* What a download registers is claimed of the file that is there.
LEMMA RegisterRevises ==
  ASSUME Inv, NEW w \in Worker, Register(w)
  PROVE  Store!Revise
<1> DEFINE n == req[w].name
<1>1. /\ req[w].pc = "placed" /\ n \in Name /\ req[w].got \in Hash
      /\ UNCHANGED <<files, indexFile, doubted>>
  BY ReqFacts DEF Register, Inv
<1>2. CASE UNCHANGED index
  BY <1>1, <1>2, Revising DEF Justified
<1>3. CASE files[n] # None /\ index' \subseteq Put(req[w].got, n)
  <2>1. files[n] = req[w].got
    BY <1>1, <1>3 DEF Inv, Clean
  <2>2. Justified
    BY <1>1, <1>3, <2>1, PutFacts DEF Inv, Justified
  <2> QED
    BY <1>1, <2>2, Revising
<1> QED
  BY <1>2, <1>3 DEF Register

\* An eviction step removes a file, or drops an entry, or neither.
LEMMA EvictRemoves ==
  ASSUME Inv, EvictStep
  PROVE  Store!Revise \/ \E n \in Name : Store!Remove({n})
<1>1. UNCHANGED <<indexFile, doubted>>
  BY DEF EvictStep
<1>2. PICK e \in todo :
        /\ index' \subseteq index
        /\ \/ files' = [files EXCEPT ![e.name] = None]
           \/ UNCHANGED files
  BY DEF EvictStep
<1>3. e.name \in Name
  BY DEF Inv, TypeOK, Entry
<1>4. CASE files' = [files EXCEPT ![e.name] = None]
  BY <1>1, <1>2, <1>3, <1>4, Removing DEF Inv
<1>5. CASE UNCHANGED files
  BY <1>1, <1>2, <1>5, Revising DEF Justified
<1> QED
  BY <1>2, <1>4, <1>5
-----------------------------------------------------------------------------
LEMMA StoreInit == Init => Store!Init
BY DEF Init, Store!Init, Claims, Trusted

LEMMA StoreNext == Inv /\ [Next]_vars => [Store!Next]_<<Trusted, Claims>>
<1> SUFFICES ASSUME Inv, [Next]_vars PROVE [Store!Next]_<<Trusted, Claims>>
  OBVIOUS
<1>0. TypeOK
  BY DEF Inv
<1>1. CASE Query
  BY <1>0, <1>1, LookupRevises DEF Query, Store!Next
<1>2. CASE QueryHash
  BY <1>0, <1>2, QueryHashRevises DEF Store!Next
<1>3. ASSUME NEW w \in Worker, Get(w) PROVE Store!Next
  BY <1>0, <1>3, LookupRevises DEF Get, Store!Next
<1>4. ASSUME NEW w \in Worker, Check(w) \/ Abort(w) PROVE Store!Next
  BY <1>4, Revising DEF Check, Abort, Justified, Store!Next
<1>5. ASSUME NEW w \in Worker, UnlinkCorrupt(w) PROVE Store!Next
  <2>1. req[w].name \in Name /\ UNCHANGED <<index, indexFile>>
    BY <1>5, ReqFacts DEF UnlinkCorrupt, Inv
  <2>2. CASE files' = [files EXCEPT ![req[w].name] = None] /\ UNCHANGED doubted
    BY <1>0, <2>1, <2>2, Removing DEF Store!Next
  <2>3. CASE UNCHANGED <<files, doubted>>
    BY <2>1, <2>3, Revising DEF Justified, Store!Next
  <2>4. CASE doubted' = doubted \cup {req[w].name} /\ UNCHANGED files
    <3>1. Justified
      BY <2>1 DEF Justified
    <3>2. Store!Remove({req[w].name})
      BY <2>1, <2>4, <3>1, Doubting
    <3> QED
      BY <2>1, <3>2 DEF Store!Next
  <2> QED
    BY <1>5, <2>2, <2>3, <2>4 DEF UnlinkCorrupt
<1>6. ASSUME NEW w \in Worker, ForgetCorrupt(w) PROVE Store!Next
  BY <1>6, Revising DEF ForgetCorrupt, Justified, Store!Next
<1>7. ASSUME NEW w \in Worker, Place(w) PROVE [Store!Next]_<<Trusted, Claims>>
  BY <1>7, PlacePublishes DEF Store!Next
<1>8. ASSUME NEW w \in Worker, Register(w) PROVE Store!Next
  BY <1>8, RegisterRevises DEF Store!Next
<1>9. CASE EvictStep
  BY <1>9, EvictRemoves DEF Store!Next
<1>10. CASE EvictDone \/ Tick \/ UNCHANGED vars
  BY <1>10, Revising DEF EvictDone, Tick, vars, pass, Justified, Store!Next
<1>11. CASE Save
  BY <1>11, Revising DEF Save, Saving, Justified, Store!Next
<1>12. CASE Restart
  <2>1. UNCHANGED files /\ doubted \subseteq doubted' /\ doubted' \subseteq Name
    BY <1>0, <1>12, RestartFacts DEF Restart
  <2>2. Justified
    BY <1>0, <1>12, RestartFacts DEF Justified
  <2>3. Store!Remove(doubted')
    BY <2>1, <2>2, Doubting
  <2> QED
    BY <2>1, <2>3 DEF Store!Next
<1> QED
  BY <1>1, <1>2, <1>3, <1>4, <1>5, <1>6, <1>7, <1>8, <1>9, <1>10, <1>11, <1>12
     DEF Next, Request, LockStep

\* The cache of any size, under any lookups, downloads, evictions and crashes,
\* is a store whose files are whole, never change while they have their name,
\* and of which it claims, in memory or in the index file, only what is true;
\* names in doubt leave it.
THEOREM CacheImplementsStore == Exclusive /\ Spec => StoreSpec
<1> SUFFICES ASSUME Exclusive PROVE Spec => StoreSpec
  OBVIOUS
<1>1. Spec => []Inv
  BY InvHolds
<1> QED
  BY <1>1, StoreInit, StoreNext, PTL DEF Spec, StoreSpec, Store!Spec

-----------------------------------------------------------------------------
(* What the store promises follows from its own steps alone, whatever they *)
(* are steps of: stated here of the files and claims of the cache.         *)

Held ==
  /\ Trusted \in [Name -> Hash \cup {None}] /\ Claims \subseteq Hash \X Name
  /\ Store!ClaimsTrue

LEMMA HeldNext == Held /\ [Store!Next]_<<Trusted, Claims>> => Held'
<1> SUFFICES ASSUME Held, [Store!Next]_<<Trusted, Claims>> PROVE Held'
  OBVIOUS
<1>0. \A c \in Claims : c[1] \in Hash /\ c[2] \in Name /\ Trusted[c[2]] \in {None, c[1]}
  BY DEF Held, Store!ClaimsTrue
<1>1. ASSUME NEW n \in Name, NEW h \in Hash, Store!Publish(n, h) PROVE Held'
  BY <1>0, <1>1 DEF Held, Store!ClaimsTrue, Store!Publish
<1>2. ASSUME NEW names \in SUBSET Name, Store!Remove(names) PROVE Held'
  <2>1. Trusted' = [n \in Name |-> IF n \in names THEN None ELSE Trusted[n]]
    BY <1>2 DEF Store!Remove
  <2>2. Trusted' \in [Name -> Hash \cup {None}]
    BY <2>1 DEF Held
  <2>3. ASSUME NEW c \in Claims'
        PROVE  c \in Hash \X Name /\ Trusted'[c[2]] \in {None, c[1]}
    <3>1. c \in Claims \/ (c \in Hash \X Name /\ Trusted'[c[2]] = c[1])
      BY <1>2 DEF Store!Remove, Store!Contents
    <3> QED
      BY <1>0, <2>1, <3>1 DEF Held
  <2> QED
    BY <2>2, <2>3 DEF Held, Store!ClaimsTrue
<1>3. CASE Store!Revise
  <2>1. /\ UNCHANGED Trusted
        /\ \A c \in Claims' : c \in Claims \/ (c \in Hash \X Name /\ Trusted[c[2]] = c[1])
    BY <1>3 DEF Store!Revise, Store!Contents
  <2> QED
    BY <1>0, <2>1 DEF Held, Store!ClaimsTrue
<1>4. CASE UNCHANGED <<Trusted, Claims>>
  BY <1>4 DEF Held, Store!ClaimsTrue
<1> QED
  BY <1>1, <1>2, <1>3, <1>4 DEF Store!Next

\* A store that goes by its steps makes no claim that is false of a file it
\* has: neither do its implementations, across crashes.
THEOREM StoreClaimsTrue == Store!Spec => []Store!ClaimsTrue
<1>1. Store!Init => Held
  BY DEF Store!Init, Held, Store!ClaimsTrue
<1>2. Held => Store!ClaimsTrue
  BY DEF Held
<1> QED
  BY <1>1, <1>2, HeldNext, PTL DEF Store!Spec
=============================================================================

-------------------------- MODULE MigrationProofs --------------------------
(***************************************************************************)
(* The migration for any packages, faults and number of crashes.           *)
(*                                                                         *)
(* That no start loses a package is a fact about each of its steps.  What  *)
(* a start leaves behind, and the truth of the index, need what the steps  *)
(* before have done: Progress says it of the directories (so far nothing   *)
(* has failed), Agreement of the entries (what they tell of a name is what *)
(* the start will have under it).                                          *)
(***************************************************************************)
EXTENDS Migration, TLAPS

\* While nothing has failed, each step has done its part.
Progress ==
  /\ "index" \notin leftovers => old = {}
  /\ "dir" \notin leftovers => leftovers = {} /\ \A n \in Name : nested[n] = None
  /\ smooth =>
       /\ pc = "move" => \A n \in Name : nested[n] # None => n \in todo
       /\ pc \notin {"down", "unlisted", "move"} => \A n \in Name : nested[n] = None
       /\ pc = "rmdir" => "index" \notin leftovers
       /\ pc \in {"load", "prune", "save", "serve"} =>
            "index" \notin leftovers /\ ("dir" \in leftovers => "files" \in leftovers)

\* The entries that a start may still come to use.
Entries == Own \cup old \cup index \cup (IF pc = "move" THEN legacy ELSE {})

\* The names that IndexTruth excepts.
Excepted == disputed \cup cut

\* Entries of other names agree with the package kept under the name; once the
\* index is loaded, its entries have a file; and once the nested index has
\* outlived the migration, its names are disputed.
Agreement ==
  /\ \A e \in Entries : e.name \notin Excepted => Kept(e.name) \in {None, e.hash}
  /\ pc \in {"prune", "save", "serve"} =>
       \A e \in index : e.name \notin Excepted => main[e.name] # None
  /\ pc \in {"rmdir", "load", "prune", "save", "serve"} =>
       \A e \in old : e.name \in disputed

Inv == TypeOK /\ Progress /\ Agreement

-----------------------------------------------------------------------------
(* Facts about indexes *)

LEMMA IndexFacts ==
  /\ {} \in Indexes
  /\ \A S \in Indexes : \A T : T \subseteq S => T \in Indexes
  /\ \A S \in Indexes, n \in Name, h \in Content : Put(S, n, h) \in Indexes
  /\ \A S, T \in Indexes :
       S \cup {e \in T : \A f \in S : f.hash # e.hash} \in Indexes
  /\ \A S \in Indexes : \A e \in S : e.name \in Name /\ e.hash \in Content
BY DEF Indexes, Entry, Put

\* No file is no content, and a package is one.
LEMMA ContentFacts == None \notin Content /\ Hash \subseteq Content
BY ConstantsAssumption DEF Content, CutOf

-----------------------------------------------------------------------------
(* No package is lost. *)

\* A move, a copy, the deletion of a nested file that gives way, or a failure of
\* any of them, keeps what there is under each name, unless a copy is cut.
LEMMA MoveKeeps ==
  ASSUME TypeOK, NEW m \in Name, Move(m), NEW n \in Name
  PROVE  Kept(n)' = Kept(n) \/ n \in cut'
<1>1. CASE UNCHANGED <<main, nested>>
  BY <1>1 DEF Kept
<1>2. CASE /\ main[m] = None
           /\ main' = [main EXCEPT ![m] = nested[m]]
           /\ nested' = nested \/ nested' = [nested EXCEPT ![m] = None]
  BY <1>2 DEF Kept, TypeOK
<1>3. CASE /\ main[m] # None
           /\ nested' = [nested EXCEPT ![m] = None]
           /\ UNCHANGED main
  BY <1>3 DEF Kept, TypeOK
<1>4. CASE /\ main' = [main EXCEPT ![m] = CutOf(m)]
           /\ cut' = cut \cup {m}
           /\ UNCHANGED nested
  BY <1>4 DEF Kept, TypeOK
<1>5. CASE Copy(m)
  BY <1>1, <1>2, <1>4, <1>5 DEF Copy
<1> QED
  BY <1>1, <1>2, <1>3, <1>5 DEF Move

\* A copy that was cut is remembered.
LEMMA CutStays ==
  ASSUME Startup
  PROVE  cut \subseteq cut'
<1>1. ASSUME NEW n \in Name, Move(n) PROVE cut \subseteq cut'
  BY <1>1 DEF Move, Copy
<1> QED
  BY <1>1 DEF Startup, Start, Begin, Merge, Truncate, Write, UnlinkIndex, RemoveDir, Load

LEMMA StartKeeps ==
  ASSUME TypeOK, Startup, NEW n \in Name
  PROVE  Kept(n)' = Kept(n) \/ n \in cut'
<1>1. CASE \E m \in Name : Move(m)
  BY <1>1, MoveKeeps
<1>2. CASE UNCHANGED <<main, nested>>
  BY <1>2 DEF Kept
<1> QED
  BY <1>1, <1>2 DEF Startup, Start, Begin, Merge, Truncate, Write, UnlinkIndex,
     RemoveDir, Load, disk

-----------------------------------------------------------------------------
(* Types *)

LEMMA StartTypes ==
  ASSUME TypeOK, Startup
  PROVE  TypeOK'
<1>1. CASE Start
  <2>1. /\ UNCHANGED <<disk, index, disputed, cut, crashes>>
        /\ legacy' \in {old, {}} /\ todo' \in {Listed, {}}
        /\ pc' \in {"move", "load", "unlisted"}
    BY <1>1, Zenon DEF Start, Begin, Goto
  <2>2. smooth' \in BOOLEAN
    BY <1>1, Zenon DEF Start, Failed
  <2> QED
    BY <2>1, <2>2, IndexFacts DEF TypeOK, Listed, Steps, disk
<1>2. ASSUME NEW n \in Name, Move(n) PROVE TypeOK'
  <2>0. CutOf(n) \in Content
    BY DEF Content
  <2>1. /\ main' \in [Name -> Content \cup {None}] /\ nested' \in [Name -> Hash \cup {None}]
        /\ \A m \in Name \ {n} : nested'[m] = nested[m]
        /\ cut' \subseteq Name
    <3>1. CASE Copy(n)
      BY <2>0, <3>1, ContentFacts DEF TypeOK, Copy
    <3> QED
      BY <1>2, <3>1, ContentFacts DEF TypeOK, Move
  <2>2. smooth' \in BOOLEAN
    BY <1>2, Zenon DEF TypeOK, Move, Copy, Passed, Failed
  <2>3. todo' \subseteq {m \in Name : nested'[m] # None}
    BY <1>2, <2>1 DEF TypeOK, Listed, Move, Visited
  <2> QED
    BY <1>2, <2>1, <2>2, <2>3 DEF TypeOK, Listed, Move, Visited, Goto
<1>3. CASE Merge
  <2>1. Own \in Indexes
    BY IndexFacts DEF TypeOK, Own
  <2>2. index' \in Indexes
    BY <1>3, <2>1, IndexFacts DEF TypeOK, Merge
  <2>3. smooth' \in BOOLEAN
    BY <1>3, Zenon DEF TypeOK, Merge, Passed, Failed
  <2>4. UNCHANGED <<disk, legacy, todo, disputed, cut, crashes>> /\ pc' \in {"merge", "unlink"}
    BY <1>3, Zenon DEF Merge, Goto
  <2> QED
    BY <2>2, <2>3, <2>4 DEF TypeOK, Listed, Steps, disk
<1>4. ASSUME NEW from, NEW to \in Steps, NEW past \in Steps, Truncate(from, to, past)
      PROVE  TypeOK'
  BY <1>4 DEF TypeOK, Listed, Truncate, Goto, Passed, Failed, memory
<1>5. ASSUME NEW from, NEW to \in Steps, Write(from, to)
      PROVE  TypeOK'
  BY <1>5 DEF TypeOK, Listed, Write, Goto, Passed, Failed, memory
<1>6. CASE UnlinkIndex
  <2>0. \A e \in old : e.name \in Name
    BY IndexFacts DEF TypeOK
  <2>1. disputed \subseteq Name
    BY DEF TypeOK
  <2>2. disputed' = disputed \/ disputed' = disputed \cup {e.name : e \in old}
    BY <1>6, Zenon DEF UnlinkIndex
  <2>3. disputed' \subseteq Name
    BY <2>0, <2>1, <2>2
  <2> QED
    BY <1>6, <2>3, IndexFacts DEF TypeOK, Listed, UnlinkIndex, Goto, Passed, Failed, Steps, memory
<1>7. CASE RemoveDir
  BY <1>7 DEF TypeOK, Listed, RemoveDir, Goto, Passed, Failed, Steps, memory
<1>8. CASE Load
  <2>1. index' \in Indexes
    BY <1>8, IndexFacts DEF TypeOK, Load, Own
  <2>2. smooth' \in BOOLEAN
    BY <1>8, Zenon DEF TypeOK, Load, Passed, Failed
  <2>3. UNCHANGED <<disk, legacy, todo, disputed, cut, crashes>> /\ pc' \in {"prune", "serve"}
    BY <1>8, Zenon DEF Load, Goto
  <2> QED
    BY <2>1, <2>2, <2>3 DEF TypeOK, Listed, Steps, disk
<1> QED
  BY <1>1, <1>2, <1>3, <1>4, <1>5, <1>6, <1>7, <1>8 DEF Startup, Steps

\* The effect of a step of the serving cache.
LEMMA ServeTypes ==
  ASSUME TypeOK, NEW S \in Indexes, Serve(S), main' \in [Name -> Content \cup {None}]
  PROVE  TypeOK'
BY DEF TypeOK, Listed, Serve, history

LEMMA TypeNext ==
  ASSUME TypeOK, [Next]_vars
  PROVE  TypeOK'
<1>1. CASE Startup
  BY <1>1, StartTypes
<1>2. CASE Down
  BY <1>2, IndexFacts, ConstantsAssumption DEF TypeOK, Listed, Down, Steps, disk
<1>3. CASE Evict
  <2>1. PICK e \in index : main' = [main EXCEPT ![e.name] = None] /\ Serve(index \ {e})
    BY <1>3 DEF Evict
  <2>2. index \ {e} \in Indexes
    BY IndexFacts DEF TypeOK
  <2> QED
    BY <2>1, <2>2, ServeTypes DEF TypeOK
<1>4. ASSUME NEW n \in Name, Adopt(n) PROVE TypeOK'
  <2>1. main[n] \in Content
    BY <1>4 DEF TypeOK, Adopt
  <2>2. Put(index, n, main[n]) \in Indexes
    BY <2>1, IndexFacts DEF TypeOK
  <2> QED
    BY <1>4, <2>2, ServeTypes DEF TypeOK, Adopt
<1>5. ASSUME NEW n \in Name, NEW h \in Hash, Publish(n, h) PROVE TypeOK'
  <2>1. PICK D \in SUBSET Named(index, n) : Serve(Put(index \ D, n, h))
    BY <1>5 DEF Publish
  <2>2. index \ D \in Indexes
    BY IndexFacts DEF TypeOK
  <2>3. Put(index \ D, n, h) \in Indexes
    BY <2>2, IndexFacts, ContentFacts
  <2> QED
    BY <1>5, <2>1, <2>3, ContentFacts, ServeTypes DEF TypeOK, Publish
<1>6. CASE UNCHANGED vars
  BY <1>6 DEF TypeOK, Listed, vars, disk, memory, history
<1> QED
  BY <1>1, <1>2, <1>3, <1>4, <1>5, <1>6 DEF Next

LEMMA TypeInit == Init => TypeOK
<1> SUFFICES ASSUME Init PROVE TypeOK
  OBVIOUS
<1>1. /\ main \in [Name -> Content \cup {None}] /\ nested \in [Name -> Hash \cup {None}]
      /\ saved \in Indexes /\ old \in Indexes
      /\ torn = FALSE /\ smooth = TRUE /\ crashes = 0 /\ pc = "down"
      /\ legacy = {} /\ todo = {} /\ index = {} /\ cut = {}
  BY ContentFacts DEF Init
<1>2. leftovers \subseteq {"dir", "index", "files"}
  BY DEF Init
<1>3. disputed \subseteq Name
  BY Zenon DEF Init
<1>4. {} \in Indexes
  BY IndexFacts
<1>5. crashes \in 0..MaxCrashes
  BY <1>1, ConstantsAssumption
<1> QED
  BY <1>1, <1>2, <1>3, <1>4, <1>5 DEF TypeOK, Steps

\* Every start finds, merges and loads indexes that are dictionaries of known
\* packages, and visits only nested files that are there.
THEOREM TypeCorrect == Spec => []TypeOK
BY TypeInit, TypeNext, PTL DEF Spec

\* No start loses a package, whatever fails in it and wherever it crashes, but
\* for one whose file was copied, and the copy cut.
THEOREM NoPackageLost == Spec => PackagesKept
<1>1. TypeOK /\ [Next]_vars
        => [pc # "serve" => \A n \in Name : Kept(n)' = Kept(n) \/ n \in cut']_vars
  <2> SUFFICES ASSUME TypeOK, Next, pc # "serve", NEW n \in Name
               PROVE  Kept(n)' = Kept(n) \/ n \in cut'
    OBVIOUS
  <2>1. CASE Startup
    BY <2>1, StartKeeps
  <2>2. CASE Down
    BY <2>2 DEF Down, disk, Kept
  <2> QED
    BY <2>1, <2>2 DEF Next, Evict, Adopt, Publish, Serve
<1> QED
  BY <1>1, TypeCorrect, PTL DEF Spec, PackagesKept

-----------------------------------------------------------------------------
(* What a start leaves behind. *)

LEMMA ProgressInit == Init => Progress
BY DEF Init, Progress

LEMMA ProgressNext ==
  ASSUME TypeOK, Progress, [Next]_vars
  PROVE  Progress'
<1> USE DEF Progress
<1>1. CASE Start
  <2>1. UNCHANGED <<nested, old, leftovers>>
    BY <1>1 DEF Start, Begin, disk
  <2>2. \/ pc' = "unlisted"
        \/ pc' = "move" /\ todo' = Listed
        \/ pc' = "load" /\ "dir" \notin leftovers
    BY <1>1 DEF Start, Begin, Goto
  <2> QED
    BY <2>1, <2>2 DEF Listed
<1>2. ASSUME NEW n \in Name, Move(n) PROVE Progress'
  <2>1. \A m \in Name : nested'[m] # None => nested[m] # None /\ (m = n => ~smooth')
    BY <1>2 DEF TypeOK, Move, Copy, Failed
  <2>2. smooth' => smooth
    BY <1>2 DEF Move, Copy, Passed, Failed
  <2>3. /\ pc = "move" /\ pc' = "move" /\ todo' = todo \ {n}
        /\ UNCHANGED <<old, leftovers>>
    BY <1>2 DEF Move, Visited, Goto
  <2> QED
    BY <2>1, <2>2, <2>3
<1>3. CASE Merge
  <2>1. smooth' => smooth
    BY <1>3 DEF Merge, Passed, Failed
  <2>2. /\ pc = "move" /\ todo = {} /\ pc' \in {"merge", "unlink"}
        /\ UNCHANGED <<nested, old, leftovers>>
    BY <1>3 DEF Merge, Goto, disk
  <2> QED
    BY <2>1, <2>2
<1>4. CASE Truncate("merge", "write", "unlink") \/ Truncate("prune", "save", "serve")
  BY <1>4 DEF Truncate, Goto, Passed, Failed, memory
<1>5. CASE Write("write", "unlink") \/ Write("save", "serve")
  BY <1>5 DEF Write, Goto, Passed, Failed, memory
<1>6. CASE UnlinkIndex
  BY <1>6 DEF UnlinkIndex, Goto, Passed, Failed, memory
<1>7. CASE RemoveDir
  <2>1. /\ pc = "rmdir" /\ pc' = "load" /\ UNCHANGED <<nested, old>>
        /\ smooth' => smooth
    BY <1>7 DEF RemoveDir, Goto, Passed, Failed
  <2>2. \/ leftovers' = {} /\ (\A n \in Name : nested[n] = None) /\ leftovers = {"dir"}
        \/ leftovers' = leftovers /\ (smooth' => leftovers # {"dir"} \/ \E n \in Name : nested[n] # None)
    BY <1>7, Zenon DEF RemoveDir, Passed, Failed
  <2>3. "index" \notin leftovers /\ leftovers # {"dir"} /\ "dir" \in leftovers
          => "files" \in leftovers
    BY DEF TypeOK
  <2>4. CASE leftovers' = {} /\ (\A n \in Name : nested[n] = None) /\ leftovers = {"dir"}
    BY <2>1, <2>4
  <2>5. CASE leftovers' = leftovers
             /\ (smooth' => leftovers # {"dir"} \/ \E n \in Name : nested[n] # None)
    <3>1. smooth' => "index" \notin leftovers'
                     /\ ("dir" \in leftovers' => "files" \in leftovers')
      <4> SUFFICES ASSUME smooth' PROVE "index" \notin leftovers
                     /\ ("dir" \in leftovers => "files" \in leftovers)
        BY <2>5
      <4>1. smooth /\ "index" \notin leftovers
        BY <2>1
      <4>2. leftovers # {"dir"}
        BY <2>1, <2>5, <4>1
      <4> QED
        BY <2>3, <4>1, <4>2
    <3>2. smooth' => \A n \in Name : nested'[n] = None
      BY <2>1
    <3>3. /\ "index" \notin leftovers' => old' = {}
          /\ "dir" \notin leftovers' => leftovers' = {} /\ \A n \in Name : nested'[n] = None
      BY <2>1, <2>5
    <3> QED
      BY <2>1, <3>1, <3>2, <3>3
  <2> QED
    BY <2>2, <2>4, <2>5
<1>8. CASE Load
  <2>1. smooth' => smooth
    BY <1>8 DEF Load, Passed, Failed
  <2>2. pc = "load" /\ pc' \in {"prune", "serve"} /\ UNCHANGED <<nested, old, leftovers>>
    BY <1>8 DEF Load, Goto, disk
  <2> QED
    BY <2>1, <2>2
<1>9. CASE Down
  BY <1>9 DEF Down, disk
<1>10. CASE pc = "serve" /\ UNCHANGED <<nested, old, leftovers, pc, todo, smooth>>
  BY <1>10
<1>11. CASE UNCHANGED vars
  BY <1>11 DEF vars, disk, memory, history
<1> QED
  BY <1>1, <1>2, <1>3, <1>4, <1>5, <1>6, <1>7, <1>8, <1>9, <1>10, <1>11
     DEF Next, Startup, Evict, Adopt, Publish, Serve, history

\* A start in which nothing failed has moved every package and deleted the
\* nested directory, whatever earlier starts failed to do or were killed in.
THEOREM MigrationCompletes == Spec => []Migrated
<1>1. Progress => Migrated
  BY DEF Progress, Migrated
<1> QED
  BY <1>1, ProgressInit, ProgressNext, TypeCorrect, PTL DEF Spec

-----------------------------------------------------------------------------
(* The truth of the index. *)

LEMMA AgreementInit == Init => Agreement
<1> SUFFICES ASSUME Init PROVE Agreement
  OBVIOUS
<1>1. pc = "down" /\ Entries = Own \cup old
  BY DEF Init, Entries
<1>2. ASSUME NEW e \in Own \cup old, e.name \notin disputed,
             Kept(e.name) # None, Kept(e.name) # e.hash
      PROVE  FALSE
  <2> DEFINE n == e.name
  <2>1. n \in Name /\ e.hash \in Content
    BY IndexFacts DEF Init, Own
  <2>2. e.hash \in Known(n)
    BY <2>1, ContentFacts DEF Known, Named
  <2>3. Kept(n) \in Known(n)
    BY <1>2 DEF Known, Kept
  <2>4. n \in disputed
    BY <1>2, <2>1, <2>2, <2>3 DEF Init
  <2> QED
    BY <1>2, <2>4
<1> QED
  BY <1>1, <1>2 DEF Agreement, Excepted

\* Steps that bring no entry in, change nothing kept but where a copy is cut, and
\* end no exception.
LEMMA FewerEntries ==
  ASSUME Agreement, Entries' \subseteq Entries, disputed \subseteq disputed', cut \subseteq cut',
         \A e \in Entries : Kept(e.name)' = Kept(e.name) \/ e.name \in cut'
  PROVE  \A e \in Entries' : e.name \notin Excepted' => Kept(e.name)' \in {None, e.hash}
BY DEF Agreement, Excepted

LEMMA StartAgrees ==
  ASSUME TypeOK, Progress, Agreement, Startup
  PROVE  Agreement'
<1>0. \A e \in Entries : e.name \in Name
  BY IndexFacts DEF TypeOK, Entries, Own
<1>1. /\ \A e \in Entries : Kept(e.name)' = Kept(e.name) \/ e.name \in cut'
      /\ cut \subseteq cut'
  BY <1>0, StartKeeps, CutStays
<1>2. CASE Start
  <2>1. Entries' \subseteq Entries /\ UNCHANGED disputed /\ pc' \in {"move", "load", "unlisted"}
    BY <1>2 DEF Start, Begin, Goto, Entries, Own, disk
  <2>2. pc' = "load" => old' = {}
    BY <1>2 DEF Start, Begin, Goto, Progress, disk
  <2> QED
    BY <1>1, <2>1, <2>2, FewerEntries DEF Agreement
<1>3. ASSUME NEW n \in Name, Move(n) PROVE Agreement'
  <2>1. Entries' \subseteq Entries /\ UNCHANGED disputed /\ pc' = "move"
    BY <1>3 DEF Move, Visited, Goto, Entries, Own
  <2> QED
    BY <1>1, <2>1, FewerEntries DEF Agreement, Excepted
<1>4. CASE Merge
  <2>1. Entries' \subseteq Entries /\ UNCHANGED disputed /\ pc' \in {"merge", "unlink"}
    BY <1>4 DEF Merge, Goto, Entries, Own, disk
  <2> QED
    BY <1>1, <2>1, FewerEntries DEF Agreement, Excepted
<1>5. CASE Truncate("merge", "write", "unlink") \/ Write("write", "unlink")
  <2>1. Entries' \subseteq Entries /\ UNCHANGED disputed /\ pc' \in {"write", "unlink"}
    BY <1>5 DEF Truncate, Write, Goto, Entries, Own, memory
  <2> QED
    BY <1>1, <2>1, FewerEntries DEF Agreement, Excepted
<1>6. CASE Truncate("prune", "save", "serve") \/ Write("save", "serve")
  <2>1. /\ Entries' \subseteq Entries /\ pc \in {"prune", "save"}
        /\ UNCHANGED <<disputed, cut, main, old, index>>
    BY <1>6 DEF Truncate, Write, Goto, Entries, Own, memory
  <2> QED
    BY <1>1, <2>1, FewerEntries DEF Agreement, Excepted
<1>7. CASE UnlinkIndex
  <2>1. /\ Entries' \subseteq Entries /\ disputed \subseteq disputed'
        /\ pc' \in {"rmdir", "load"}
    BY <1>7 DEF UnlinkIndex, Goto, Entries, Own, memory
  <2>2. \A e \in old' : e.name \in disputed'
    BY <1>7 DEF UnlinkIndex
  <2> QED
    BY <1>1, <2>1, <2>2, FewerEntries DEF Agreement
<1>8. CASE RemoveDir
  <2>1. /\ Entries' \subseteq Entries /\ pc = "rmdir" /\ pc' = "load"
        /\ UNCHANGED <<disputed, old>>
    BY <1>8 DEF RemoveDir, Goto, Entries, Own, memory
  <2> QED
    BY <1>1, <2>1, FewerEntries DEF Agreement, Excepted
<1>9. CASE Load
  <2>1. /\ Entries' \subseteq Entries /\ pc = "load"
        /\ UNCHANGED <<disputed, cut, old, main>>
        /\ \A e \in index' : main[e.name] # None
    BY <1>9 DEF Load, Goto, Entries, Own, disk
  <2> QED
    BY <1>1, <2>1, FewerEntries DEF Agreement, Excepted
<1> QED
  BY <1>2, <1>3, <1>4, <1>5, <1>6, <1>7, <1>8, <1>9 DEF Startup

\* The entries of a serving cache are exact, but for the names excepted.
LEMMA ServingExact ==
  ASSUME Agreement, pc = "serve", NEW e \in index, e.name \notin Excepted
  PROVE  main[e.name] = e.hash
BY DEF Agreement, Entries, Kept

\* A step of the serving cache to an exact index.
LEMMA ServeAgrees ==
  ASSUME Agreement, NEW S \in Indexes, Serve(S),
         \A e \in S : e.name \notin Excepted => main'[e.name] = e.hash
  PROVE  Agreement'
<1>1. \A e \in S : e.hash # None
  BY IndexFacts, ContentFacts
<1>2. /\ pc = "serve" /\ pc' = "serve" /\ UNCHANGED <<old, disputed, cut>>
      /\ index' = S /\ Entries' = S \cup old
  BY DEF Serve, Entries, Own, history
<1> QED
  BY <1>1, <1>2 DEF Agreement, Excepted, Kept

LEMMA AgreementNext ==
  ASSUME TypeOK, Progress, Agreement, [Next]_vars
  PROVE  Agreement'
<1>1. CASE Startup
  BY <1>1, StartAgrees
<1>2. CASE Down
  <2>1. /\ Entries' \subseteq Entries /\ UNCHANGED <<disputed, cut, main, nested>>
        /\ pc' = "down"
    BY <1>2 DEF Down, Entries, Own, disk
  <2> QED
    BY <2>1, FewerEntries DEF Agreement, Excepted, Kept
<1>3. CASE Evict
  <2>1. PICK e \in index : main' = [main EXCEPT ![e.name] = None] /\ Serve(index \ {e})
    BY <1>3 DEF Evict
  <2>2. index \ {e} \in Indexes
    BY IndexFacts DEF TypeOK
  <2>3. ASSUME NEW f \in index \ {e}, f.name \notin Excepted
        PROVE  main'[f.name] = f.hash
    <3>1. main[f.name] = f.hash
      BY <2>1, <2>3, ServingExact DEF Serve
    <3>2. CASE f.name = e.name
      <4>1. e.hash = f.hash
        BY <2>1, <2>3, <3>1, <3>2, ServingExact DEF Serve
      <4> QED
        BY <2>3, <4>1 DEF TypeOK, Indexes
    <3> QED
      BY <2>1, <3>1, <3>2, IndexFacts DEF TypeOK
  <2> QED
    BY <2>1, <2>2, <2>3, ServeAgrees
<1>4. ASSUME NEW n \in Name, Adopt(n) PROVE Agreement'
  <2>1. main[n] \in Content
    BY <1>4 DEF TypeOK, Adopt
  <2>2. Put(index, n, main[n]) \in Indexes
    BY <2>1, IndexFacts DEF TypeOK
  <2>3. \A f \in Put(index, n, main[n]) : f.name \notin Excepted => main'[f.name] = f.hash
    BY <1>4, ServingExact DEF Adopt, Serve, Put
  <2> QED
    BY <1>4, <2>2, <2>3, ServeAgrees DEF Adopt
<1>5. ASSUME NEW n \in Name, NEW h \in Hash, Publish(n, h) PROVE Agreement'
  <2>1. PICK D \in SUBSET Named(index, n) : Serve(Put(index \ D, n, h))
    BY <1>5 DEF Publish
  <2>2. index \ D \in Indexes
    BY IndexFacts DEF TypeOK
  <2>3. Put(index \ D, n, h) \in Indexes
    BY <2>2, IndexFacts, ContentFacts
  <2>4. main[n] = None /\ main' = [main EXCEPT ![n] = h]
    BY <1>5 DEF Publish
  <2>5. ASSUME NEW f \in index, f.name \notin Excepted
        PROVE  f.name # n /\ main'[f.name] = f.hash
    <3>1. main[f.name] = f.hash /\ f.hash # None /\ f.name \in Name
      BY <2>1, <2>5, ServingExact, IndexFacts, ContentFacts DEF Serve, TypeOK
    <3> QED
      BY <2>4, <3>1 DEF TypeOK
  <2>6. \A f \in Put(index \ D, n, h) : f.name \notin Excepted => main'[f.name] = f.hash
    BY <2>4, <2>5 DEF Put, TypeOK
  <2> QED
    BY <2>1, <2>3, <2>6, ServeAgrees
<1>6. CASE UNCHANGED vars
  BY <1>6 DEF vars, disk, memory, history, Agreement, Excepted, Entries, Own, Kept
<1> QED
  BY <1>1, <1>2, <1>3, <1>4, <1>5, <1>6 DEF Next

\* A migrated index gives no file the wrong hash, but under the names on which
\* the directories disagreed, that a nested index kept, or whose copy was cut.
THEOREM MigratedIndexTrue == Spec => []IndexTruth
<1>1. Inv /\ [Next]_vars => Inv'
  BY TypeNext, ProgressNext, AgreementNext DEF Inv
<1>2. Init => Inv
  BY TypeInit, ProgressInit, AgreementInit DEF Inv
<1>3. Inv => IndexTruth
  BY ServingExact DEF Inv, IndexTruth, Excepted
<1> QED
  BY <1>1, <1>2, <1>3, PTL DEF Spec
=============================================================================

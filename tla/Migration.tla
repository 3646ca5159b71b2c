----------------------------- MODULE Migration -----------------------------
(***************************************************************************)
(* The start of the package cache (p2p_cache.py): packages and index of a  *)
(* nested cache directory, which an earlier release left behind, move into *)
(* the cache directory, and the index is loaded.                           *)
(*                                                                         *)
(* A step reads, moves, deletes or rewrites a file and may fail.  It is    *)
(* then passed over, but for one: when the nested directory cannot be      *)
(* listed the process ends.  The daemon may also crash between any two     *)
(* steps, and starts again on what is there.  Faults names what may fail:  *)
(*   "list"    the nested directory is not listed,                         *)
(*   "read"    an index file is not read,                                  *)
(*   "move"    a package is not renamed, and its copy fails or is cut,     *)
(*   "unlink"  a nested package that gave way is not deleted,              *)
(*   "write"   the index file is not opened or not written,                *)
(*   "clean"   the nested index or the nested directory is not deleted.    *)
(* Once the start is over the cache serves: its lookups, downloads and     *)
(* evictions are here one step each with the save of the index, since      *)
(* their own windows are the subject of PackageCache.                      *)
(***************************************************************************)
EXTENDS Integers, FiniteSets

CONSTANTS
  Name,        \* package file names
  Hash,        \* contents, each identified by its SHA-256
  Faults,      \* what may fail, see above
  MaxCrashes,  \* bound on the crashes that interrupt a start
  None         \* no file

ASSUME ConstantsAssumption ==
  /\ Faults \subseteq {"list", "read", "move", "unlink", "write", "clean"}
  /\ MaxCrashes \in Nat
  /\ None \notin Hash \cup {<<"cut", n>> : n \in Name}

VARIABLES
  main,       \* the cache directory: the content under each name, or None
  nested,     \* the same of the nested directory
  saved,      \* the entries of the index file
  torn,       \* the index file does not parse
  old,        \* the entries of the nested index file
  leftovers,  \* what else exists: of the nested "dir", its "index", other "files"
  pc,         \* step of the start, "serve" after it; without a process "down",
              \* or "unlisted" when an exception ended it
  legacy,     \* legacy_index, as this start has read it
  todo,       \* names that its loop has yet to visit
  index,      \* self.index; main_index while it is merged
  disputed,   \* history: names of which IndexTruth does not speak
  cut,        \* history: names of which a copy was cut
  crashes,    \* history: number of starts that a crash has interrupted
  smooth      \* history: nothing has failed in this start

memory == <<legacy, todo, index>>
disk == <<main, nested, saved, torn, old, leftovers>>
history == <<disputed, cut, crashes, smooth>>
vars == <<disk, pc, memory, history>>

\* What a copy that is cut leaves of the package n, and all contents of files.
CutOf(n) == <<"cut", n>>
Content == Hash \cup {CutOf(n) : n \in Name}

\* An index is a dictionary keyed by hash.
Entry == [hash : Content, name : Name]
Indexes == {S \in SUBSET Entry : \A e, f \in S : e.hash = f.hash => e = f}
Named(S, n) == {e \in S : e.name = n}
Own == IF torn THEN {} ELSE saved

\* The contents that files and entries of both directories tell of a name.
Known(n) == ({main[n], nested[n]} \cup {e.hash : e \in Named(Own \cup old, n)}) \ {None}

TrueOf(S, dir) == \A e \in S : dir[e.name] \in {None, e.hash}

OfPackages(S) == \A e \in S : e.hash \in Hash

\* Both directories were written by a cache: an entry may lack its file, a file
\* its entry, but no entry gives a file the wrong hash.
Init ==
  /\ main \in [Name -> Hash \cup {None}] /\ nested \in [Name -> Hash \cup {None}]
  /\ saved \in Indexes /\ OfPackages(saved) /\ TrueOf(saved, main) /\ torn = FALSE
  /\ old \in Indexes /\ OfPackages(old) /\ TrueOf(old, nested)
  /\ leftovers \in {{"dir", "index"}, {"dir", "index", "files"}}
  /\ pc = "down" /\ legacy = {} /\ todo = {} /\ index = {}
  /\ disputed = {n \in Name : \E g, h \in Known(n) : g # h}
  /\ cut = {} /\ crashes = 0 /\ smooth = TRUE

Goto(step) == pc' = step /\ UNCHANGED crashes
Passed == UNCHANGED smooth
Failed(what) == what \in Faults /\ smooth' = FALSE

-----------------------------------------------------------------------------
(* _migrate_legacy_cache *)

Begin(step, entries, names) ==
  /\ pc \in {"down", "unlisted"} /\ Goto(step)
  /\ legacy' = entries /\ todo' = names
  /\ UNCHANGED <<disk, index, disputed, cut>>

Listed == {n \in Name : nested[n] # None}

\* MUTANT: a cache directory with an index of its own is not migrated into.
StartOnce ==
  /\ smooth' = TRUE
  /\ IF "dir" \notin leftovers \/ saved # {} THEN Begin("load", {}, {})
     ELSE Begin("move", old, Listed)

\* The process starts; with a nested directory it reads its index and lists it.
Start ==
  \/ "dir" \notin leftovers /\ smooth' = TRUE /\ Begin("load", {}, {})
  \/ /\ "dir" \in leftovers
     /\ \/ smooth' = TRUE /\ Begin("move", old, Listed)
        \/ Failed("read") /\ Begin("move", {}, Listed)
        \/ Failed("list") /\ Begin("unlisted", {}, {})

Visited(n) ==
  /\ todo' = todo \ {n}
  /\ Goto("move")
  /\ UNCHANGED <<saved, torn, old, leftovers, legacy, index, disputed>>

\* MUTANT: the nested file is deleted whether it was moved or not.
MoveThenUnlink(n) ==
  /\ pc = "move" /\ n \in todo
  /\ \/ Passed /\ main' = IF main[n] = None THEN [main EXCEPT ![n] = nested[n]] ELSE main
     \/ Failed("move") /\ UNCHANGED main
  /\ nested' = [nested EXCEPT ![n] = None]
  /\ UNCHANGED cut /\ Visited(n)

\* MUTANT: the exception of a failed move or unlink ends the process.
MoveRaises(n) ==
  /\ pc = "move" /\ n \in todo
  /\ \/ /\ main' = IF main[n] = None THEN [main EXCEPT ![n] = nested[n]] ELSE main
        /\ nested' = [nested EXCEPT ![n] = None]
        /\ Passed /\ Visited(n) /\ UNCHANGED cut
     \/ /\ Failed(IF main[n] = None THEN "move" ELSE "unlink")
        /\ Goto("down") /\ todo' = {} /\ legacy' = {}
        /\ UNCHANGED <<disk, index, disputed, cut>>

\* shutil.move: a rename, and when that fails a copy, which may come to nothing,
\* to a part of the file or, when the nested one is then not deleted, to a second
\* file.  A crash in a copy leaves what its failure leaves.
Copy(n) ==
  /\ main[n] = None /\ Failed("move")
  /\ \/ UNCHANGED <<main, cut>>
     \/ main' = [main EXCEPT ![n] = CutOf(n)] /\ cut' = cut \cup {n}
     \/ main' = [main EXCEPT ![n] = nested[n]] /\ UNCHANGED cut
  /\ UNCHANGED nested

\* A package moves unless the cache has a file of that name, which stays; the
\* nested one is then deleted.
Move(n) ==
  /\ pc = "move" /\ n \in todo
  /\ \/ /\ main' = IF main[n] = None THEN [main EXCEPT ![n] = nested[n]] ELSE main
        /\ nested' = [nested EXCEPT ![n] = None]
        /\ Passed /\ UNCHANGED cut
     \/ Copy(n)
     \/ main[n] # None /\ Failed("unlink") /\ UNCHANGED <<main, nested, cut>>
  /\ Visited(n)

\* MUTANT: the nested entries are appended.
MergeAll ==
  /\ pc = "move" /\ todo = {}
  /\ index' = Own \cup legacy
  /\ Goto("merge")
  /\ UNCHANGED <<disk, legacy, todo, disputed, cut, smooth>>

\* The entries of the index file, of which there are none if it is not read or
\* does not parse, and those of the nested one with other hashes.
Merge ==
  /\ pc = "move" /\ todo = {}
  /\ IF legacy = {} THEN UNCHANGED index /\ Passed /\ Goto("unlink")
     ELSE /\ \/ index' = Own \cup {e \in legacy : \A f \in Own : f.hash # e.hash} /\ Passed
             \/ index' = legacy /\ Failed("read")
          /\ Goto("merge")
  /\ UNCHANGED <<disk, legacy, todo, disputed, cut>>

\* open(.., 'w') empties the file before json.dump fills it, if either succeeds.
Truncate(from, to, past) ==
  /\ pc = from
  /\ \/ Passed /\ Goto(to) /\ torn' = TRUE
     \/ Failed("write") /\ Goto(past) /\ UNCHANGED torn
  /\ UNCHANGED <<main, nested, saved, old, leftovers, memory, disputed, cut>>

Write(from, to) ==
  /\ pc = from /\ Goto(to)
  /\ \/ Passed /\ saved' = index /\ torn' = FALSE
     \/ Failed("write") /\ UNCHANGED <<saved, torn>>
  /\ UNCHANGED <<main, nested, old, leftovers, memory, disputed, cut>>

\* MUTANT: the nested index is not deleted.
UnlinkNothing ==
  /\ pc = "unlink" /\ Goto("rmdir") /\ Passed
  /\ legacy' = {} /\ index' = {}
  /\ UNCHANGED <<disk, todo, disputed, cut>>

\* The nested index goes first; with an exception it stays, and the directory.
\* What was merged is written, and forgotten.
UnlinkIndex ==
  /\ pc = "unlink"
  /\ \/ /\ leftovers' = leftovers \ {"index"} /\ old' = {}
        /\ Passed /\ Goto("rmdir")
        /\ UNCHANGED disputed
     \/ /\ Failed("clean") /\ Goto("load")
        /\ disputed' = disputed \cup {e.name : e \in old}
        /\ UNCHANGED <<old, leftovers>>
  /\ legacy' = {} /\ index' = {}
  /\ UNCHANGED <<main, nested, saved, torn, todo, cut>>

\* rmdir fails on a directory that is not empty.
RemoveDir ==
  /\ pc = "rmdir" /\ Goto("load")
  /\ \/ /\ \A n \in Name : nested[n] = None
        /\ leftovers = {"dir"}
        /\ leftovers' = {} /\ Passed
     \/ /\ \/ \E n \in Name : nested[n] # None
           \/ leftovers # {"dir"}
        /\ UNCHANGED leftovers /\ Passed
     \/ Failed("clean") /\ UNCHANGED leftovers
  /\ UNCHANGED <<main, nested, saved, torn, old, memory, disputed, cut>>

-----------------------------------------------------------------------------
(* _load_cache_index *)

\* Entries whose file is missing are dropped, and the rest is saved again.
Load ==
  /\ pc = "load"
  /\ \/ /\ index' = {e \in Own : main[e.name] # None} /\ Passed
        /\ Goto(IF index' # Own THEN "prune" ELSE "serve")
     \/ index' = {} /\ Failed("read") /\ Goto("serve")
  /\ UNCHANGED <<disk, legacy, todo, disputed, cut>>

-----------------------------------------------------------------------------
(* The cache serves. *)

Serve(newIndex) ==
  /\ pc = "serve"
  /\ index' = newIndex /\ saved' = index' /\ torn' = FALSE
  /\ UNCHANGED <<nested, old, leftovers, pc, legacy, todo, history>>

Put(S, n, h) == {e \in S : e.hash # h} \cup {[hash |-> h, name |-> n]}

\* A lookup adopts a file that the index has missed.
Adopt(n) ==
  /\ main[n] # None /\ Named(index, n) = {}
  /\ Serve(Put(index, n, main[n]))
  /\ UNCHANGED main

\* A GET that finds no file, and drops the entry it finds, downloads one.
Publish(n, h) ==
  /\ main[n] = None
  /\ \E dropped \in SUBSET Named(index, n) :
       /\ Cardinality(dropped) <= 1
       /\ dropped = {} => Named(index, n) = {}
       /\ Serve(Put(index \ dropped, n, h))
  /\ main' = [main EXCEPT ![n] = h]

Evict ==
  /\ \E e \in index :
       /\ main' = [main EXCEPT ![e.name] = None]
       /\ Serve(index \ {e})

\* The process ends; a crash during the start counts.
Down ==
  /\ pc \notin {"down", "unlisted"} /\ pc' = "down"
  /\ IF pc = "serve" THEN UNCHANGED crashes
     ELSE crashes < MaxCrashes /\ crashes' = crashes + 1
  /\ legacy' = {} /\ todo' = {} /\ index' = {}
  /\ UNCHANGED <<disk, disputed, cut, smooth>>

Startup ==
  \/ Start
  \/ \E n \in Name : Move(n)
  \/ Merge \/ Truncate("merge", "write", "unlink") \/ Write("write", "unlink")
  \/ UnlinkIndex \/ RemoveDir
  \/ Load \/ Truncate("prune", "save", "serve") \/ Write("save", "serve")

Next ==
  \/ Startup \/ Down \/ Evict
  \/ \E n \in Name : Adopt(n) \/ \E h \in Hash : Publish(n, h)

\* Nothing in a start waits; systemd starts the daemon again (Restart).
Spec == Init /\ [][Next]_vars /\ WF_vars(Startup)

-----------------------------------------------------------------------------
(* Properties *)

Steps == {"down", "unlisted", "move", "merge", "write", "unlink", "rmdir", "load", "prune", "save", "serve"}

TypeOK ==
  /\ main \in [Name -> Content \cup {None}] /\ nested \in [Name -> Hash \cup {None}]
  /\ saved \in Indexes /\ old \in Indexes /\ legacy \in Indexes /\ index \in Indexes
  /\ torn \in BOOLEAN /\ smooth \in BOOLEAN
  /\ leftovers \subseteq {"dir", "index", "files"}
  /\ todo \subseteq Listed
  /\ disputed \subseteq Name /\ cut \subseteq Name
  /\ pc \in Steps /\ crashes \in 0..MaxCrashes

\* What a start has for a name: the file in the cache directory or else the
\* nested one.
Kept(n) == IF main[n] # None THEN main[n] ELSE nested[n]

\* No start, whatever fails in it and wherever it crashes, loses a package or
\* puts another in place of one that the cache has, unless it copied it and the
\* copy was cut: that one goes, for the next start deletes what it was copied from.
PackagesKept ==
  [][pc # "serve" => \A n \in Name : Kept(n)' = Kept(n) \/ n \in cut']_vars

\* After a start in which nothing failed, whatever crashes came before it, no
\* package is left behind, and neither is the directory unless it holds files
\* that are no packages.
Migrated ==
  pc = "serve" /\ smooth =>
    /\ \A n \in Name : nested[n] = None
    /\ old = {} /\ "index" \notin leftovers
    /\ "dir" \in leftovers => "files" \in leftovers

\* The index of the serving cache never gives a file the wrong hash, except
\* under three kinds of names: those of which the two directories disagreed to
\* begin with, for the entry of a nested file that gave way is merged; those of a
\* nested index that could not be deleted, which the next start merges into
\* whatever the cache holds by then; and those of copies that were cut.
IndexTruth ==
  pc = "serve" => \A e \in index :
    main[e.name] \in {None, e.hash} \/ e.name \in disputed \cup cut

\* A start that is no longer interrupted comes to its end, whatever fails, unless
\* the nested directory cannot be listed.
StartEnds == pc = "down" ~> pc \in {"serve", "unlisted"}
=============================================================================

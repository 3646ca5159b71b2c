---------------------------- MODULE PackageCache ----------------------------
(***************************************************************************)
(* The local package cache of the proxy (p2p_cache.py) under the callers   *)
(* that share it: request threads of the HTTP server that look a package   *)
(* up, reject a corrupt copy, download and register (p2p_server.py), and   *)
(* the lookups of HEAD requests, remote clients and the libp2p query       *)
(* handler.                                                                *)
(*                                                                         *)
(* The content of a file is identified with its SHA-256, so a file holds a *)
(* hash.  The index is a dictionary keyed by hash; its insertion order is  *)
(* not modelled, and "the first entry with that name" is any of them.      *)
(* The cache lock is re-entrant and every use of it is one critical        *)
(* section that ends with a save of the index; what runs without the lock  *)
(* (unlink of a corrupt file, rename of a finished download, the check of  *)
(* the cached hash) is an action of its own.                               *)
(***************************************************************************)
EXTENDS Integers, FiniteSets, FiniteSetsExt

CONSTANTS
  Name,         \* package file names
  Hash,         \* contents, each identified by its SHA-256
  Size,         \* size in bytes of each content
  MaxBytes,     \* max_cache_size_mb in bytes; 0 or less disables the limit
  DiskLimited,  \* TRUE: max_disk_usage_percent is set and may be exceeded
  Worker,       \* threads serving GET requests of the local dnf
  Exclusive,    \* TRUE: at most one request in progress per name
  Faults,       \* which of "torn", "stale" (saves) and "unlink" may fail
  MaxTime,      \* bound on the clock that last_accessed is read from
  None          \* no file, no hash, no thread

ASSUME ConstantsAssumption ==
  /\ Size \in [Hash -> Nat \ {0}]
  /\ MaxBytes \in Int
  /\ DiskLimited \in BOOLEAN
  /\ Exclusive \in BOOLEAN
  /\ Faults \subseteq {"torn", "stale", "unlink"}
  /\ MaxTime \in Nat
  /\ None \notin Name \cup Hash \cup Worker
  /\ "query" \notin Worker

VARIABLES
  files,    \* the package file on disk under each name, or None
  index,    \* self.index: a set of entries with distinct hashes
  saved,    \* the entries of the index file
  torn,     \* the index file was cut short and does not parse
  stale,    \* the last save failed and has left the index file as it was
  clock,    \* time.time(), coarse: several accesses may share a tick
  phase,    \* what the holder of the cache lock is doing
  holder,   \* the thread inside the cache lock; "query" is any plain lookup
  todo,     \* valid_entries that the running eviction has not visited
  total,    \* total_size of the running eviction
  stuck,    \* entries that the running eviction failed to unlink
  req,      \* per worker: step, file name, expected and downloaded hash
  doubted   \* history: names of which a fault has left a false entry

pass == <<todo, total, stuck>>
indexFile == <<saved, torn, stale>>
vars == <<files, index, indexFile, clock, phase, holder, pass, req, doubted>>

Entry == [hash : Hash, name : Name, size : Nat, last : Nat]
Named(n) == {e \in index : e.name = n}
Bytes(S) == MapThenSumSet(LAMBDA e : e.size, S)

Idle == [pc |-> "idle", name |-> None, want |-> None, got |-> None]
Goto(w, pc) == req' = [req EXCEPT ![w].pc = pc]
Finish(w) == req' = [req EXCEPT ![w] = Idle]

Init ==
  /\ files = [n \in Name |-> None]
  /\ index = {} /\ saved = {} /\ torn = FALSE /\ stale = FALSE
  /\ clock = 0
  /\ phase = "free" /\ holder = None
  /\ todo = {} /\ total = 0 /\ stuck = {}
  /\ req = [w \in Worker |-> Idle]
  /\ doubted = {}

-----------------------------------------------------------------------------
(* Lookups, under the lock. *)

\* MUTANT: the former entry of the same hash is not replaced.
PutTwice(h, n) == index
  \cup {[hash |-> h, name |-> n, size |-> Size[files[n]], last |-> clock]}

\* index[h] = {filename, size of the file on disk, last_accessed: now}
Put(h, n) == {e \in index : e.hash # h}
  \cup {[hash |-> h, name |-> n, size |-> Size[files[n]], last |-> clock]}

Touched(e) == {f \in index : f.hash # e.hash} \cup {[e EXCEPT !.last = clock]}

Lock(by, what) ==
  /\ phase = "free"
  /\ phase' = what
  /\ holder' = by

\* MUTANT: a file that the index has missed counts as a miss.
LookupIndexOnly(n, hit, by) ==
  \/ /\ files[n] # None /\ hit /\ Lock(by, "save")
     /\ \E e \in Named(n) : index' = Touched(e)
  \/ /\ files[n] = None /\ ~hit /\ Lock(by, "save")
     /\ \E e \in Named(n) : index' = index \ {e}
  \/ /\ Named(n) = {} /\ ~hit /\ phase = "free"
     /\ UNCHANGED <<index, phase, holder>>

\* get_cached_file_by_name and lookup_filename: touch the entry, or drop it
\* when its file is gone, or adopt a file the index has missed.
Lookup(n, hit, by) ==
  \/ /\ files[n] # None /\ hit /\ Lock(by, "save")
     /\ \E e \in Named(n) : index' = Touched(e)
  \/ /\ files[n] = None /\ ~hit /\ Lock(by, "save")
     /\ \E e \in Named(n) : index' = index \ {e}
  \/ /\ Named(n) = {} /\ files[n] # None /\ hit /\ Lock(by, "save")
     /\ index' = Put(files[n], n)
  \/ /\ Named(n) = {} /\ files[n] = None /\ ~hit /\ phase = "free"
     /\ UNCHANGED <<index, phase, holder>>

\* HEAD, a remote GET, the libp2p query handler.
Query ==
  /\ \E n \in Name, hit \in BOOLEAN : Lookup(n, hit, "query")
  /\ UNCHANGED <<files, indexFile, clock, pass, req, doubted>>

\* MUTANT: the entry of a missing file is removed without a save.
QueryHashUnsaved ==
  /\ phase = "free"
  /\ \E e \in index : files[e.name] = None /\ index' = index \ {e}
  /\ UNCHANGED <<files, indexFile, clock, phase, holder, pass, req, doubted>>

\* get_cached_file
QueryHash ==
  /\ Lock("query", "save")
  /\ \E e \in index :
       index' = IF files[e.name] # None THEN Touched(e) ELSE index \ {e}
  /\ UNCHANGED <<files, indexFile, clock, pass, req, doubted>>

-----------------------------------------------------------------------------
(* A GET of the local dnf. *)

Get(w) ==
  /\ req[w].pc = "idle"
  /\ \E n \in Name, h \in Hash \cup {None}, hit \in BOOLEAN :
       /\ Exclusive => \A v \in Worker : req[v].name # n
       /\ Lookup(n, hit, w)
       /\ req' = [req EXCEPT ![w] =
                    [pc |-> IF hit THEN "hit" ELSE "fetch",
                     name |-> n, want |-> h, got |-> None]]
  /\ UNCHANGED <<files, indexFile, clock, pass, doubted>>

\* The hash that do_GET reads from the index without the lock, or computes.
CachedHashes(n) ==
  IF Named(n) = {} THEN {files[n]} ELSE {e.hash : e \in Named(n)}

\* Served, or found corrupt; or the loop over the dictionary raises, because
\* another thread has changed it meanwhile, and the request dies.
Check(w) ==
  /\ req[w].pc = "hit" /\ holder # w
  /\ \/ \E h \in CachedHashes(req[w].name) :
          IF None \notin {req[w].want, h} /\ h # req[w].want
          THEN Goto(w, "drop") ELSE Finish(w)
     \/ Finish(w)
  /\ UNCHANGED <<files, index, indexFile, clock, phase, holder, pass, doubted>>

\* cache_file.unlink(), outside the lock.  When it raises, because the file has
\* vanished or cannot be removed, the removal of the entries is skipped, and
\* the download goes on: over the old file, if it is there, or before the
\* thread in the lock that removed the file has saved that its entry is gone.
UnlinkCorrupt(w) ==
  /\ req[w].pc = "drop"
  /\ \/ /\ files[req[w].name] # None
        /\ files' = [files EXCEPT ![req[w].name] = None]
        /\ Goto(w, "forget")
        /\ UNCHANGED doubted
     \/ /\ files[req[w].name] = None
        /\ Goto(w, "fetch")
        /\ doubted' = IF phase = "free" THEN doubted ELSE doubted \cup {req[w].name}
        /\ UNCHANGED files
     \/ /\ files[req[w].name] # None /\ "unlink" \in Faults
        /\ Goto(w, "fetch")
        /\ doubted' = doubted \cup {req[w].name}
        /\ UNCHANGED files
  /\ UNCHANGED <<index, indexFile, clock, phase, holder, pass>>

\* MUTANT: the entries of the corrupt file stay.
ForgetNothing(w) ==
  /\ req[w].pc = "forget" /\ Goto(w, "fetch")
  /\ UNCHANGED <<files, index, indexFile, clock, phase, holder, pass, doubted>>

ForgetCorrupt(w) ==
  /\ req[w].pc = "forget"
  /\ Lock(w, "save")
  /\ index' = index \ Named(req[w].name)
  /\ Goto(w, "fetch")
  /\ UNCHANGED <<files, indexFile, clock, pass, doubted>>

\* A download ends and the temporary file is renamed to its name: content
\* that matches the expected hash, or any content when none is known.
Place(w) ==
  /\ req[w].pc = "fetch" /\ holder # w
  /\ \E h \in Hash :
       /\ req[w].want \in {h, None}
       /\ files' = [files EXCEPT ![req[w].name] = h]
       /\ req' = [req EXCEPT ![w].pc = "placed", ![w].got = h]
  /\ UNCHANGED <<index, indexFile, clock, phase, holder, pass, doubted>>

\* Every source failed, or the client went away.
Abort(w) ==
  /\ req[w].pc = "fetch" /\ holder # w
  /\ Finish(w)
  /\ UNCHANGED <<files, index, indexFile, clock, phase, holder, pass, doubted>>

\* add_to_cache up to the loop of evict_if_needed; nothing is registered when
\* the file is already gone.
Register(w) ==
  /\ req[w].pc = "placed"
  /\ \/ /\ files[req[w].name] = None
        /\ Finish(w)
        /\ UNCHANGED <<index, phase, holder, pass>>
     \/ /\ files[req[w].name] # None
        /\ Lock(w, "evict")
        /\ index' = {e \in Put(req[w].got, req[w].name) : files[e.name] # None}
        /\ todo' = index' /\ total' = Bytes(index') /\ stuck' = {}
        /\ Goto(w, "register")
  /\ UNCHANGED <<files, indexFile, clock, doubted>>

-----------------------------------------------------------------------------
(* The eviction pass and the save, by the holder of the lock. *)

\* MUTANT: the limit is compared after the bytes of one more package.
OverSizeLate == MaxBytes > 0 /\ total > MaxBytes + 1

OverSize == MaxBytes > 0 /\ total > MaxBytes

\* MUTANT: the list is sorted newest first.
Newest(e) == \A f \in todo : f.last <= e.last

Oldest(e) == \A f \in todo : e.last <= f.last

\* One turn of the loop over valid_entries.  The unlink raises when another
\* thread's unlink fell between exists() and unlink(), or on a disk error.
EvictStep ==
  /\ phase = "evict" /\ (OverSize \/ DiskLimited)
  /\ \E e \in todo :
       /\ Oldest(e)
       /\ todo' = todo \ {e}
       /\ \/ /\ files[e.name] # None
             /\ files' = [files EXCEPT ![e.name] = None]
             /\ total' = total - e.size
             /\ index' = index \ {e}
             /\ UNCHANGED stuck
          \/ /\ files[e.name] = None
             /\ index' = index \ {e}
             /\ UNCHANGED <<files, total, stuck>>
          \/ /\ files[e.name] = None \/ "unlink" \in Faults
             /\ stuck' = stuck \cup {e}
             /\ UNCHANGED <<files, index, total>>
  /\ UNCHANGED <<indexFile, clock, phase, holder, req, doubted>>

PassOver == todo' = {} /\ total' = 0 /\ stuck' = {}

EvictDone ==
  /\ phase = "evict"
  /\ todo = {} \/ ~OverSize
  /\ phase' = "save"
  /\ PassOver
  /\ UNCHANGED <<files, index, indexFile, clock, holder, req, doubted>>

\* MUTANT: an exception of the save leaves the lock held.
SaveKeepsLock ==
  /\ phase = "save"
  /\ saved' = {} /\ torn' = TRUE /\ stale' = FALSE
  /\ UNCHANGED <<files, index, clock, phase, holder, pass, req, doubted>>

\* _save_cache_index truncates the file, then writes it; errors are swallowed,
\* of the open, which leaves the old file, and of the write, which cuts it.
Saving(entries) ==
  \/ saved' = entries /\ torn' = FALSE /\ stale' = FALSE
  \/ "torn" \in Faults /\ saved' = {} /\ torn' = TRUE /\ stale' = FALSE
  \/ "stale" \in Faults /\ UNCHANGED <<saved, torn>> /\ stale' = TRUE

Save ==
  /\ phase = "save"
  /\ Saving(index)
  /\ phase' = "free" /\ holder' = None
  /\ req' = [w \in Worker |->
               IF w = holder /\ req[w].pc = "register" THEN Idle ELSE req[w]]
  /\ UNCHANGED <<files, index, clock, pass, doubted>>

-----------------------------------------------------------------------------
\* MUTANT: the entries are loaded without looking at the disk.
LoadAll(entries) == entries

\* _load_cache_index: the entries whose file is there.
Load(entries) == {e \in entries : files[e.name] # None}

\* An index file that was being written when the server stopped, or stopped
\* again as it loaded, does not parse, and is left as it is.
LoadNothing ==
  /\ torn \/ phase = "save" \/ Load(saved) # saved
  /\ index' = {}
  /\ saved' = {} /\ torn' = TRUE /\ stale' = FALSE

\* The index is saved again if an entry was dropped.
LoadSaved ==
  /\ ~torn
  /\ index' = Load(saved)
  /\ IF index' = saved THEN UNCHANGED <<saved, torn>> /\ stale' = FALSE
     ELSE Saving(index')

\* Names of entries that memory had dropped and a stale index file brings back.
Revived ==
  IF ~stale THEN {}
  ELSE {e.name : e \in {f \in Load(saved) :
                          \A g \in index : <<g.hash, g.name>> # <<f.hash, f.name>>}}

\* The server stops at any moment and systemd starts it again.
Restart ==
  /\ \/ LoadNothing /\ UNCHANGED doubted
     \/ LoadSaved /\ doubted' = doubted \cup Revived
  /\ phase' = "free" /\ holder' = None
  /\ PassOver
  /\ req' = [w \in Worker |-> Idle]
  /\ UNCHANGED <<files, clock>>

Tick ==
  /\ clock < MaxTime
  /\ clock' = clock + 1
  /\ UNCHANGED <<files, index, indexFile, phase, holder, pass, req, doubted>>

Request(w) ==
  Get(w) \/ Check(w) \/ UnlinkCorrupt(w) \/ ForgetCorrupt(w)
    \/ Place(w) \/ Abort(w) \/ Register(w)

LockStep == EvictStep \/ EvictDone \/ Save

Next ==
  \/ Query \/ QueryHash
  \/ \E w \in Worker : Request(w)
  \/ LockStep
  \/ Restart \/ Tick

\* The thread inside the lock keeps running.
Spec == Init /\ [][Next]_vars /\ WF_vars(LockStep)

-----------------------------------------------------------------------------
(* Properties *)

Steps == {"idle", "hit", "drop", "forget", "fetch", "placed", "register"}

UniqueKeys(S) == \A e, f \in S : e.hash = f.hash => e = f

\* The types; the index is a dictionary, no two entries have the same hash.
TypeOK ==
  /\ files \in [Name -> Hash \cup {None}]
  /\ index \in SUBSET Entry /\ saved \in SUBSET Entry
  /\ UniqueKeys(index) /\ UniqueKeys(saved)
  /\ torn \in BOOLEAN /\ stale \in BOOLEAN /\ doubted \subseteq Name
  /\ clock \in Nat
  /\ phase \in {"free", "evict", "save"}
  /\ holder \in Worker \cup {"query", None}
  /\ todo \in SUBSET Entry /\ stuck \in SUBSET Entry
  /\ req \in [Worker -> [pc : Steps, name : Name \cup {None},
                          want : Hash \cup {None}, got : Hash \cup {None}]]
  /\ \A w \in Worker : /\ req[w].pc # "idle" => req[w].name \in Name
                       /\ req[w].pc \in {"placed", "register"} => req[w].got \in Hash

\* Between two critical sections the index file holds what memory holds, or
\* it does not parse, or the last save failed and is the one to blame: no
\* crash brings back an entry that memory has dropped but through such a save.
Durable == phase = "free" => torn \/ stale \/ saved = index

\* What a crash may make of the index, unless a failed save is made up for.
OnFile == IF stale THEN {} ELSE saved

\* An entry describes the file of its name: the hash do_GET compares with the
\* expected one in place of hashing the file is the hash of that file, now
\* and after any restart.  Of the names in doubt only the sizes are right: a
\* corrupt copy of theirs could not be removed, or vanished under a thread in
\* the lock, or a restart brought an entry back that a failed save had left.
IndexTruth ==
  /\ \A e \in index \cup OnFile : e.name \notin doubted => files[e.name] \in {None, e.hash}
  /\ \A e \in index \cup saved : e.size = Size[e.hash]

\* An entry whose file is gone is one that a request rejecting a corrupt copy
\* is about to remove; nothing else leaves an entry without a file behind,
\* but for the names in doubt.
Grounded ==
  \A e \in index : files[e.name] = None /\ e.name \notin doubted =>
    \E w \in Worker : req[w].pc = "forget" /\ req[w].name = e.name

\* An eviction pass never removes an entry while it keeps an older one, but
\* those it tried and failed to unlink.
OldestFirst ==
  [][phase = "evict" /\ phase' = "evict" =>
       \A e \in index \ index', f \in index' \ stuck : e.last <= f.last]_vars

\* A pass leaves at most MaxBytes in the index, or only what it failed to
\* unlink.
PassEnforcesLimit ==
  [][phase = "evict" /\ phase' = "save" /\ MaxBytes > 0 =>
       Bytes(index) <= MaxBytes \/ index \subseteq stuck]_vars

\* The lock is released again: an eviction pass ends whatever unlinks fail,
\* and no failure of a save keeps the lock.
LockReleased == phase # "free" ~> phase = "free"

\* What the index or the index file says of the file of a name.
Claims == {<<e.hash, e.name>> : e \in {f \in index \cup OnFile : f.name \notin doubted}}
Trusted == [n \in Name |-> IF n \in doubted THEN None ELSE files[n]]

Store == INSTANCE PackageStore WITH store <- Trusted, claims <- Claims

\* The cache behaves as a store of whole files that never change under their
\* name, of which it claims, in memory or on disk, only what is true.  A name
\* that comes into doubt leaves the store.
StoreSpec == Store!Spec

\* The limit the README promises, when no request is in progress.
WithinLimit ==
  phase = "free" /\ (\A w \in Worker : req[w] = Idle) /\ MaxBytes > 0
    => Bytes(index) <= MaxBytes
=============================================================================

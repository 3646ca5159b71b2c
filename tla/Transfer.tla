------------------------------ MODULE Transfer ------------------------------
(***************************************************************************)
(* A GET of a package through the proxy, from the cache lookup to the end  *)
(* of the response (do_GET, _serve_file, _download_swarm and               *)
(* _download_and_serve of p2p_server.py), for any number of requests in    *)
(* progress.                                                               *)
(*                                                                         *)
(* PackageCache treats a download as one step that leaves a good file.     *)
(* Here a download is the writes it makes: every request for a name writes *)
(* to the one temporary file of that name, a file is an inode that a       *)
(* thread may keep open after its name is gone, and the reply of each      *)
(* request is recorded as it is sent.  What PackageCache models in detail  *)
(* is coarse here: a use of the index under the lock is one step, and a    *)
(* registration evicts any entries.                                        *)
(*                                                                         *)
(* A content h has Chunks chunks, <<h, 1>>, <<h, 2>> and so on: an inode   *)
(* that is Full(h) has the SHA-256 of h, and any other sequence is some    *)
(* other content.  For the ranges that a swarm asks of other nodes, and    *)
(* they of this one, a chunk is a byte of ByteRanges.                      *)
(*                                                                         *)
(* Faults names what may go wrong with the disk or with a client:          *)
(*   "write"   a write to a temporary file fails,                          *)
(*   "unlink"  a file is not removed, and stays,                           *)
(*   "rename"  a file is not renamed, and stays,                           *)
(*   "stall"   a client stops reading, and a thread waits for it.          *)
(***************************************************************************)
EXTENDS ByteRanges, FiniteSets, SequencesExt

CONSTANTS
  Name,         \* package file names
  Hash,         \* contents of packages
  Inode,        \* inodes of the cache directory, a set of numbers
  Request,      \* connections served at the same time
  Chunks,       \* chunks per content
  MaxPeers,     \* bound on the peers that have the package
  Ranges,       \* TRUE: other nodes ask for ranges
  Exclusive,    \* TRUE: at most one local request in progress per name
  Faults,       \* what may fail, see above
  Crashes,      \* TRUE: the server may stop and start again
  None,         \* no file, hash or thread
  Hole          \* bytes of a file that nobody wrote

ASSUME ConstantsAssumption ==
  /\ Inode \subseteq Nat /\ Chunks \in Nat \ {0} /\ MaxPeers \in Nat
  /\ {Ranges, Exclusive, Crashes} \subseteq BOOLEAN
  /\ Faults \subseteq {"write", "unlink", "rename", "stall"}
  /\ None \notin Name \cup Hash \cup Inode

VARIABLES
  disk,   \* the content of each inode
  tmp,    \* the inode of <name>.tmp, or None
  final,  \* the inode of <name>, or None
  index,  \* the cache index: pairs of a content and a name
  req,    \* per request: the local variables of do_GET, and its reply
  stalled,   \* the requests that wait for a client to read
  doubted,   \* history: names of which a corrupt copy could not be removed
  littered   \* history: names of which a temporary file was left behind

noted == <<stalled, doubted, littered>>
vars == <<disk, tmp, final, index, req, noted>>

\* The first p chunks of a content, and all of it.
Begun(h, p) == [i \in 1 .. p |-> <<h, i>>]
Full(h) == Begun(h, Chunks)
Named(n) == {e \in index : e[2] = n}

\* A request without a Range header.
Whole == <<"whole", 0, 0>>

Blank == [pc |-> "idle", name |-> None, kind |-> "remote", want |-> None,
          range |-> Whole, sources |-> <<>>, target |-> None, src |-> None, via |-> "stream",
          fd |-> None, pos |-> 0, next |-> "done", sent |-> <<>>]

Init ==
  /\ disk = [i \in Inode |-> <<>>]
  /\ tmp = [n \in Name |-> None]
  /\ final = [n \in Name |-> None]
  /\ index = {}
  /\ req = [r \in Request |-> Blank]
  /\ stalled = {} /\ doubted = {} /\ littered = {}

\* The thread of the request is there, and runs.
At(r, pc) == req[r].pc = pc /\ r \notin stalled
Picks(r) == At(r, "pick") /\ req[r].sources # <<>>

\* The head of a reply, as a part of what is sent.
Code(status) == <<<<status, 0>>>>

Goto(r, pc) == req' = [req EXCEPT ![r].pc = pc]

\* The request ends, with a last part of the reply.
Ended(x, what) ==
  [Blank EXCEPT !.pc = "done", !.name = x.name, !.kind = x.kind, !.sent = x.sent \o what]
Done(r, what) == req' = [req EXCEPT ![r] = Ended(req[r], what)]

-----------------------------------------------------------------------------
(* The cache lookup. *)

\* The ranges that the swarm of another node asks for, which was told the size
\* of the package, or a larger one, by a third.
SwarmHeaders ==
  {<<"slice", SwarmRanges(2, size)[i][1], SwarmRanges(2, size)[i][2]>> :
     size \in Chunks .. Chunks + 1, i \in 1 .. 2}

Asking(n, kind, h, range) ==
  [Blank EXCEPT !.pc = "lookup", !.name = n, !.kind = kind, !.want = h, !.range = range]

MayAsk(n, kind, h, range) ==
  /\ kind = "remote" => h = None
  /\ range # Whole => Ranges /\ kind = "remote"
  /\ Exclusive /\ kind # "remote" =>
       \A q \in Request : req[q].name = n => req[q].kind = "remote"

\* A request of a remote client, perhaps for a range, or of the local dnf
\* without or with a remote_url; the hash it expects was registered by the
\* plugin, or not.
Arrive(r) ==
  /\ req[r].pc = "idle"
  /\ \E n \in Name, kind \in {"remote", "local", "mirror"}, h \in Hash \cup {None},
        range \in SwarmHeaders \cup {Whole} :
       /\ MayAsk(n, kind, h, range)
       /\ req' = [req EXCEPT ![r] = Asking(n, kind, h, range)]
  /\ UNCHANGED <<disk, tmp, final, index, noted>>

\* get_cached_file_by_name: a hit, a file adopted under the hash it has, or a
\* miss that drops an entry.
Lookup(r) ==
  LET n == req[r].name IN
  /\ At(r, "lookup")
  /\ \/ /\ final[n] # None
        /\ index' = IF Named(n) # {} THEN index
                    ELSE {e \in index : e[1] # disk[final[n]]} \cup {<<disk[final[n]], n>>}
        /\ Goto(r, "check")
     \/ /\ final[n] = None
        /\ \/ Named(n) = {} /\ UNCHANGED index
           \/ \E e \in Named(n) : index' = index \ {e}
        /\ Goto(r, "miss")
  /\ UNCHANGED <<disk, tmp, final, noted>>

\* MUTANT: the hash of the cached file is not compared.
CheckNothing(r) ==
  /\ At(r, "check")
  /\ Goto(r, "serve")
  /\ UNCHANGED <<disk, tmp, final, index, noted>>

\* The hash in the index stands for the file; it is read without the lock, and
\* the request dies if the dictionary changes under the loop.
Check(r) ==
  LET n == req[r].name
      cached == IF Named(n) # {} THEN {e[1] : e \in Named(n)}
                ELSE IF final[n] = None THEN {} ELSE {disk[final[n]]}
      corrupt(c) == req[r].want # None /\ c # Full(req[r].want)
  IN
  /\ At(r, "check")
  /\ \/ \E c \in cached : Goto(r, IF corrupt(c) THEN "drop" ELSE "serve")
     \/ cached = {} /\ Goto(r, "serve")
     \/ req[r].want # None /\ index # {} /\ Done(r, <<>>)
  /\ UNCHANGED <<disk, tmp, final, index, noted>>

\* The corrupt copy is removed, or it has vanished, or that fails and it stays:
\* then its entries stay too, and the download goes on.
UnlinkCorrupt(r) ==
  LET n == req[r].name IN
  /\ At(r, "drop")
  /\ \/ /\ final[n] # None
        /\ final' = [final EXCEPT ![n] = None]
        /\ Goto(r, "forget")
        /\ UNCHANGED doubted
     \/ /\ final[n] = None
        /\ Goto(r, "miss")
        /\ UNCHANGED <<final, doubted>>
     \/ /\ "unlink" \in Faults /\ final[n] # None
        /\ Goto(r, "miss")
        /\ doubted' = doubted \cup {n}
        /\ UNCHANGED final
  /\ UNCHANGED <<disk, tmp, index, stalled, littered>>

\* MUTANT: the entry of a corrupt file is kept.
ForgetNothing(r) ==
  /\ At(r, "forget")
  /\ Goto(r, "miss")
  /\ UNCHANGED <<disk, tmp, final, index, noted>>

ForgetCorrupt(r) ==
  /\ At(r, "forget")
  /\ index' = index \ Named(req[r].name)
  /\ Goto(r, "miss")
  /\ UNCHANGED <<disk, tmp, final, noted>>

Reply(range, file) ==
  IF range = Whole THEN Code("200") \o file
  ELSE IF ParseRange(range, Len(file)) = Unsatisfiable THEN Code("416")
  ELSE Code("206") \o ServedPart(range, file)

\* _serve_file opens the file again: when it has vanished since the lookup the
\* client gets nothing, or a head without a body.
Serve(r) ==
  LET n == req[r].name IN
  /\ At(r, "serve")
  /\ \/ final[n] # None /\ Done(r, Reply(req[r].range, disk[final[n]]))
     \/ final[n] = None /\ Done(r, <<>>)
     \/ final[n] = None /\ \E status \in {"200", "206", "416"} :
          /\ status = "200" <=> req[r].range = Whole
          /\ Done(r, Code(status))
  /\ UNCHANGED <<disk, tmp, final, index, noted>>

-----------------------------------------------------------------------------
(* The sources of a download. *)

\* A remote client gets a 404.  For a local one the sources are a swarm when
\* the package is large and two peers have it, each peer, then the mirror.
Miss(r) ==
  /\ At(r, "miss")
  /\ \/ req[r].kind = "remote" /\ Done(r, Code("404"))
     \/ /\ req[r].kind # "remote"
        /\ \E k \in 0 .. MaxPeers, swarm \in BOOLEAN :
             /\ swarm => k >= 2
             /\ req' = [req EXCEPT ![r].pc = "pick", ![r].sources =
                  (IF swarm THEN <<"swarm">> ELSE <<>>)
                  \o [i \in 1 .. k |-> "peer"]
                  \o (IF req[r].kind = "mirror" THEN <<"mirror">> ELSE <<>>)]
  /\ UNCHANGED <<disk, tmp, final, index, noted>>

NotFound(r) ==
  /\ At(r, "pick") /\ req[r].sources = <<>>
  /\ Done(r, Code("404"))
  /\ UNCHANGED <<disk, tmp, final, index, noted>>

\* MUTANT: the hash a peer claims comes before the registered one.
TargetsPeerFirst(r, source) ==
  IF source # "mirror" THEN Hash \cup {req[r].want}
  ELSE {req[r].want}

\* The hash a source is held to: the registered one, else the one the peer
\* claims, else none.
Targets(r, source) ==
  IF req[r].want # None THEN {req[r].want}
  ELSE IF source = "mirror" THEN {None} ELSE Hash \cup {None}

\* The first of the sources is used: what it is held to, what it has, and what
\* of that the client is sent at once.
Taken(x, pc, via, t, h, what) ==
  [x EXCEPT !.pc = pc, !.sources = Tail(x.sources), !.target = t, !.src = h,
     !.via = via, !.sent = x.sent \o what]

\* Head(sources) is tried next; what it sends is read and verified in memory.
InMemory(r, source, targets) ==
  /\ Picks(r) /\ Head(req[r].sources) = source
  /\ \E h \in Hash, t \in targets :
       /\ t = h \/ (t = None /\ source = "peer")
       /\ req' = [req EXCEPT ![r] =
            Taken(req[r], "save", source, t, h, Code("200") \o Full(h))]
  /\ UNCHANGED <<disk, tmp, final, index, noted>>

\* A swarm of which a range, a length or the hash of the whole is wrong; it
\* has not touched the temporary file.
SwarmFails(r) ==
  /\ Picks(r) /\ Head(req[r].sources) = "swarm"
  /\ req' = [req EXCEPT ![r].sources = Tail(@)]
  /\ UNCHANGED <<disk, tmp, final, index, noted>>

\* What a swarm puts together from peers with these contents, when the first of
\* them gave that size: nothing if a part is refused or not of its length.
Assembled(held, size) ==
  LET n == Len(held)
      r == SwarmRanges(n, size)
      parts == [i \in 1 .. n |->
                  ServedPart(<<"slice", r[i][1], r[i][2]>>, Full(held[i]))]
  IN  IF \A i \in 1 .. n : parts[i] # <<>> /\ Len(parts[i]) = r[i][2] - r[i][1] + 1
      THEN FlattenSeq(parts) ELSE <<>>

\* All ranges of a swarm have come, from up to four peers, and they are a
\* content; it is sent, and then written.
Swarm(r) ==
  LET peers == Cardinality({i \in DOMAIN req[r].sources : req[r].sources[i] = "peer"}) IN
  /\ Picks(r) /\ Head(req[r].sources) = "swarm"
  /\ \E held \in [1 .. Least(peers, 4) -> Hash], size \in 1 .. Chunks + 1 :
       LET body == Assembled(held, size) IN
       InMemory(r, "swarm", {h \in Targets(r, "swarm") \ {None} : Full(h) = body})

\* MUTANT: a source that fails is tried again.
SourceRetries(r) ==
  /\ Picks(r) /\ Head(req[r].sources) # "swarm"
  /\ req' = [req EXCEPT ![r].pc = "clean", ![r].next = "pick"]
  /\ UNCHANGED <<disk, tmp, final, index, noted>>

\* The next source fails before anything is sent: no connection, a status that
\* is not 200, or for a buffered peer a wrong or missing body.
SourceFails(r) ==
  /\ Picks(r) /\ Head(req[r].sources) # "swarm"
  /\ req' = [req EXCEPT ![r].sources = Tail(@), ![r].pc = "clean", ![r].next = "pick"]
  /\ UNCHANGED <<disk, tmp, final, index, noted>>

\* A peer with a small package, while there is a mirror to fall back to.
Buffered(r) ==
  /\ "mirror" \in ToSet(req[r].sources)
  /\ InMemory(r, "peer", Targets(r, "peer"))

FreeInodes == Inode \ ({tmp[n] : n \in Name} \cup {final[n] : n \in Name}
                          \cup {req[r].fd : r \in Request})
TempInodes(n) ==
  IF tmp[n] # None THEN {tmp[n]} ELSE {i \in FreeInodes : \A j \in FreeInodes : i <= j}

\* MUTANT: a file that is there is not truncated.
OpenTempKept(n, i) ==
  /\ i \in TempInodes(n)
  /\ tmp' = [tmp EXCEPT ![n] = i]
  /\ disk' = [disk EXCEPT ![i] = IF tmp[n] = i THEN @ ELSE <<>>]
  /\ littered' = littered \ {n}

\* open(temp_file, 'wb'): truncates the file that is there, or makes one.
OpenTemp(n, i) ==
  /\ i \in TempInodes(n)
  /\ tmp' = [tmp EXCEPT ![n] = i]
  /\ disk' = [disk EXCEPT ![i] = <<>>]
  /\ littered' = littered \ {n}

Save(r) ==
  /\ At(r, "save")
  /\ \E i \in Inode :
       /\ OpenTemp(req[r].name, i)
       /\ req' = [req EXCEPT ![r].pc = "write", ![r].fd = i]
  /\ UNCHANGED <<final, index, stalled, doubted>>

\* Any other source is sent to the client as it arrives, and verified after.
Stream(r) ==
  /\ Picks(r)
  /\ Head(req[r].sources) # "swarm"
  /\ \E i \in Inode :
       /\ OpenTemp(req[r].name, i)
       /\ \E h \in Hash, t \in Targets(r, Head(req[r].sources)) :
            req' = [req EXCEPT ![r] =
              [Taken(req[r], "write", "stream", t, h, Code("200")) EXCEPT !.fd = i]]
  /\ UNCHANGED <<final, index, stalled, doubted>>

-----------------------------------------------------------------------------
(* The body. *)

\* Chunk p of a content is written at its position in a file, which another
\* writer may have written further or truncated.
Written(file, p, h) ==
  [i \in 1 .. Greatest(p, Len(file)) |->
     IF i = p THEN <<h, p>> ELSE IF i <= Len(file) THEN file[i] ELSE Hole]

Write(r) ==
  /\ At(r, "write") /\ req[r].pos < Chunks
  /\ disk' = [disk EXCEPT ![req[r].fd] = Written(@, req[r].pos + 1, req[r].src)]
  /\ req' = [req EXCEPT ![r].pos = @ + 1,
       ![r].sent = IF req[r].via = "stream" THEN Append(@, <<req[r].src, req[r].pos + 1>>) ELSE @]
  /\ UNCHANGED <<tmp, final, index, noted>>

\* The file is closed; what is left is to rename it, or to clean up and go to
\* the next source or to the end of the request.  pos is how much of the source
\* has come, which for a source that was read in memory is all.
Shut(x, pc, next) ==
  [x EXCEPT !.pc = pc, !.next = next, !.fd = None,
     !.pos = IF pc = "clean" THEN 0 ELSE IF x.via = "stream" THEN x.pos ELSE Chunks,
     !.via = IF pc = "clean" THEN "stream" ELSE x.via,
     !.target = IF pc = "clean" THEN None ELSE x.target,
     !.src = IF pc = "clean" THEN None ELSE x.src]

\* MUTANT: the file stays open.
LeftOpen(r, pc, next) ==
  req' = [req EXCEPT ![r] = [@ EXCEPT !.pc = pc, !.next = next, !.pos = 0]]

Closed(r, pc, next) == req' = [req EXCEPT ![r] = Shut(req[r], pc, next)]

\* A body ends after all chunks; a stream without a Content-Length may break off
\* before, and nobody notices.
BodyEnds(r) == At(r, "write") /\ (req[r].pos = Chunks \/ req[r].via = "stream")

\* MUTANT: the hash of a streamed download is not compared.
EndBodyUnverified(r) ==
  /\ BodyEnds(r)
  /\ Closed(r, "rename", "done")
  /\ UNCHANGED <<disk, tmp, final, index, noted>>

\* A streamed download with the wrong hash ends the request: the client has it.
EndBody(r) ==
  /\ BodyEnds(r)
  /\ IF /\ req[r].via = "stream" /\ req[r].target # None
        /\ req[r].target # req[r].src \/ req[r].pos < Chunks
     THEN Closed(r, "clean", "done") ELSE Closed(r, "rename", "done")
  /\ UNCHANGED <<disk, tmp, final, index, noted>>

\* The source of a stream breaks off with an error: the next source is tried.
SourceDies(r) ==
  /\ At(r, "write") /\ req[r].via = "stream"
  /\ Closed(r, "clean", "pick")
  /\ UNCHANGED <<disk, tmp, final, index, noted>>

\* The client goes away while it is sent something; a swarm has no temporary
\* file to clean up yet.
ClientGone(r) ==
  /\ \/ At(r, "write") /\ req[r].via = "stream" /\ Closed(r, "clean", "done")
     \/ At(r, "save") /\ req[r].via = "peer" /\ Closed(r, "clean", "done")
     \/ At(r, "save") /\ req[r].via = "swarm" /\ Done(r, <<>>)
  /\ UNCHANGED <<disk, tmp, final, index, noted>>

\* The disk is full: a stream goes to the next source, a swarm gives up, and a
\* buffered download logs the error and goes on to the rename.
WriteFails(r) ==
  /\ "write" \in Faults
  /\ At(r, "save") \/ At(r, "write")
  /\ CASE req[r].via = "stream" -> Closed(r, "clean", "pick")
       [] req[r].via = "swarm" -> Closed(r, "clean", "done")
       [] req[r].via = "peer" -> Closed(r, "rename", "done")
  /\ UNCHANGED <<disk, tmp, final, index, noted>>

-----------------------------------------------------------------------------
(* The end of a download: the finally block of _download_and_serve. *)

\* When it fails, and the file is gone or stays, only a swarm cleans up after it.
Rename(r) ==
  LET n == req[r].name IN
  /\ At(r, "rename")
  /\ \/ /\ tmp[n] # None
        /\ final' = [final EXCEPT ![n] = tmp[n]]
        /\ tmp' = [tmp EXCEPT ![n] = None]
        /\ littered' = littered \ {n}
        /\ Goto(r, "register")
     \/ /\ tmp[n] = None \/ "rename" \in Faults
        /\ req[r].via = "swarm" /\ Closed(r, "clean", "done")
        /\ UNCHANGED <<tmp, final, littered>>
     \/ /\ tmp[n] = None \/ "rename" \in Faults
        /\ req[r].via # "swarm" /\ Done(r, <<>>)
        /\ littered' = IF tmp[n] = None THEN littered ELSE littered \cup {n}
        /\ UNCHANGED <<tmp, final>>
  /\ UNCHANGED <<disk, index, stalled, doubted>>

\* add_to_cache under the target, or the computed hash, and an eviction.
Register(r) ==
  LET n == req[r].name
      h == IF req[r].target # None THEN Full(req[r].target)
           ELSE Begun(req[r].src, req[r].pos)
      entries == {e \in index : e[1] # h /\ final[e[2]] # None} \cup {<<h, n>>}
  IN
  /\ At(r, "register")
  /\ Done(r, <<>>)
  /\ \/ final[n] = None /\ UNCHANGED <<final, index>>
     \/ /\ final[n] # None
        /\ \E out \in SUBSET entries :
             /\ index' = entries \ out
             /\ final' = [m \in Name |-> IF \E e \in out : e[2] = m THEN None ELSE final[m]]
  /\ UNCHANGED <<disk, tmp, noted>>

GoOn(r) == IF req[r].next = "done" THEN Done(r, <<>>) ELSE Goto(r, "pick")

\* MUTANT: the temporary file of a failed download is kept.
CleanNothing(r) ==
  /\ At(r, "clean")
  /\ GoOn(r)
  /\ UNCHANGED <<disk, tmp, final, index, noted>>

\* temp_file.exists(), whoever writes to it; then the next source.
Clean(r) ==
  /\ At(r, "clean")
  /\ IF tmp[req[r].name] # None THEN Goto(r, "unlink") ELSE GoOn(r)
  /\ UNCHANGED <<disk, tmp, final, index, noted>>

\* temp_file.unlink(); it raises, and the request dies, when the file is gone or
\* is not removed.
Unlink(r) ==
  LET n == req[r].name IN
  /\ At(r, "unlink")
  /\ \/ /\ tmp[n] # None
        /\ tmp' = [tmp EXCEPT ![n] = None]
        /\ littered' = littered \ {n}
        /\ GoOn(r)
     \/ /\ tmp[n] = None \/ "unlink" \in Faults
        /\ Done(r, <<>>)
        /\ littered' = IF tmp[n] = None THEN littered ELSE littered \cup {n}
        /\ UNCHANGED tmp
  /\ UNCHANGED <<disk, final, index, stalled, doubted>>

\* The connection is closed, and its thread free for another.
Close(r) ==
  /\ req[r].pc = "done"
  /\ req' = [req EXCEPT ![r] = Blank]
  /\ UNCHANGED <<disk, tmp, final, index, noted>>

\* A client stops reading while it is sent something, for as long as it likes: a
\* GET has no timeout towards its client.
Stall(r) ==
  /\ "stall" \in Faults
  /\ \/ At(r, "serve") \/ At(r, "pick")
     \/ At(r, "miss") /\ req[r].kind = "remote"
     \/ At(r, "write") /\ req[r].via = "stream"
  /\ stalled' = stalled \cup {r}
  /\ UNCHANGED <<disk, tmp, final, index, req, doubted, littered>>

Resume(r) ==
  /\ r \in stalled
  /\ stalled' = stalled \ {r}
  /\ UNCHANGED <<disk, tmp, final, index, req, doubted, littered>>

\* The server stops at any moment and starts with the index it saved, or none.
Restart ==
  /\ Crashes
  /\ index' \in {{}, {e \in index : final[e[2]] # None}}
  /\ req' = [r \in Request |-> Blank]
  /\ stalled' = {}
  /\ littered' = {n \in Name : tmp[n] # None}
  /\ UNCHANGED <<disk, tmp, final, doubted>>

Step(r) ==
  \/ Lookup(r) \/ Check(r) \/ UnlinkCorrupt(r) \/ ForgetCorrupt(r) \/ Serve(r)
  \/ Miss(r) \/ NotFound(r) \/ SwarmFails(r) \/ Swarm(r) \/ SourceFails(r) \/ Buffered(r)
  \/ Save(r) \/ Stream(r)
  \/ Write(r) \/ EndBody(r) \/ SourceDies(r) \/ ClientGone(r) \/ WriteFails(r)
  \/ Rename(r) \/ Register(r) \/ Clean(r) \/ Unlink(r)

Next ==
  \/ \E r \in Request : Arrive(r) \/ Step(r) \/ Close(r) \/ Stall(r) \/ Resume(r)
  \/ Restart

\* A thread keeps running unless its client has it wait: a source times out
\* (15 s), and a step at the disk or at the lock ends.
Spec == Init /\ [][Next]_vars /\ \A r \in Request : WF_vars(Step(r))

-----------------------------------------------------------------------------
(* Properties *)

Steps == {"idle", "lookup", "check", "drop", "forget", "serve", "miss", "pick", "save",
          "write", "rename", "register", "clean", "unlink", "done"}

TypeOK ==
  /\ disk \in [Inode -> Seq((Hash \X (1 .. Chunks)) \cup {Hole})]
  /\ tmp \in [Name -> Inode \cup {None}] /\ final \in [Name -> Inode \cup {None}]
  /\ \A e \in index : e[1] \in Seq((Hash \X (1 .. Chunks)) \cup {Hole}) /\ e[2] \in Name
  /\ \A r \in Request :
       /\ req[r].pc \in Steps /\ req[r].name \in Name \cup {None}
       /\ req[r].fd \in Inode \cup {None} /\ req[r].pos \in 0 .. Chunks
       /\ req[r].fd # None <=> req[r].pc = "write"
       /\ req[r].sources \in Seq({"swarm", "peer", "mirror"})
  /\ stalled \subseteq Request /\ doubted \subseteq Name /\ littered \subseteq Name

\* Every entry of the index tells the truth of the file of its name, unless a
\* corrupt copy of it could not be removed.
CachedTruth ==
  \A e \in index :
    e[2] \in doubted \/ final[e[2]] = None \/ disk[final[e[2]]] = e[1]

\* What is stored under each name, and claimed; names in doubt are left out.
Packages == {Begun(h, p) : h \in Hash, p \in 0 .. Chunks}
Stored ==
  [n \in Name |-> IF n \in doubted \/ final[n] = None THEN None ELSE disk[final[n]]]
Claims == {e \in index : e[2] \notin doubted}

Store == INSTANCE PackageStore WITH Hash <- Packages, store <- Stored, claims <- Claims

\* Written in place and renamed, the packages are a store of files that never
\* change under their name; the index makes the claims.
StoreSpec == Store!Spec

\* Content that goes to the cache, or to the client out of memory, is the one
\* whose hash was registered, and all of it, whatever hashes peers claim and
\* however a source ends.
TrustedHashWins ==
  \A r \in Request :
    req[r].pc \in {"save", "rename", "register"} /\ req[r].want # None
      => req[r].src = req[r].want /\ (req[r].pc = "save" \/ req[r].pos = Chunks)

\* A file under a package name is of one content, from its beginning and without
\* a gap, whatever was left in the temporary file that became it.
PublishedIntact ==
  \A n \in Name : final[n] # None =>
    \E h \in Hash, p \in 0 .. Chunks : disk[final[n]] = Begun(h, p)

\* A client that expects a hash and is served from the cache gets that content,
\* unless a corrupt copy of it could not be removed.
HitServesWanted ==
  [][\A r \in Request :
       /\ req[r].pc = "serve" /\ req[r].want # None /\ req[r].name \notin doubted
       /\ Len(req'[r].sent) > 1
       => req'[r].sent = Code("200") \o Full(req[r].want)]_vars

\* A swarm that is next asks for every byte of the package once, whatever the
\* size and the number of peers (_download_swarm).
RangesCover ==
  \A r \in Request :
    req[r].sources # <<>> /\ Head(req[r].sources) = "swarm" => CoversTried

\* A range that is about to be served is parsed as the bytes it asks for, and
\* refused when there are none, whatever the size of the file.
ParseExact ==
  \A r \in Request : req[r].pc = "serve" /\ req[r].range # Whole => ExactTried

AnswersRange(sent, asked) ==
  IF asked = {} THEN sent = Code("416")
  ELSE \E h \in Hash, first \in asked :
         /\ asked = first .. first + Cardinality(asked) - 1
         /\ sent = Code("206") \o [k \in 1 .. Cardinality(asked) |-> <<h, first + k>>]

\* A node that asks for a range gets these chunks of one content, in their
\* order, or is told that there are none: what the two ends of a swarm make of
\* a range agrees.
PartServed ==
  [][\A r \in Request :
       /\ req[r].pc = "serve" /\ req'[r].pc = "done"
       /\ req[r].range # Whole /\ final[req[r].name] # None
       => AnswersRange(req'[r].sent, Asked(req[r].range, Len(disk[final[req[r].name]])))]_vars

\* A temporary file is in the hands of a request that will rename or remove it,
\* unless a rename, an unlink or the server failed it since it was made.
TempsOwned ==
  \A n \in Name : tmp[n] # None =>
    \/ n \in littered
    \/ \E r \in Request :
         req[r].name = n /\ req[r].pc \in {"write", "rename", "clean", "unlink"}

\* Every request comes to its end, as long as its client reads.
Ends ==
  \A r \in Request :
    req[r].pc \notin {"idle", "done"} ~> req[r].pc \in {"idle", "done"} \/ r \in stalled

\* A download that succeeds after others failed has sent what it goes on to
\* cache and nothing else.
CleanFallback ==
  \A r \in Request :
    req[r].pc = "rename" => req[r].sent = Code("200") \o Begun(req[r].src, req[r].pos)
=============================================================================

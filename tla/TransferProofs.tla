--------------------------- MODULE TransferProofs ---------------------------
(***************************************************************************)
(* What Transfer guarantees for any packages, requests and sizes.          *)
(***************************************************************************)
EXTENDS Transfer, ByteRangesProofs, FiniteSetTheorems, SequenceTheorems, TLAPS

USE DEF At, Picks, noted

Chunk == (Hash \X (1 .. Chunks)) \cup {Hole}

\* The types of the fields of a request; the proofs of its shape use no more of
\* them than FieldFacts says.
Names == Name \cup {None}
Kinds == {"remote", "local", "mirror"}
Hashes == Hash \cup {None}
Asks == SwarmHeaders \cup {Whole}
Sources == Seq({"swarm", "peer", "mirror"})
Vias == {"stream", "peer", "swarm"}
Inodes == Inode \cup {None}
Places == 0 .. Chunks
Nexts == {"done", "pick"}
Codes == {"200", "206", "404", "416"}
Replies == Seq(Chunk \cup (Codes \X {0}))

Records ==
  [pc : Steps, name : Names, kind : Kinds, want : Hashes, range : Asks,
   sources : Sources, target : Hashes, src : Hashes, via : Vias, fd : Inodes,
   pos : Places, next : Nexts, sent : Replies]

LEMMA FieldFacts ==
  /\ None \in Names /\ None \in Hashes /\ None \in Inodes /\ Whole \in Asks
  /\ <<>> \in Sources /\ <<>> \in Replies /\ 0 \in Places
  /\ "remote" \in Kinds /\ "stream" \in Vias /\ "done" \in Nexts /\ "pick" \in Nexts
  /\ {"idle", "done", "clean", "rename"} \subseteq Steps
  /\ Name \subseteq Names /\ Hash \subseteq Hashes /\ Inode \subseteq Inodes
  /\ \A s, t \in Replies : s \o t \in Replies
BY ConstantsAssumption DEF Names, Kinds, Hashes, Asks, Sources, Vias, Inodes, Places,
   Nexts, Replies, Steps

LEMMA CodeFacts ==
  ASSUME NEW status \in Codes
  PROVE  Code(status) \in Replies /\ Len(Code(status)) = 1
<1>1. <<status, 0>> \in Chunk \cup (Codes \X {0})
  OBVIOUS
<1>2. PICK part : part = <<status, 0>>
  OBVIOUS
<1>3. Code(status) = <<part>>
  BY <1>2 DEF Code
<1> QED
  BY <1>1, <1>2, <1>3 DEF Replies

\* What a step does to the record of its request.
Becomes(r, x) == x \in Records /\ req' = [req EXCEPT ![r] = x]

LEMMA Becoming ==
  ASSUME req \in [Request -> Records], NEW r \in Request, NEW x, Becomes(r, x)
  PROVE  /\ req' \in [Request -> Records]
         /\ req'[r] = x
         /\ \A q \in Request \ {r} : req'[q] = req[q]
BY DEF Becomes

LEMMA BlankRecord == Blank \in Records
BY FieldFacts DEF Blank, Records

LEMMA GotoFacts ==
  ASSUME req \in [Request -> Records], NEW r \in Request, NEW pc \in Steps, Goto(r, pc)
  PROVE  Becomes(r, [req[r] EXCEPT !.pc = pc])
BY DEF Goto, Becomes, Records

LEMMA DoneFacts ==
  ASSUME req \in [Request -> Records], NEW r \in Request, NEW what \in Replies,
         Done(r, what)
  PROVE  Becomes(r, Ended(req[r], what))
<1>1. /\ req[r].name \in Names /\ req[r].kind \in Kinds
      /\ req[r].sent \o what \in Replies
  BY FieldFacts DEF Records
<1>2. Ended(req[r], what) \in Records
  BY <1>1, BlankRecord, FieldFacts DEF Records, Ended
<1> QED
  BY <1>2 DEF Done, Becomes

LEMMA ClosedFacts ==
  ASSUME req \in [Request -> Records], NEW r \in Request,
         NEW pc \in Steps, NEW next \in Nexts, Closed(r, pc, next)
  PROVE  Becomes(r, Shut(req[r], pc, next))
<1>1. Chunks \in Places
  BY ConstantsAssumption DEF Places
<1>2. PICK p, v, t, h :
        /\ p = IF pc = "clean" THEN 0 ELSE IF req[r].via = "stream" THEN req[r].pos ELSE Chunks
        /\ v = IF pc = "clean" THEN "stream" ELSE req[r].via
        /\ t = IF pc = "clean" THEN None ELSE req[r].target
        /\ h = IF pc = "clean" THEN None ELSE req[r].src
  OBVIOUS
<1>3. p \in Places /\ v \in Vias /\ t \in Hashes /\ h \in Hashes
  BY <1>1, <1>2, FieldFacts DEF Records
<1>4. Shut(req[r], pc, next) =
        [req[r] EXCEPT !.pc = pc, !.next = next, !.fd = None, !.pos = p, !.via = v,
                       !.target = t, !.src = h]
  BY <1>2 DEF Shut
<1>5. Shut(req[r], pc, next) \in Records
  <2>1. None \in Inodes
    BY FieldFacts
  <2> QED
    BY <1>3, <1>4, <2>1 DEF Records
<1> QED
  BY <1>5 DEF Closed, Becomes

-----------------------------------------------------------------------------
(* Contents *)

Contents == Seq(Chunk)

LEMMA BegunFacts ==
  ASSUME NEW h \in Hash, NEW p \in Places
  PROVE  Begun(h, p) \in Contents /\ Len(Begun(h, p)) = p
<1>1. p \in Nat /\ \A i \in 1 .. p : i \in 1 .. Chunks
  BY ConstantsAssumption DEF Places
<1>2. \A i \in 1 .. p : <<h, i>> \in Chunk
  BY <1>1 DEF Chunk
<1> QED
  BY <1>1, <1>2 DEF Begun, Contents

LEMMA FullFacts ==
  ASSUME NEW h \in Hash
  PROVE  Full(h) \in Contents /\ Len(Full(h)) = Chunks
<1>1. Chunks \in Places
  BY ConstantsAssumption DEF Places
<1> QED
  BY <1>1, BegunFacts DEF Full

LEMMA WrittenType ==
  ASSUME NEW file \in Contents, NEW p \in 1 .. Chunks, NEW h \in Hash
  PROVE  Written(file, p, h) \in Contents
<1>1. PICK n \in Nat : n = Greatest(p, Len(file))
  BY ConstantsAssumption DEF Contents, Greatest
<1>2. PICK c : c = <<h, p>>
  OBVIOUS
<1>3. c \in Chunk /\ Hole \in Chunk
  BY <1>2 DEF Chunk
<1>4. \A i \in 1 .. n : i <= Len(file) => file[i] \in Chunk
  BY DEF Contents
<1>5. \A i \in 1 .. n : (IF i = p THEN c ELSE IF i <= Len(file) THEN file[i] ELSE Hole) \in Chunk
  BY <1>3, <1>4
<1>6. [i \in 1 .. n |-> IF i = p THEN c ELSE IF i <= Len(file) THEN file[i] ELSE Hole]
        \in Seq(Chunk)
  BY <1>5
<1> QED
  BY <1>1, <1>2, <1>6 DEF Written, Contents

LEMMA AskFacts ==
  ASSUME NEW range \in Asks, range # Whole
  PROVE  \E a \in Nat, b \in Int : range = <<"slice", a, b>>
<1>1. PICK size \in Chunks .. Chunks + 1, i \in 1 .. 2 :
        range = <<"slice", SwarmRanges(2, size)[i][1], SwarmRanges(2, size)[i][2]>>
  BY DEF Asks, SwarmHeaders
<1>2. size \in Nat /\ i \in 1 .. 2 /\ ChunkSize(2, size) \in Nat
  BY ConstantsAssumption DEF ChunkSize
<1>3. SwarmRanges(2, size)[i] = <<(i - 1) * ChunkSize(2, size),
                                  Least(size - 1, i * ChunkSize(2, size) - 1)>>
  BY DEF SwarmRanges
<1>4. (i - 1) * ChunkSize(2, size) \in Nat /\ Least(size - 1, i * ChunkSize(2, size) - 1) \in Int
  BY <1>2 DEF Least
<1> QED
  BY <1>1, <1>3, <1>4

LEMMA ReplyType ==
  ASSUME NEW file \in Contents, NEW range \in Asks
  PROVE  Reply(range, file) \in Replies
<1>1. Code("200") \in Replies /\ Code("416") \in Replies /\ Code("206") \in Replies
  BY CodeFacts DEF Codes
<1>2. file \in Replies /\ Len(file) \in Nat
  BY DEF Contents, Replies
<1>3. CASE range # Whole
  <2>1. PICK a, b \in Int : range = <<"slice", a, b>>
    BY <1>3, AskFacts
  <2>2. ParseRange(range, Len(file)) = SliceRange(a, b, Len(file))
    BY <2>1 DEF ParseRange
  <2>3. CASE a >= 0 /\ a <= b /\ a < Len(file)
    <3>1. PICK l \in 1 .. Len(file) : l = Least(b, Len(file) - 1) + 1
      BY <1>2, <2>1, <2>3 DEF Least
    <3>2. ParseRange(range, Len(file)) = <<a, l - 1>>
      BY <1>2, <2>1, <2>2, <2>3, <3>1 DEF SliceRange, Least
    <3>3. /\ ParseRange(range, Len(file)) # Unsatisfiable
          /\ ParseRange(range, Len(file))[1] = a
          /\ ParseRange(range, Len(file))[2] = l - 1
      BY <2>1, <3>1, <3>2 DEF Unsatisfiable
    <3>4. ServedPart(range, file) = SubSeq(file, a + 1, l)
      <4> DEFINE parsed == ParseRange(range, Len(file))
      <4>1. ServedPart(range, file) = IF parsed = Unsatisfiable THEN <<>>
                                      ELSE SubSeq(file, parsed[1] + 1, parsed[2] + 1)
        BY DEF ServedPart
      <4>2. parsed # Unsatisfiable /\ parsed[1] + 1 = a + 1 /\ parsed[2] + 1 = l
        BY <3>1, <3>3
      <4> HIDE DEF parsed
      <4> QED
        BY <4>1, <4>2
    <3>5. ServedPart(range, file) \in Replies
      <4>1. SubSeq(file, a + 1, l) \in Contents
        BY <1>2, <2>1, <2>3, <3>1 DEF Contents
      <4> QED
        BY <3>4, <4>1, SeqMonotonic DEF Contents, Replies
    <3> QED
      BY <1>1, <1>3, <3>5, FieldFacts DEF Reply
  <2>4. CASE ~(a >= 0 /\ a <= b /\ a < Len(file))
    <3>1. SliceRange(a, b, Len(file)) = Unsatisfiable
      BY <1>2, <2>1, <2>4 DEF SliceRange
    <3> QED
      BY <1>1, <1>3, <2>2, <3>1 DEF Reply
  <2> QED
    BY <2>3, <2>4
<1> QED
  BY <1>1, <1>2, <1>3, FieldFacts DEF Reply

-----------------------------------------------------------------------------
(* The local variables of a request. *)

\* What they tell in each step of the request: what is open, what has been
\* downloaded, and that it is what the client expects wherever it goes next
\* without another check.
Form(x) ==
  /\ x.pc # "idle" => x.name \in Name
  /\ x.kind = "remote" =>
       x.want = None /\ x.pc \in {"idle", "lookup", "check", "serve", "miss", "done"}
  /\ x.kind # "remote" => x.range = Whole
  /\ x.pc \in {"lookup", "check", "drop", "forget", "serve", "miss"} => x.sent = <<>>
  /\ x.pc = "drop" => x.want # None
  /\ x.fd # None <=> x.pc = "write"
  /\ x.pc \notin {"write", "rename", "register"} => x.pos = 0
  /\ x.pc \in {"save", "write", "rename", "register"} => x.src \in Hash
  /\ x.pc = "save" => x.via # "stream"
  /\ x.pc \in {"save", "write", "rename", "register"} /\ x.want # None => x.target = x.want
  /\ x.pc \in {"rename", "register"} /\ x.target # None => x.pos = Chunks
  /\ x.pc \in {"save", "rename", "register"} \/ (x.pc = "write" /\ x.via # "stream") =>
       x.target \in {None, x.src}

Types ==
  /\ disk \in [Inode -> Contents]
  /\ tmp \in [Name -> Inodes] /\ final \in [Name -> Inodes]
  /\ index \subseteq Contents \X Name
  /\ req \in [Request -> Records]
  /\ \A r \in Request : Form(req[r])
  /\ stalled \subseteq Request /\ doubted \subseteq Name /\ littered \subseteq Name

\* A step of request r that leaves its record in order.
Proper(r) == \E x : Becomes(r, x) /\ Form(x)

LEMMA FormGoto ==
  ASSUME NEW x \in Records, Form(x), NEW pc \in Steps,
         \/ /\ x.pc \in {"lookup", "check", "drop", "forget"}
            /\ \/ pc \in {"check", "miss", "serve"}
               \/ pc = "forget" /\ x.kind # "remote"
               \/ pc = "drop" /\ x.kind # "remote" /\ x.want # None
         \/ x.pc \in {"clean", "unlink"} /\ pc \in {"unlink", "pick"}
         \/ x.pc = "rename" /\ pc = "register"
  PROVE  Form([x EXCEPT !.pc = pc])
BY DEF Form, Records

LEMMA FormEnded ==
  ASSUME NEW x \in Records, NEW what, x.name \in Name
  PROVE  Form(Ended(x, what))
BY ConstantsAssumption DEF Form, Ended, Blank, Records

LEMMA FormBlank == Form(Blank)
BY DEF Form, Blank

LEMMA FormShut ==
  ASSUME NEW x \in Records, Form(x), NEW next, NEW pc, x.pc \in {"save", "write", "rename"},
         \/ pc = "clean"
         \/ pc = "rename" /\ x.pc # "rename" /\ x.via # "stream"
         \/ pc = "rename" /\ x.target \in {None, x.src} /\ (x.target # None => x.pos = Chunks)
  PROVE  Form(Shut(x, pc, next))
BY DEF Form, Shut, Records

-----------------------------------------------------------------------------
(* Every step of a request leaves its record in order. *)

LEMMA GotoProper ==
  ASSUME Types, NEW r \in Request, NEW pc \in Steps, Goto(r, pc),
         Form([req[r] EXCEPT !.pc = pc])
  PROVE  Proper(r)
BY GotoFacts DEF Types, Proper

LEMMA DoneProper ==
  ASSUME Types, NEW r \in Request, NEW what \in Replies, Done(r, what),
         req[r].pc # "idle"
  PROVE  Proper(r)
<1>1. req[r] \in Records /\ req[r].name \in Name
  BY DEF Types, Form
<1> QED
  BY <1>1, DoneFacts, FormEnded DEF Types, Proper

LEMMA ClosedProper ==
  ASSUME Types, NEW r \in Request, NEW pc, NEW next \in Nexts, Closed(r, pc, next),
         req[r].pc \in {"save", "write", "rename"},
         \/ pc = "clean"
         \/ pc = "rename" /\ req[r].pc # "rename" /\ req[r].via # "stream"
         \/ /\ pc = "rename" /\ req[r].target \in {None, req[r].src}
            /\ req[r].target # None => req[r].pos = Chunks
  PROVE  Proper(r)
<1>1. req[r] \in Records /\ Form(req[r]) /\ pc \in Steps
  BY FieldFacts DEF Types
<1>2. Form(Shut(req[r], pc, next))
  BY <1>1, FormShut
<1> QED
  BY <1>1, <1>2, ClosedFacts DEF Types, Proper

LEMMA ArriveProper ==
  ASSUME Types, NEW r \in Request, Arrive(r)
  PROVE  Proper(r)
<1>1. PICK n \in Name, kind \in Kinds, h \in Hashes, range \in Asks :
        MayAsk(n, kind, h, range) /\ req' = [req EXCEPT ![r] = Asking(n, kind, h, range)]
  BY Zenon DEF Arrive, Kinds, Hashes, Asks
<1>2. n \in Names /\ "lookup" \in Steps
  BY FieldFacts DEF Steps
<1>3. Asking(n, kind, h, range) \in Records
  BY <1>2, BlankRecord DEF Records, Asking
<1>4. Form(Asking(n, kind, h, range))
  BY <1>1 DEF Form, Asking, Blank, MayAsk
<1> QED
  BY <1>1, <1>3, <1>4 DEF Proper, Becomes

LEMMA LookupProper ==
  ASSUME Types, NEW r \in Request,
         \/ Lookup(r) \/ Check(r) \/ UnlinkCorrupt(r) \/ ForgetCorrupt(r) \/ Serve(r)
         \/ NotFound(r)
  PROVE  Proper(r)
<1>0. req[r] \in Records /\ Form(req[r]) /\ {"check", "miss", "serve", "drop", "forget"} \subseteq Steps
  BY DEF Types, Steps
<1>1. CASE Lookup(r)
  <2>1. req[r].pc = "lookup" /\ (Goto(r, "check") \/ Goto(r, "miss"))
    BY <1>1 DEF Lookup
  <2>2. Form([req[r] EXCEPT !.pc = "check"]) /\ Form([req[r] EXCEPT !.pc = "miss"])
    BY <1>0, <2>1, FormGoto
  <2> QED
    BY <1>0, <2>1, <2>2, GotoProper
<1>2. CASE Check(r)
  <2>1. /\ req[r].pc = "check"
        /\ \/ Goto(r, "serve") \/ (Goto(r, "drop") /\ req[r].want # None)
           \/ Done(r, <<>>)
    BY <1>2 DEF Check
  <2>2. req[r].want # None => req[r].kind # "remote"
    BY <1>0 DEF Form
  <2>3. /\ Form([req[r] EXCEPT !.pc = "serve"])
        /\ req[r].want # None => Form([req[r] EXCEPT !.pc = "drop"])
    BY <1>0, <2>1, <2>2, FormGoto
  <2> QED
    BY <1>0, <2>1, <2>3, FieldFacts, GotoProper, DoneProper
<1>3. CASE UnlinkCorrupt(r) \/ ForgetCorrupt(r)
  <2>1. req[r].pc \in {"drop", "forget"} /\ (Goto(r, "forget") \/ Goto(r, "miss"))
    BY <1>3 DEF UnlinkCorrupt, ForgetCorrupt
  <2>2. req[r].kind # "remote"
    BY <1>0, <2>1 DEF Form
  <2>3. Form([req[r] EXCEPT !.pc = "forget"]) /\ Form([req[r] EXCEPT !.pc = "miss"])
    BY <1>0, <2>1, <2>2, FormGoto
  <2> QED
    BY <1>0, <2>1, <2>3, GotoProper
<1>4. CASE Serve(r)
  <2>1. /\ req[r].pc = "serve" /\ req[r].name \in Name /\ req[r].range \in Asks
    BY <1>0, <1>4 DEF Serve, Form, Records
  <2>2. final[req[r].name] # None => disk[final[req[r].name]] \in Contents
    BY <2>1 DEF Types, Inodes
  <2>3. \E what \in Replies : Done(r, what)
    <3>1. CASE final[req[r].name] # None
      BY <1>4, <2>1, <2>2, <3>1, ReplyType DEF Serve
    <3>2. CASE final[req[r].name] = None
      <4>1. {<<>>, Code("200"), Code("206"), Code("416")} \subseteq Replies
        BY CodeFacts, FieldFacts DEF Codes
      <4> QED
        BY <1>4, <3>2, <4>1 DEF Serve
    <3> QED
      BY <3>1, <3>2
  <2> QED
    BY <2>1, <2>3, DoneProper
<1>5. CASE NotFound(r)
  <2>1. Code("404") \in Replies
    BY CodeFacts DEF Codes
  <2> QED
    BY <1>5, <2>1, DoneProper DEF NotFound
<1> QED
  BY <1>1, <1>2, <1>3, <1>4, <1>5

LEMMA TargetFacts ==
  ASSUME Types, NEW r \in Request, NEW source, NEW t \in Targets(r, source)
  PROVE  t \in Hashes /\ (req[r].want # None => t = req[r].want)
BY DEF Types, Records, Hashes, Targets

LEMMA TailFacts ==
  ASSUME NEW s \in Sources, s # <<>>
  PROVE  Tail(s) \in Sources
BY DEF Sources

LEMMA TakenRecord ==
  ASSUME NEW x \in Records, NEW pc \in Steps, NEW via \in Vias, NEW t \in Hashes,
         NEW h \in Hash, NEW what \in Replies, x.sources # <<>>
  PROVE  Taken(x, pc, via, t, h, what) \in Records
<1>1. Tail(x.sources) \in Sources /\ x.sent \o what \in Replies
  BY TailFacts, FieldFacts DEF Records
<1>2. h \in Hashes
  BY FieldFacts
<1> QED
  BY <1>1, <1>2 DEF Taken, Records

LEMMA InMemoryProper ==
  ASSUME Types, NEW r \in Request, NEW source \in {"swarm", "peer"},
         NEW T \in SUBSET Targets(r, source), InMemory(r, source, T)
  PROVE  Proper(r)
<1>1. PICK h \in Hash, t \in T :
        /\ t = h \/ (t = None /\ source = "peer")
        /\ req' = [req EXCEPT ![r] =
             Taken(req[r], "save", source, t, h, Code("200") \o Full(h))]
  BY DEF InMemory
<1>2. /\ req[r] \in Records /\ Form(req[r])
      /\ req[r].pc = "pick" /\ req[r].sources # <<>>
  BY DEF Types, InMemory
<1>3. /\ t \in Hashes /\ (req[r].want # None => t = req[r].want)
      /\ source \in Vias /\ "save" \in Steps
  BY TargetFacts, FieldFacts DEF Vias, Steps
<1>4. Code("200") \o Full(h) \in Replies
  <2>1. Full(h) \in Replies
    BY FullFacts, SeqMonotonic DEF Contents, Replies
  <2>2. Code("200") \in Replies
    BY CodeFacts DEF Codes
  <2> QED
    BY <2>1, <2>2, FieldFacts
<1> DEFINE x == Taken(req[r], "save", source, t, h, Code("200") \o Full(h))
<1>5. x \in Records
  BY <1>2, <1>3, <1>4, TakenRecord
<1>6. Form(x)
  BY <1>1, <1>2, <1>3 DEF Form, Records, Taken
<1> QED
  BY <1>1, <1>5, <1>6 DEF Proper, Becomes

LEMMA MissProper ==
  ASSUME Types, NEW r \in Request, Miss(r)
  PROVE  Proper(r)
<1>1. req[r] \in Records /\ Form(req[r]) /\ req[r].pc = "miss" /\ "pick" \in Steps
  BY DEF Types, Miss, Steps
<1>2. CASE Done(r, Code("404"))
  <2>1. Code("404") \in Replies
    BY CodeFacts DEF Codes
  <2> QED
    BY <1>1, <1>2, <2>1, DoneProper
<1>3. CASE req[r].kind # "remote" /\ ~Done(r, Code("404"))
  <2>1. PICK k \in 0 .. MaxPeers, swarm \in BOOLEAN :
          req' = [req EXCEPT ![r].pc = "pick", ![r].sources =
                  (IF swarm THEN <<"swarm">> ELSE <<>>)
                  \o [i \in 1 .. k |-> "peer"]
                  \o (IF req[r].kind = "mirror" THEN <<"mirror">> ELSE <<>>)]
    BY <1>3 DEF Miss
  <2>2. PICK s : s = (IF swarm THEN <<"swarm">> ELSE <<>>)
                  \o [i \in 1 .. k |-> "peer"]
                  \o (IF req[r].kind = "mirror" THEN <<"mirror">> ELSE <<>>)
    OBVIOUS
  <2>3. s \in Sources
    <3>1. /\ (IF swarm THEN <<"swarm">> ELSE <<>>) \in Sources
          /\ (IF req[r].kind = "mirror" THEN <<"mirror">> ELSE <<>>) \in Sources
      <4>1. <<"swarm">> \in Sources /\ <<"mirror">> \in Sources /\ <<>> \in Sources
        BY DEF Sources
      <4> QED
        BY <4>1
    <3>2. [i \in 1 .. k |-> "peer"] \in Sources
      BY ConstantsAssumption DEF Sources
    <3>3. \A a, b \in Sources : a \o b \in Sources
      BY DEF Sources
    <3> QED
      BY <2>2, <3>1, <3>2, <3>3
  <2>4. PICK x : x = [req[r] EXCEPT !.pc = "pick", !.sources = s]
    OBVIOUS
  <2>5. x \in Records
    BY <1>1, <2>3, <2>4 DEF Records
  <2>6. Form(x)
    BY <1>1, <1>3, <2>4 DEF Form, Records
  <2>7. req' = [req EXCEPT ![r] = x]
    BY <1>1, <2>1, <2>2, <2>4
  <2> QED
    BY <2>5, <2>6, <2>7 DEF Proper, Becomes
<1> QED
  BY <1>2, <1>3 DEF Miss

LEMMA FailsProper ==
  ASSUME Types, NEW r \in Request, SwarmFails(r) \/ SourceFails(r)
  PROVE  Proper(r)
<1>1. /\ req[r] \in Records /\ Form(req[r])
      /\ req[r].pc = "pick" /\ req[r].sources # <<>> /\ "clean" \in Steps
  BY DEF Types, SwarmFails, SourceFails, Steps
<1>2. Tail(req[r].sources) \in Sources
  BY <1>1, TailFacts DEF Records
<1>3. CASE SwarmFails(r)
  <2>1. PICK x : x = [req[r] EXCEPT !.sources = Tail(req[r].sources)]
    OBVIOUS
  <2>2. x \in Records /\ Form(x)
    BY <1>1, <1>2, <2>1 DEF Records, Form
  <2>3. req' = [req EXCEPT ![r] = x]
    BY <1>3, <2>1 DEF SwarmFails
  <2> QED
    BY <2>2, <2>3 DEF Proper, Becomes
<1>4. CASE SourceFails(r)
  <2>1. PICK x : x = [req[r] EXCEPT !.sources = Tail(req[r].sources),
                                    !.pc = "clean", !.next = "pick"]
    OBVIOUS
  <2>2. x \in Records
    BY <1>1, <1>2, <2>1, FieldFacts DEF Records
  <2>3. Form(x)
    BY <1>1, <2>1 DEF Records, Form
  <2>4. req' = [req EXCEPT ![r] = x]
    BY <1>4, <2>1 DEF SourceFails
  <2> QED
    BY <2>2, <2>3, <2>4 DEF Proper, Becomes
<1> QED
  BY <1>3, <1>4

LEMMA FetchProper ==
  ASSUME Types, NEW r \in Request, Swarm(r) \/ Buffered(r)
  PROVE  Proper(r)
<1>1. CASE Swarm(r)
  <2>1. \E T \in SUBSET Targets(r, "swarm") : InMemory(r, "swarm", T)
    BY <1>1 DEF Swarm
  <2> QED
    BY <2>1, InMemoryProper
<1>2. CASE Buffered(r)
  BY <1>2, InMemoryProper DEF Buffered
<1> QED
  BY <1>1, <1>2

LEMMA SaveProper ==
  ASSUME Types, NEW r \in Request, Save(r)
  PROVE  Proper(r)
<1>1. PICK i \in Inode : req' = [req EXCEPT ![r].pc = "write", ![r].fd = i]
  BY DEF Save
<1>2. /\ req[r] \in Records /\ Form(req[r])
      /\ req[r].pc = "save" /\ "write" \in Steps /\ i \in Inodes /\ i # None
  BY FieldFacts, ConstantsAssumption DEF Types, Save, Steps
<1>3. PICK x : x = [req[r] EXCEPT !.pc = "write", !.fd = i]
  OBVIOUS
<1>4. x \in Records
  BY <1>2, <1>3 DEF Records
<1>5. Form(x)
  BY <1>2, <1>3 DEF Records, Form
<1>6. req' = [req EXCEPT ![r] = x]
  BY <1>1, <1>3
<1> QED
  BY <1>4, <1>5, <1>6 DEF Proper, Becomes

LEMMA StreamProper ==
  ASSUME Types, NEW r \in Request, Stream(r)
  PROVE  Proper(r)
<1>1. PICK i \in Inode, h \in Hash, t \in Targets(r, Head(req[r].sources)) :
        req' = [req EXCEPT ![r] =
          [Taken(req[r], "write", "stream", t, h, Code("200")) EXCEPT !.fd = i]]
  BY DEF Stream
<1>2. /\ req[r] \in Records /\ Form(req[r]) /\ req[r].pc = "pick" /\ req[r].sources # <<>>
      /\ "write" \in Steps /\ i \in Inodes /\ i # None /\ "stream" \in Vias
  BY FieldFacts, ConstantsAssumption DEF Types, Stream, Steps
<1>3. t \in Hashes /\ (req[r].want # None => t = req[r].want)
  BY TargetFacts
<1>4. Code("200") \in Replies
  BY CodeFacts DEF Codes
<1>5. PICK y : y = Taken(req[r], "write", "stream", t, h, Code("200"))
  OBVIOUS
<1>6. y \in Records
  BY <1>2, <1>3, <1>4, <1>5, TakenRecord
<1>7. PICK x : x = [y EXCEPT !.fd = i]
  OBVIOUS
<1>8. x \in Records
  BY <1>2, <1>6, <1>7 DEF Records
<1>9. Form(x)
  <2>1. /\ y.pc = "write" /\ y.via = "stream" /\ y.target = t /\ y.src = h
        /\ y.name = req[r].name /\ y.kind = req[r].kind /\ y.want = req[r].want
        /\ y.range = req[r].range
    BY <1>2, <1>5 DEF Taken, Records
  <2>2. req[r].name \in Name /\ req[r].kind # "remote" /\ req[r].range = Whole
    BY <1>2 DEF Form
  <2> QED
    BY <1>2, <1>3, <1>6, <1>7, <2>1, <2>2 DEF Form, Records
<1>10. req' = [req EXCEPT ![r] = x]
  BY <1>1, <1>5, <1>7
<1> QED
  BY <1>8, <1>9, <1>10 DEF Proper, Becomes

LEMMA WriteProper ==
  ASSUME Types, NEW r \in Request, Write(r)
  PROVE  Proper(r)
<1>1. /\ req[r] \in Records /\ Form(req[r])
      /\ req[r].pc = "write" /\ req[r].pos < Chunks
  BY DEF Types, Write
<1>2. req[r].pos + 1 \in Places /\ req[r].pos + 1 \in 1 .. Chunks
  BY <1>1, ConstantsAssumption DEF Records, Places
<1>3. PICK s : s = IF req[r].via = "stream" THEN Append(req[r].sent, <<req[r].src, req[r].pos + 1>>)
                   ELSE req[r].sent
  OBVIOUS
<1>4. s \in Replies
  <2>1. req[r].sent \in Replies /\ req[r].src \in Hash
    BY <1>1 DEF Records, Form
  <2> QED
    BY <1>2, <1>3, <2>1 DEF Replies, Chunk
<1>5. PICK x : x = [req[r] EXCEPT !.pos = req[r].pos + 1, !.sent = s]
  OBVIOUS
<1>6. x \in Records /\ Form(x)
  BY <1>1, <1>2, <1>4, <1>5 DEF Records, Form
<1>7. req' = [req EXCEPT ![r] = x]
  BY <1>3, <1>5 DEF Write
<1> QED
  BY <1>6, <1>7 DEF Proper, Becomes

LEMMA EndProper ==
  ASSUME Types, NEW r \in Request,
         EndBody(r) \/ SourceDies(r) \/ ClientGone(r) \/ WriteFails(r)
  PROVE  Proper(r)
<1>0. /\ req[r] \in Records /\ Form(req[r]) /\ <<>> \in Replies
      /\ "done" \in Nexts /\ "pick" \in Nexts
  BY FieldFacts DEF Types
<1>1. CASE EndBody(r)
  <2>1. req[r].pc = "write" /\ req[r].pos \in Places
    BY <1>0, <1>1 DEF EndBody, BodyEnds, Records
  <2>2. CASE Closed(r, "clean", "done")
    BY <1>0, <2>1, <2>2, ClosedProper
  <2>3. CASE Closed(r, "rename", "done") /\ req[r].via # "stream"
    BY <1>0, <2>1, <2>3, ClosedProper
  <2>4. CASE Closed(r, "rename", "done") /\ req[r].target = None
    BY <1>0, <2>1, <2>4, ClosedProper
  <2>5. CASE /\ Closed(r, "rename", "done")
             /\ req[r].target = req[r].src /\ ~(req[r].pos < Chunks)
    <3>1. req[r].pos = Chunks
      BY <2>1, <2>5, ConstantsAssumption DEF Places
    <3> QED
      BY <1>0, <2>1, <2>5, <3>1, ClosedProper
  <2> QED
    BY <1>1, <2>2, <2>3, <2>4, <2>5 DEF EndBody
<1>2. CASE SourceDies(r)
  BY <1>0, <1>2, ClosedProper DEF SourceDies
<1>3. CASE ClientGone(r)
  <2>1. CASE req[r].pc \in {"save", "write"} /\ Closed(r, "clean", "done")
    BY <1>0, <2>1, ClosedProper
  <2>2. CASE req[r].pc = "save" /\ Done(r, <<>>)
    BY <1>0, <2>2, DoneProper
  <2> QED
    BY <1>3, <2>1, <2>2 DEF ClientGone
<1>4. CASE WriteFails(r)
  <2>1. /\ req[r].pc \in {"save", "write"}
        /\ req[r].via \in {"stream", "peer", "swarm"}
    BY <1>0, <1>4 DEF WriteFails, Records, Vias
  <2>2. \/ \E next \in Nexts : Closed(r, "clean", next)
        \/ Closed(r, "rename", "done") /\ req[r].via # "stream"
    BY <1>0, <1>4, <2>1 DEF WriteFails
  <2> QED
    BY <1>0, <2>1, <2>2, ClosedProper
<1> QED
  BY <1>1, <1>2, <1>3, <1>4

LEMMA GoOnProper ==
  ASSUME Types, NEW r \in Request, GoOn(r), req[r].pc \in {"clean", "unlink"}
  PROVE  Proper(r)
<1>1. req[r] \in Records /\ Form(req[r]) /\ <<>> \in Replies /\ "pick" \in Steps
  BY FieldFacts DEF Types, Steps
<1>2. CASE Done(r, <<>>)
  BY <1>1, <1>2, DoneProper
<1>3. CASE Goto(r, "pick")
  <2>1. req[r].kind # "remote"
    BY <1>1 DEF Form
  <2>2. Form([req[r] EXCEPT !.pc = "pick"])
    BY <1>1, <2>1, FormGoto
  <2> QED
    BY <1>1, <1>3, <2>2, GotoProper
<1> QED
  BY <1>2, <1>3 DEF GoOn

LEMMA LastProper ==
  ASSUME Types, NEW r \in Request,
         Rename(r) \/ Register(r) \/ Clean(r) \/ Unlink(r) \/ Close(r)
  PROVE  Proper(r)
<1>0. /\ req[r] \in Records /\ Form(req[r]) /\ <<>> \in Replies
      /\ {"register", "unlink"} \subseteq Steps
  BY FieldFacts DEF Types, Steps
<1>1. CASE Rename(r)
  <2>1. /\ req[r].pc = "rename"
        /\ Goto(r, "register") \/ Done(r, <<>>) \/ Closed(r, "clean", "done")
    BY <1>1 DEF Rename
  <2>2. Form([req[r] EXCEPT !.pc = "register"])
    BY <1>0, <2>1, FormGoto
  <2> QED
    BY <1>0, <2>1, <2>2, FieldFacts, GotoProper, DoneProper, ClosedProper
<1>2. CASE Register(r)
  <2>1. req[r].pc = "register" /\ Done(r, <<>>)
    BY <1>2 DEF Register
  <2> QED
    BY <1>0, <2>1, DoneProper
<1>3. CASE Clean(r)
  <2>1. req[r].pc = "clean" /\ (Goto(r, "unlink") \/ GoOn(r))
    BY <1>3 DEF Clean
  <2>2. req[r].kind # "remote"
    BY <1>0, <2>1 DEF Form
  <2>3. Form([req[r] EXCEPT !.pc = "unlink"])
    BY <1>0, <2>1, <2>2, FormGoto
  <2> QED
    BY <1>0, <2>1, <2>3, GotoProper, GoOnProper
<1>4. CASE Unlink(r)
  <2>1. req[r].pc = "unlink" /\ (GoOn(r) \/ Done(r, <<>>))
    BY <1>4 DEF Unlink
  <2> QED
    BY <1>0, <2>1, GoOnProper, DoneProper
<1>5. CASE Close(r)
  BY <1>5, BlankRecord, FormBlank DEF Close, Proper, Becomes
<1> QED
  BY <1>1, <1>2, <1>3, <1>4, <1>5

LEMMA StepProper ==
  ASSUME Types, NEW r \in Request, Arrive(r) \/ Step(r) \/ Close(r)
  PROVE  Proper(r)
BY ArriveProper, LookupProper, MissProper, FailsProper, FetchProper, SaveProper,
   StreamProper, WriteProper, EndProper, LastProper DEF Step

-----------------------------------------------------------------------------
(* Files and the index. *)

State == /\ disk \in [Inode -> Contents]
         /\ tmp \in [Name -> Inodes] /\ final \in [Name -> Inodes]
         /\ index \subseteq Contents \X Name
         /\ stalled \subseteq Request /\ doubted \subseteq Name /\ littered \subseteq Name

LEMMA StepState ==
  ASSUME Types, NEW r \in Request, Arrive(r) \/ Step(r) \/ Close(r)
  PROVE  State'
<1>0. /\ State /\ req[r] \in Records /\ Form(req[r])
  BY DEF Types, State
<1>1. CASE UNCHANGED <<disk, tmp, final, index, noted>>
  BY <1>0, <1>1 DEF State
<1>2. CASE Lookup(r)
  <2>1. UNCHANGED <<disk, tmp, final, noted>> /\ req[r].name \in Name
    BY <1>0, <1>2 DEF Lookup, Form
  <2>2. final[req[r].name] # None => disk[final[req[r].name]] \in Contents
    BY <1>0, <2>1 DEF State, Inodes
  <2>3. index' \subseteq Contents \X Name
    BY <1>0, <1>2, <2>1, <2>2 DEF Lookup, State
  <2> QED
    BY <1>0, <2>1, <2>3 DEF State
<1>3. CASE UnlinkCorrupt(r) \/ ForgetCorrupt(r)
  <2>1. req[r].name \in Name
    BY <1>0, <1>3 DEF UnlinkCorrupt, ForgetCorrupt, Form
  <2> QED
    BY <1>0, <1>3, <2>1, FieldFacts DEF UnlinkCorrupt, ForgetCorrupt, State
<1>4. CASE Save(r) \/ Stream(r)
  <2>1. PICK i \in Inode : OpenTemp(req[r].name, i)
    BY <1>4 DEF Save, Stream
  <2>2. <<>> \in Contents
    BY DEF Contents
  <2> QED
    BY <1>0, <1>4, <2>1, <2>2, FieldFacts DEF Save, Stream, OpenTemp, State
<1>5. CASE Write(r)
  <2>1. req[r].pc = "write" /\ req[r].src \in Hash /\ req[r].pos + 1 \in 1 .. Chunks
        /\ req[r].fd \in Inode
    BY <1>0, <1>5, ConstantsAssumption DEF Write, Form, Records, Places, Inodes
  <2>2. Written(disk[req[r].fd], req[r].pos + 1, req[r].src) \in Contents
    BY <1>0, <2>1, WrittenType DEF State
  <2>3. disk' = [disk EXCEPT ![req[r].fd] = Written(disk[req[r].fd], req[r].pos + 1, req[r].src)]
    BY <1>5 DEF Write
  <2>4. UNCHANGED <<tmp, final, index, noted>>
    BY <1>5 DEF Write
  <2> QED
    BY <1>0, <2>2, <2>3, <2>4 DEF State
<1>6. CASE Rename(r)
  <2>1. req[r].name \in Name
    BY <1>0, <1>6 DEF Rename, Form
  <2> QED
    BY <1>0, <1>6, <2>1, FieldFacts DEF Rename, State
<1>7. CASE Register(r)
  <2>1. req[r].pc = "register"
    BY <1>7 DEF Register
  <2>2. /\ req[r].name \in Name /\ req[r].src \in Hash
        /\ (req[r].target # None => req[r].target \in Hash)
    BY <1>0, <2>1 DEF Form
  <2>3. PICK h : h = IF req[r].target # None THEN Full(req[r].target)
                     ELSE Begun(req[r].src, req[r].pos)
    OBVIOUS
  <2>4. h \in Contents
    <3>1. req[r].pos \in Places
      BY <1>0 DEF Records
    <3> QED
      BY <2>2, <2>3, <3>1, FullFacts, BegunFacts
  <2>5. /\ index' \subseteq index \cup {<<h, req[r].name>>}
        /\ UNCHANGED <<disk, tmp, noted>>
    BY <1>7, <2>3 DEF Register
  <2>6. final' \in [Name -> Inodes]
    BY <1>0, <1>7, FieldFacts DEF Register, State
  <2> QED
    BY <1>0, <2>2, <2>4, <2>5, <2>6 DEF State
<1>8. CASE Unlink(r)
  <2>1. req[r].name \in Name
    BY <1>0, <1>8 DEF Unlink, Form
  <2> QED
    BY <1>0, <1>8, <2>1, FieldFacts DEF Unlink, State
<1>9. \/ UNCHANGED <<disk, tmp, final, index, noted>>
      \/ Lookup(r) \/ UnlinkCorrupt(r) \/ ForgetCorrupt(r) \/ Save(r) \/ Stream(r)
      \/ Write(r) \/ Rename(r) \/ Register(r) \/ Unlink(r)
  BY Zenon DEF Step, Arrive, Close, Check, Serve, Miss, NotFound, SwarmFails, Swarm, InMemory,
     SourceFails, Buffered, EndBody, SourceDies, ClientGone, WriteFails, Clean
<1> QED
  BY <1>1, <1>2, <1>3, <1>4, <1>5, <1>6, <1>7, <1>8, <1>9

LEMMA TypesInit == Init => Types
<1> SUFFICES ASSUME Init PROVE Types
  OBVIOUS
<1>1. <<>> \in Contents
  BY DEF Contents
<1>2. req = [r \in Request |-> Blank]
  BY DEF Init
<1> QED
  BY <1>1, <1>2, FieldFacts, BlankRecord, FormBlank DEF Init, Types

LEMMA RestartTypes ==
  ASSUME Types, Restart
  PROVE  Types'
<1>1. /\ UNCHANGED <<disk, tmp, final, doubted>> /\ index' \subseteq index
      /\ req' = [r \in Request |-> Blank]
      /\ stalled' \subseteq Request /\ littered' \subseteq Name
  BY DEF Restart
<1> QED
  BY <1>1, BlankRecord, FormBlank DEF Types

\* A step of a request, of the whole server, or of a client that waits.
Same == UNCHANGED <<disk, tmp, final, index, req, doubted, littered>>

LEMMA NextSteps ==
  ASSUME [Next]_vars
  PROVE  \/ \E r \in Request : Arrive(r) \/ Step(r) \/ Close(r)
         \/ Restart
         \/ Same /\ (stalled \subseteq Request => stalled' \subseteq Request)
BY DEF Next, Stall, Resume, Same, vars

LEMMA TypesStep == Types /\ [Next]_vars => Types'
<1> SUFFICES ASSUME Types, [Next]_vars PROVE Types'
  OBVIOUS
<1>1. ASSUME NEW r \in Request, Arrive(r) \/ Step(r) \/ Close(r) PROVE Types'
  <2>1. PICK x : Becomes(r, x) /\ Form(x)
    BY <1>1, StepProper DEF Proper
  <2>2. /\ req' \in [Request -> Records] /\ req'[r] = x
        /\ \A q \in Request \ {r} : req'[q] = req[q]
    BY <2>1, Becoming DEF Types
  <2>3. \A q \in Request : Form(req'[q])
    BY <2>1, <2>2 DEF Types
  <2> QED
    BY <1>1, <2>2, <2>3, StepState DEF Types, State
<1>2. CASE Restart
  BY <1>2, RestartTypes
<1>3. CASE Same /\ stalled' \subseteq Request
  BY <1>3 DEF Same, Types
<1> QED
  BY <1>1, <1>2, <1>3, NextSteps DEF Types

LEMMA TypesAlways == Spec => []Types
BY TypesInit, TypesStep, PTL DEF Spec

-----------------------------------------------------------------------------
(* Theorems of every run. *)

\* The variables have their types; a request has a file open exactly while it
\* writes a body, whichever way the request ends.
THEOREM TypeCorrect == Spec => []TypeOK
<1>1. Types => TypeOK
  <2> SUFFICES ASSUME Types PROVE TypeOK
    OBVIOUS
  <2>1. \A r \in Request : req[r] \in Records /\ Form(req[r])
    BY DEF Types
  <2>2. \A e \in index : e[1] \in Seq((Hash \X (1 .. Chunks)) \cup {Hole}) /\ e[2] \in Name
    BY DEF Types, Contents, Chunk
  <2>3. ASSUME NEW r \in Request
        PROVE  /\ req[r].pc \in Steps /\ req[r].name \in Name \cup {None}
               /\ req[r].fd \in Inode \cup {None} /\ req[r].pos \in 0 .. Chunks
               /\ req[r].fd # None <=> req[r].pc = "write"
               /\ req[r].sources \in Seq({"swarm", "peer", "mirror"})
    BY <2>1, <2>3 DEF Records, Form, Names, Inodes, Places, Sources
  <2> QED
    BY <2>2, <2>3 DEF Types, TypeOK, Contents, Chunk, Inodes
<1> QED
  BY <1>1, TypesAlways, PTL

\* Whatever hashes the peers claim, and whatever other requests do: what goes
\* to the cache, or to the client out of memory, is what the plugin registered.
THEOREM TrustedSource == Spec => []TrustedHashWins
<1>1. Types => TrustedHashWins
  <2> SUFFICES ASSUME Types, NEW r \in Request,
                      req[r].pc \in {"save", "rename", "register"}, req[r].want # None
               PROVE  req[r].src = req[r].want /\ (req[r].pc = "save" \/ req[r].pos = Chunks)
    BY DEF TrustedHashWins
  <2>1. Form(req[r])
    BY DEF Types
  <2>2. req[r].target = req[r].want /\ req[r].target \in {None, req[r].src}
    BY <2>1 DEF Form
  <2> QED
    BY <2>1, <2>2 DEF Form
<1> QED
  BY <1>1, TypesAlways, PTL

-----------------------------------------------------------------------------
(* Downloads of one local request at a time per name, on a disk that has   *)
(* room: the temporary files.  Files may fail to be renamed or removed.    *)

Serial == Exclusive /\ "write" \notin Faults

Local(r) == req[r].kind # "remote"

\* Two local requests in progress have different names.
Alone ==
  \A q, r \in Request : q # r /\ Local(q) /\ Local(r) => req[q].name # req[r].name

\* A temporary file shares its inode with no other file.
Apart ==
  \A n, m \in Name : tmp[n] # None => tmp[n] # final[m] /\ (n # m => tmp[n] # tmp[m])

\* What a request has open is the temporary file of its name, and in it is what
\* the request has written.
Writing ==
  \A r \in Request : req[r].pc = "write" =>
    /\ req[r].fd = tmp[req[r].name]
    /\ disk[req[r].fd] = Begun(req[r].src, req[r].pos)

\* So it is in the temporary file that is about to be renamed.
Renaming ==
  \A r \in Request : req[r].pc = "rename" =>
    /\ tmp[req[r].name] # None
    /\ disk[tmp[req[r].name]] = Begun(req[r].src, req[r].pos)

Download == Alone /\ Apart /\ Writing /\ Renaming /\ PublishedIntact


\* A step leaves the other requests alone, and says who its own is.
Kept(r) ==
  /\ \A q \in Request \ {r} : req'[q] = req[q]
  /\ req'[r].name = req[r].name /\ req'[r].kind = req[r].kind

LEMMA NextPlace ==
  ASSUME Types, NEW r \in Request
  PROVE  /\ \A what : Done(r, what) => req'[r].pc = "done"
         /\ \A pc : Goto(r, pc) => req'[r].pc = pc
         /\ \A pc, next : Closed(r, pc, next) => req'[r].pc = pc
<1>0. req \in [Request -> Records] /\ req[r] \in Records
  BY DEF Types
<1>1. ASSUME NEW what, Done(r, what) PROVE req'[r].pc = "done"
  BY <1>0, <1>1 DEF Done, Ended, Blank
<1>2. ASSUME NEW pc, Goto(r, pc) PROVE req'[r].pc = pc
  BY <1>0, <1>2 DEF Goto, Records
<1>3. ASSUME NEW pc, NEW next, Closed(r, pc, next) PROVE req'[r].pc = pc
  BY <1>0, <1>3 DEF Closed, Shut, Records
<1> QED
  BY <1>1, <1>2, <1>3

LEMMA ArriveFacts ==
  ASSUME Types, NEW r \in Request, Arrive(r)
  PROVE  req'[r].pc = "lookup" /\ \A q \in Request \ {r} : req'[q] = req[q]
<1>1. PICK n \in Name, kind \in Kinds, h \in Hashes, range \in Asks :
        req' = [req EXCEPT ![r] = Asking(n, kind, h, range)]
  BY Zenon DEF Arrive, Kinds, Hashes, Asks
<1>2. Asking(n, kind, h, range).pc = "lookup"
  BY DEF Asking, Blank
<1>3. req \in [Request -> Records]
  BY DEF Types
<1> QED
  BY <1>1, <1>2, <1>3

LEMMA SameRequest ==
  ASSUME NEW x \in Records, NEW pc, NEW next, NEW via, NEW t, NEW h, NEW what
  PROVE  /\ Ended(x, what).name = x.name /\ Ended(x, what).kind = x.kind
         /\ Shut(x, pc, next).name = x.name /\ Shut(x, pc, next).kind = x.kind
         /\ Taken(x, pc, via, t, h, what).name = x.name
         /\ Taken(x, pc, via, t, h, what).kind = x.kind
<1>1. Ended(x, what).name = x.name /\ Ended(x, what).kind = x.kind
  BY DEF Ended, Blank
<1>2. Shut(x, pc, next).name = x.name /\ Shut(x, pc, next).kind = x.kind
  BY DEF Shut, Records
<1>3. /\ Taken(x, pc, via, t, h, what).name = x.name
      /\ Taken(x, pc, via, t, h, what).kind = x.kind
  BY DEF Taken, Records
<1> QED
  BY <1>1, <1>2, <1>3

LEMMA BecomesKept ==
  ASSUME Types, NEW r \in Request, NEW x, req' = [req EXCEPT ![r] = x],
         x.name = req[r].name, x.kind = req[r].kind
  PROVE  Kept(r)
BY DEF Types, Kept

LEMMA StepKept ==
  ASSUME Types, NEW r \in Request, Step(r)
  PROVE  Kept(r)
<1>0. req[r] \in Records /\ req \in [Request -> Records]
  BY DEF Types
<1>1. CASE Lookup(r) \/ Check(r) \/ UnlinkCorrupt(r) \/ ForgetCorrupt(r)
  <2>1. (\E pc : Goto(r, pc)) \/ Done(r, <<>>)
    BY <1>1 DEF Lookup, Check, UnlinkCorrupt, ForgetCorrupt
  <2>2. CASE \E pc : Goto(r, pc)
    BY <1>0, <2>2 DEF Goto, Kept, Records
  <2> QED
    BY <1>0, <2>1, <2>2, SameRequest, BecomesKept DEF Done
<1>2. CASE Serve(r) \/ Miss(r) \/ NotFound(r)
  <2>1. CASE \E what : Done(r, what)
    BY <1>0, <2>1, SameRequest, BecomesKept DEF Done
  <2>2. CASE Miss(r) /\ ~Done(r, Code("404"))
    <3>1. PICK s : req' = [req EXCEPT ![r].pc = "pick", ![r].sources = s]
      BY <2>2 DEF Miss
    <3>2. PICK x : x = [req[r] EXCEPT !.pc = "pick", !.sources = s]
      OBVIOUS
    <3>3. x.name = req[r].name /\ x.kind = req[r].kind /\ req' = [req EXCEPT ![r] = x]
      BY <1>0, <3>1, <3>2 DEF Records
    <3> QED
      BY <3>3, BecomesKept
  <2> QED
    BY <1>2, <2>1, <2>2 DEF Serve, NotFound
<1>3. CASE SwarmFails(r) \/ SourceFails(r) \/ Save(r) \/ Write(r)
  BY <1>0, <1>3 DEF SwarmFails, SourceFails, Save, Write, Kept, Records
<1>4. CASE Swarm(r) \/ Buffered(r)
  <2>1. PICK source, T : InMemory(r, source, T)
    BY <1>4 DEF Swarm, Buffered
  <2>2. PICK h \in Hash, t \in T :
          req' = [req EXCEPT ![r] =
             Taken(req[r], "save", source, t, h, Code("200") \o Full(h))]
    BY <2>1 DEF InMemory
  <2>3. PICK what : what = Code("200") \o Full(h)
    OBVIOUS
  <2>4. PICK x : x = Taken(req[r], "save", source, t, h, what)
    OBVIOUS
  <2>5. x.name = req[r].name /\ x.kind = req[r].kind
    BY <1>0, <2>4, SameRequest
  <2>6. req' = [req EXCEPT ![r] = x]
    BY <2>2, <2>3, <2>4
  <2> QED
    BY <2>5, <2>6, BecomesKept
<1>5. CASE Stream(r)
  <2>1. PICK t, h, i :
          req' = [req EXCEPT ![r] =
            [Taken(req[r], "write", "stream", t, h, Code("200")) EXCEPT !.fd = i]]
    BY <1>5 DEF Stream
  <2>2. PICK x : x = [Taken(req[r], "write", "stream", t, h, Code("200")) EXCEPT !.fd = i]
    OBVIOUS
  <2>3. x.name = req[r].name /\ x.kind = req[r].kind
    BY <1>0, <2>2 DEF Taken, Records
  <2> QED
    BY <2>1, <2>2, <2>3, BecomesKept
<1>6. CASE EndBody(r) \/ SourceDies(r) \/ ClientGone(r) \/ WriteFails(r)
  <2>1. (\E pc, next : Closed(r, pc, next)) \/ Done(r, <<>>)
    <3>1. CASE WriteFails(r)
      BY <1>0, <3>1 DEF WriteFails, Records, Vias
    <3> QED
      BY <1>6, <3>1 DEF EndBody, SourceDies, ClientGone
  <2> QED
    BY <1>0, <2>1, SameRequest, BecomesKept DEF Closed, Done
<1>7. CASE Rename(r) \/ Register(r) \/ Clean(r) \/ Unlink(r)
  <2>1. (\E pc : Goto(r, pc)) \/ Done(r, <<>>) \/ Closed(r, "clean", "done")
    BY <1>7 DEF Rename, Register, Clean, Unlink, GoOn
  <2>2. CASE \E pc : Goto(r, pc)
    BY <1>0, <2>2 DEF Goto, Kept, Records
  <2> QED
    BY <1>0, <2>1, <2>2, SameRequest, BecomesKept DEF Done, Closed
<1> QED
  BY <1>1, <1>2, <1>3, <1>4, <1>5, <1>6, <1>7 DEF Step

LEMMA AloneStep ==
  ASSUME Types, Exclusive, Alone, NEW r \in Request, Arrive(r) \/ Step(r) \/ Close(r)
  PROVE  Alone'
<1>1. CASE Arrive(r)
  <2>1. PICK n \in Name, kind \in Kinds, h \in Hashes, range \in Asks :
          MayAsk(n, kind, h, range) /\ req' = [req EXCEPT ![r] = Asking(n, kind, h, range)]
    BY <1>1, Zenon DEF Arrive, Kinds, Hashes, Asks
  <2>2. /\ \A q \in Request \ {r} : req'[q] = req[q]
        /\ req'[r].name = n /\ req'[r].kind = kind
    BY <2>1 DEF Types, Asking, Blank
  <2>3. kind # "remote" => \A q \in Request : req[q].name = n => req[q].kind = "remote"
    BY <2>1 DEF MayAsk
  <2> QED
    BY <2>2, <2>3 DEF Alone, Local
<1>2. CASE Step(r)
  BY <1>2, StepKept DEF Alone, Local, Kept
<1>3. CASE Close(r)
  BY <1>3 DEF Close, Alone, Local, Types, Blank
<1> QED
  BY <1>1, <1>2, <1>3

\* A step that opens, writes and renames nothing.
Calm(r) ==
  /\ UNCHANGED <<disk, tmp>> /\ \A n \in Name : final'[n] \in {final[n], None}
  /\ req'[r].pc \notin {"write", "rename"}
  /\ \A q \in Request \ {r} : req'[q] = req[q]

Files == Apart /\ Writing /\ Renaming /\ PublishedIntact

LEMMA CalmFiles ==
  ASSUME Types, Files, NEW r \in Request, Calm(r)
  PROVE  Files'
<1>0. \A q \in Request : req[q].pc \in {"write", "rename"} => req[q].name \in Name
  BY DEF Types, Form
<1>1. Apart'
  BY DEF Files, Apart, Calm
<1>2. Writing' /\ Renaming'
  BY <1>0 DEF Files, Writing, Renaming, Calm
<1>3. PublishedIntact'
  BY DEF Files, PublishedIntact, Calm
<1> QED
  BY <1>1, <1>2, <1>3 DEF Files

\* The inode that is opened is that of the temporary file, or nobody's.
LEMMA TempFacts ==
  ASSUME Types, Apart, NEW n \in Name, NEW i \in TempInodes(n)
  PROVE  /\ i # None
         /\ \A m \in Name : i # final[m] /\ (m # n => i # tmp[m])
BY ConstantsAssumption DEF Types, Apart, TempInodes, FreeInodes, Inodes

\* What stands under the names of packages stays as it is.
Still ==
  /\ UNCHANGED final
  /\ \A n \in Name : final[n] # None => disk'[final[n]] = disk[final[n]]

LEMMA OpenFiles ==
  ASSUME Types, Alone, Files, NEW r \in Request, Save(r) \/ Stream(r)
  PROVE  Files' /\ Still
<1>0. /\ req[r] \in Records /\ Form(req[r]) /\ req[r].name \in Name /\ Local(r)
      /\ req[r].pos = 0
  BY DEF Types, Form, Save, Stream, Local
<1>1. /\ UNCHANGED final /\ req'[r].name = req[r].name
      /\ \A q \in Request \ {r} : req'[q] = req[q]
  BY StepKept DEF Save, Stream, Step, Kept
<1>2. PICK i \in Inode : /\ OpenTemp(req[r].name, i)
                         /\ req'[r].pc = "write" /\ req'[r].fd = i /\ req'[r].pos = 0
  <2>1. CASE Save(r)
    <3>1. PICK i \in Inode :
            /\ OpenTemp(req[r].name, i)
            /\ req' = [req EXCEPT ![r].pc = "write", ![r].fd = i]
      BY <2>1 DEF Save
    <3>2. PICK x : x = [req[r] EXCEPT !.pc = "write", !.fd = i]
      OBVIOUS
    <3>3. x.pc = "write" /\ x.fd = i /\ x.pos = 0
      BY <1>0, <3>2 DEF Records
    <3>4. req'[r] = x
      BY <3>1, <3>2 DEF Types
    <3> QED
      BY <3>1, <3>3, <3>4
  <2>2. CASE Stream(r)
    <3>1. PICK i \in Inode, h \in Hash, t \in Targets(r, Head(req[r].sources)) :
            /\ OpenTemp(req[r].name, i)
            /\ req' = [req EXCEPT ![r] =
                 [Taken(req[r], "write", "stream", t, h, Code("200")) EXCEPT !.fd = i]]
      BY <2>2 DEF Stream
    <3>2. PICK x : x = [Taken(req[r], "write", "stream", t, h, Code("200")) EXCEPT !.fd = i]
      OBVIOUS
    <3>3. x.pc = "write" /\ x.fd = i /\ x.pos = 0
      BY <1>0, <3>2 DEF Taken, Records
    <3>4. req'[r] = x
      BY <3>1, <3>2 DEF Types
    <3> QED
      BY <3>1, <3>3, <3>4
  <2> QED
    BY <2>1, <2>2
<1>3. i \in TempInodes(req[r].name)
  BY <1>2 DEF OpenTemp
<1>4. /\ i # None /\ \A m \in Name : i # final[m] /\ (m # req[r].name => i # tmp[m])
  BY <1>0, <1>3, TempFacts DEF Files
<1>5. /\ tmp'[req[r].name] = i /\ \A m \in Name : m # req[r].name => tmp'[m] = tmp[m]
      /\ disk'[i] = <<>> /\ \A j \in Inode : j # i => disk'[j] = disk[j]
  BY <1>0, <1>2 DEF OpenTemp, Types
<1>6. Apart'
  BY <1>0, <1>1, <1>4, <1>5 DEF Files, Apart
<1>7. \A q \in Request \ {r} : req[q].pc \in {"write", "rename"} =>
        req[q].name \in Name /\ req[q].name # req[r].name
  BY <1>0 DEF Types, Form, Alone, Local
<1>8. Writing'
  <2>1. Begun(req'[r].src, 0) = <<>>
    <3>1. PICK h : h = req'[r].src
      OBVIOUS
    <3>2. Begun(h, 0) = <<>>
      BY DEF Begun
    <3> QED
      BY <3>1, <3>2
  <2>2. ASSUME NEW q \in Request, req'[q].pc = "write"
        PROVE  /\ req'[q].fd = tmp'[req'[q].name]
               /\ disk'[req'[q].fd] = Begun(req'[q].src, req'[q].pos)
    <3>1. CASE q = r
      BY <1>1, <1>2, <1>5, <2>1, <3>1
    <3>2. CASE q # r
      <4>1. req'[q] = req[q] /\ req[q].pc = "write" /\ req[q].fd \in Inode
        BY <1>1, <2>2, <3>2 DEF Types, Form, Records, Inodes
      <4>2. req[q].fd = tmp[req[q].name] /\ req[q].fd # i
        BY <1>4, <1>7, <3>2, <4>1 DEF Files, Writing
      <4> QED
        BY <1>5, <1>7, <3>2, <4>1, <4>2 DEF Files, Writing
    <3> QED
      BY <3>1, <3>2
  <2> QED
    BY <2>2 DEF Writing
<1>9. Renaming'
  <2> SUFFICES ASSUME NEW q \in Request, req'[q].pc = "rename"
               PROVE  /\ tmp'[req'[q].name] # None
                      /\ disk'[tmp'[req'[q].name]] = Begun(req'[q].src, req'[q].pos)
    BY DEF Renaming
  <2>1. q # r /\ req'[q] = req[q]
    BY <1>1, <1>2
  <2>2. tmp[req[q].name] \in Inode /\ tmp[req[q].name] # i
    BY <1>4, <1>7, <2>1 DEF Files, Renaming, Types, Inodes
  <2> QED
    BY <1>5, <1>7, <2>1, <2>2 DEF Files, Renaming
<1>10. PublishedIntact' /\ Still
  <2>1. \A n \in Name : final[n] # None => disk'[final[n]] = disk[final[n]]
    BY <1>4, <1>5 DEF Types, Inodes
  <2> QED
    BY <1>1, <2>1 DEF Files, PublishedIntact, Still
<1> QED
  BY <1>6, <1>8, <1>9, <1>10 DEF Files

LEMMA WrittenNext ==
  ASSUME NEW p \in Nat, NEW h, NEW file, file = Begun(h, p)
  PROVE  Written(file, p + 1, h) = Begun(h, p + 1)
<1>1. Len(file) = p /\ \A i \in 1 .. p : file[i] = <<h, i>>
  BY DEF Begun
<1>2. Greatest(p + 1, Len(file)) = p + 1
  BY <1>1 DEF Greatest
<1>3. Written(file, p + 1, h) =
        [i \in 1 .. p + 1 |->
           IF i = p + 1 THEN <<h, p + 1>> ELSE IF i <= Len(file) THEN file[i] ELSE Hole]
  BY <1>2 DEF Written
<1>4. \A i \in 1 .. p + 1 :
        (IF i = p + 1 THEN <<h, p + 1>> ELSE IF i <= Len(file) THEN file[i] ELSE Hole) = <<h, i>>
  BY <1>1
<1> QED
  BY <1>3, <1>4 DEF Begun

LEMMA WriteFiles ==
  ASSUME Types, Alone, Files, NEW r \in Request, Write(r)
  PROVE  Files' /\ Still
<1>0. /\ req[r] \in Records /\ Form(req[r]) /\ req[r].name \in Name /\ Local(r)
      /\ req[r].pc = "write" /\ req[r].pos \in Nat
  <2>1. req[r] \in Records /\ Form(req[r]) /\ req[r].pc = "write"
    BY DEF Types, Write
  <2>2. req[r].pos \in Nat
    BY <2>1, ConstantsAssumption DEF Records, Places
  <2> QED
    BY <2>1, <2>2 DEF Form, Local
<1>1. PICK i : i = req[r].fd
  OBVIOUS
<1>2. i \in Inode /\ i = tmp[req[r].name] /\ i # None
  BY <1>0, <1>1 DEF Files, Writing, Form, Records, Inodes
<1>3. disk[i] = Begun(req[r].src, req[r].pos)
  BY <1>0, <1>1 DEF Files, Writing
<1>4. disk' = [disk EXCEPT ![i] = Written(disk[i], req[r].pos + 1, req[r].src)]
  BY <1>1 DEF Write
<1>5. /\ disk'[i] = Begun(req[r].src, req[r].pos + 1)
      /\ \A j \in Inode : j # i => disk'[j] = disk[j]
  <2>1. Written(disk[i], req[r].pos + 1, req[r].src) = Begun(req[r].src, req[r].pos + 1)
    BY <1>0, <1>3, WrittenNext
  <2>2. disk \in [Inode -> Contents]
    BY DEF Types
  <2> QED
    BY <1>2, <1>4, <2>1, <2>2
<1>6. /\ req'[r].pc = "write" /\ req'[r].fd = i /\ req'[r].pos = req[r].pos + 1
      /\ req'[r].src = req[r].src /\ req'[r].name = req[r].name
      /\ \A q \in Request \ {r} : req'[q] = req[q]
      /\ UNCHANGED <<tmp, final>>
  <2>1. PICK s : req' = [req EXCEPT ![r].pos = @ + 1, ![r].sent = s]
    BY DEF Write
  <2> QED
    BY <1>0, <1>1, <2>1 DEF Types, Records, Write
<1>7. \A m \in Name : i # final[m] /\ (m # req[r].name => i # tmp[m])
  BY <1>0, <1>2 DEF Files, Apart
<1>8. \A q \in Request \ {r} : req[q].pc \in {"write", "rename"} =>
        req[q].name \in Name /\ req[q].name # req[r].name
  BY <1>0 DEF Types, Form, Alone, Local
<1>9. Apart'
  BY <1>6 DEF Files, Apart
<1>10. Writing'
  <2> SUFFICES ASSUME NEW q \in Request, req'[q].pc = "write"
               PROVE  /\ req'[q].fd = tmp'[req'[q].name]
                      /\ disk'[req'[q].fd] = Begun(req'[q].src, req'[q].pos)
    BY DEF Writing
  <2>1. CASE q = r
    BY <1>2, <1>5, <1>6, <2>1
  <2>2. CASE q # r
    <3>1. req'[q] = req[q] /\ req[q].fd \in Inode /\ req[q].fd = tmp[req[q].name]
      BY <1>6, <2>2 DEF Types, Form, Records, Inodes, Files, Writing
    <3>2. req[q].fd # i
      BY <1>6, <1>7, <1>8, <2>2, <3>1
    <3> QED
      BY <1>5, <1>6, <2>2, <3>1, <3>2 DEF Files, Writing
  <2> QED
    BY <2>1, <2>2
<1>11. Renaming'
  <2> SUFFICES ASSUME NEW q \in Request, req'[q].pc = "rename"
               PROVE  /\ tmp'[req'[q].name] # None
                      /\ disk'[tmp'[req'[q].name]] = Begun(req'[q].src, req'[q].pos)
    BY DEF Renaming
  <2>1. q # r /\ req'[q] = req[q]
    BY <1>6
  <2>2. tmp[req[q].name] \in Inode /\ tmp[req[q].name] # i
    BY <1>7, <1>8, <2>1 DEF Files, Renaming, Types, Inodes
  <2> QED
    BY <1>5, <1>6, <2>1, <2>2 DEF Files, Renaming
<1>12. PublishedIntact' /\ Still
  <2>1. \A n \in Name : final[n] # None => disk'[final[n]] = disk[final[n]]
    BY <1>5, <1>7 DEF Types, Inodes
  <2> QED
    BY <1>6, <2>1 DEF Files, PublishedIntact, Still
<1> QED
  BY <1>9, <1>10, <1>11, <1>12 DEF Files

LEMMA EndFiles ==
  ASSUME Types, Files, NEW r \in Request, EndBody(r)
  PROVE  Files'
<1>0. /\ req[r] \in Records /\ Form(req[r])
      /\ req[r].pc = "write" /\ (req[r].pos = Chunks \/ req[r].via = "stream")
      /\ UNCHANGED <<disk, tmp, final>>
  BY DEF Types, EndBody, BodyEnds
<1>1. \A q \in Request \ {r} : req'[q] = req[q]
  BY StepKept DEF Step, Kept
<1>2. CASE Closed(r, "clean", "done")
  <2>1. req'[r].pc = "clean"
    BY <1>2, NextPlace
  <2> QED
    BY <1>0, <1>1, <2>1, CalmFiles DEF Calm
<1>3. CASE Closed(r, "rename", "done")
  <2>1. req'[r].pc = "rename" /\ req'[r].src = req[r].src /\ req'[r].name = req[r].name
        /\ req'[r].pos = req[r].pos
    BY <1>0, <1>3 DEF Closed, Shut, Records, Types
  <2>2. /\ tmp[req[r].name] # None
        /\ disk[tmp[req[r].name]] = Begun(req[r].src, req[r].pos)
    BY <1>0 DEF Files, Writing, Form
  <2>3. Renaming'
    BY <1>0, <1>1, <2>1, <2>2 DEF Files, Renaming
  <2>4. Writing'
    BY <1>0, <1>1, <2>1 DEF Files, Writing
  <2> QED
    BY <1>0, <2>3, <2>4 DEF Files, Apart, PublishedIntact
<1> QED
  BY <1>2, <1>3 DEF EndBody

\* A rename and an unlink that do not fail.
Moves(r) == Rename(r) /\ req'[r].pc = "register"
Removes(r) == Unlink(r) /\ tmp' = [tmp EXCEPT ![req[r].name] = None]

LEMMA RenamePlaces ==
  ASSUME Types, NEW r \in Request, Rename(r)
  PROVE  \/ /\ Goto(r, "register") /\ req'[r].pc = "register"
            /\ tmp[req[r].name] # None
            /\ final' = [final EXCEPT ![req[r].name] = tmp[req[r].name]]
            /\ tmp' = [tmp EXCEPT ![req[r].name] = None]
         \/ req'[r].pc \in {"clean", "done"} /\ UNCHANGED <<tmp, final>>
BY NextPlace DEF Rename

LEMMA RenameFiles ==
  ASSUME Types, Alone, Files, NEW r \in Request, Moves(r)
  PROVE  Files' /\ final'[req[r].name] = tmp[req[r].name]
         /\ req'[r] = [req[r] EXCEPT !.pc = "register"]
<1>0. /\ req[r] \in Records /\ Form(req[r]) /\ req[r].pc = "rename"
      /\ req[r].name \in Name /\ req[r].src \in Hash /\ Local(r)
  BY DEF Types, Moves, Rename, Form, Local
<1>1. /\ tmp[req[r].name] # None
      /\ disk[tmp[req[r].name]] = Begun(req[r].src, req[r].pos)
      /\ req[r].pos \in 0 .. Chunks
  BY <1>0 DEF Files, Renaming, Records, Places
<1>2. /\ final' = [final EXCEPT ![req[r].name] = tmp[req[r].name]]
      /\ tmp' = [tmp EXCEPT ![req[r].name] = None]
      /\ UNCHANGED disk /\ Goto(r, "register")
  BY RenamePlaces DEF Moves, Rename
<1>3. /\ req'[r] = [req[r] EXCEPT !.pc = "register"]
      /\ \A q \in Request \ {r} : req'[q] = req[q]
  BY <1>2 DEF Goto, Types
<1>4. /\ final'[req[r].name] = tmp[req[r].name] /\ tmp'[req[r].name] = None
      /\ \A n \in Name : n # req[r].name => final'[n] = final[n] /\ tmp'[n] = tmp[n]
  BY <1>0, <1>2 DEF Types
<1>5. Apart'
  BY <1>0, <1>1, <1>4 DEF Files, Apart
<1>6. \A q \in Request \ {r} : req[q].pc \in {"write", "rename"} =>
        req[q].name \in Name /\ req[q].name # req[r].name
  BY <1>0 DEF Types, Form, Alone, Local
<1>7. req'[r].pc = "register"
  BY <1>0, <1>3 DEF Records
<1>8. Writing' /\ Renaming'
  <2> SUFFICES ASSUME NEW q \in Request, req'[q].pc \in {"write", "rename"}
               PROVE  q # r /\ disk' = disk /\ req'[q] = req[q]
                      /\ tmp'[req[q].name] = tmp[req[q].name]
    BY DEF Files, Writing, Renaming
  <2>1. q # r
    BY <1>7
  <2> QED
    BY <1>2, <1>3, <1>4, <1>6, <2>1
<1>9. PublishedIntact'
  BY <1>0, <1>1, <1>2, <1>4 DEF Files, PublishedIntact
<1> QED
  BY <1>3, <1>4, <1>5, <1>8, <1>9 DEF Files

LEMMA UnlinkFiles ==
  ASSUME Types, Alone, Files, NEW r \in Request, Removes(r)
  PROVE  Files'
<1>0. /\ req[r] \in Records /\ Form(req[r]) /\ req[r].pc = "unlink"
      /\ req[r].name \in Name /\ Local(r)
      /\ tmp' = [tmp EXCEPT ![req[r].name] = None] /\ UNCHANGED <<disk, final>>
  BY DEF Types, Removes, Unlink, Form, Local
<1>1. \A q \in Request \ {r} : req'[q] = req[q]
  BY StepKept DEF Removes, Step, Kept
<1>2. req'[r].pc \in {"done", "pick"}
  BY NextPlace DEF Removes, Unlink, GoOn
<1>3. /\ tmp'[req[r].name] = None
      /\ \A n \in Name : n # req[r].name => tmp'[n] = tmp[n]
  BY <1>0 DEF Types
<1>4. \A q \in Request \ {r} : req[q].pc \in {"write", "rename"} =>
        req[q].name \in Name /\ req[q].name # req[r].name
  BY <1>0 DEF Types, Form, Alone, Local
<1>5. Apart'
  BY <1>0, <1>3 DEF Files, Apart
<1>6. Writing' /\ Renaming'
  BY <1>0, <1>1, <1>2, <1>3, <1>4 DEF Files, Writing, Renaming
<1> QED
  BY <1>0, <1>5, <1>6 DEF Files, PublishedIntact

LEMMA CalmSteps ==
  ASSUME Types, Serial, NEW r \in Request, Arrive(r) \/ Step(r) \/ Close(r)
  PROVE  Calm(r) \/ Save(r) \/ Stream(r) \/ Write(r) \/ EndBody(r) \/ Moves(r) \/ Removes(r)
<1>0. req[r] \in Records /\ req \in [Request -> Records] /\ final \in [Name -> Inodes]
  BY DEF Types
<1>1. CASE Arrive(r) \/ Close(r)
  <2>1. CASE Arrive(r)
    BY <2>1, ArriveFacts DEF Arrive, Calm
  <2>2. CASE Close(r)
    BY <1>0, <2>2 DEF Close, Calm, Blank
  <2> QED
    BY <1>1, <2>1, <2>2
<1>2. CASE Step(r)
  <2>0. \A q \in Request \ {r} : req'[q] = req[q]
    BY <1>2, StepKept DEF Kept
  <2>1. CASE Lookup(r) \/ Check(r) \/ UnlinkCorrupt(r) \/ ForgetCorrupt(r)
    <3>1. req'[r].pc \in {"check", "drop", "forget", "serve", "miss", "done"}
      BY <2>1, NextPlace DEF Lookup, Check, UnlinkCorrupt, ForgetCorrupt
    <3>2. UNCHANGED <<disk, tmp>> /\ \A n \in Name : final'[n] \in {final[n], None}
      BY <1>0, <2>1 DEF Lookup, Check, UnlinkCorrupt, ForgetCorrupt
    <3> QED
      BY <2>0, <3>1, <3>2 DEF Calm
  <2>2. CASE Serve(r) \/ NotFound(r) \/ Miss(r)
    <3>1. req'[r].pc \in {"done", "pick"}
      <4>1. CASE \E what : Done(r, what)
        BY <4>1, NextPlace
      <4>2. CASE Miss(r) /\ ~Done(r, Code("404"))
        <5>1. PICK s : req' = [req EXCEPT ![r].pc = "pick", ![r].sources = s]
          BY <4>2 DEF Miss
        <5> QED
          BY <1>0, <5>1 DEF Records
      <4> QED
        BY <2>2, <4>1, <4>2 DEF Serve, NotFound
    <3> QED
      BY <2>0, <2>2, <3>1 DEF Serve, NotFound, Miss, Calm
  <2>3. CASE SwarmFails(r) \/ SourceFails(r)
    BY <1>0, <2>0, <2>3 DEF SwarmFails, SourceFails, Calm, Records
  <2>4. CASE Swarm(r) \/ Buffered(r)
    <3>1. PICK source, T : InMemory(r, source, T)
      BY <2>4 DEF Swarm, Buffered
    <3>2. PICK h \in Hash, t \in T :
            req' = [req EXCEPT ![r] =
              Taken(req[r], "save", source, t, h, Code("200") \o Full(h))]
      BY <3>1 DEF InMemory
    <3>3. req'[r].pc = "save"
      BY <1>0, <3>2 DEF Taken, Records
    <3> QED
      BY <2>0, <3>1, <3>3 DEF InMemory, Calm
  <2>5. CASE SourceDies(r) \/ ClientGone(r) \/ WriteFails(r)
    <3>1. (\E next : Closed(r, "clean", next)) \/ Done(r, <<>>)
      BY <2>5 DEF SourceDies, ClientGone, WriteFails, Serial
    <3>2. req'[r].pc \in {"clean", "done"}
      BY <3>1, NextPlace
    <3> QED
      BY <2>0, <2>5, <3>2 DEF SourceDies, ClientGone, WriteFails, Calm
  <2>6. CASE Register(r)
    <3>1. req'[r].pc = "done"
      BY <2>6, NextPlace DEF Register
    <3> QED
      BY <1>0, <2>0, <2>6, <3>1 DEF Register, Calm
  <2>7. CASE Clean(r)
    <3>1. req'[r].pc \in {"unlink", "done", "pick"}
      BY <2>7, NextPlace DEF Clean, GoOn
    <3> QED
      BY <2>0, <2>7, <3>1 DEF Clean, Calm
  <2>8. CASE Rename(r) /\ ~Moves(r)
    BY <2>0, <2>8, RenamePlaces DEF Rename, Moves, Calm
  <2>9. CASE Unlink(r) /\ ~Removes(r)
    <3>1. req'[r].pc \in {"done", "pick"}
      BY <2>9, NextPlace DEF Unlink, GoOn
    <3> QED
      BY <2>0, <2>9, <3>1 DEF Unlink, Removes, Calm
  <2> QED
    BY <1>2, <2>1, <2>2, <2>3, <2>4, <2>5, <2>6, <2>7, <2>8, <2>9 DEF Step
<1> QED
  BY <1>1, <1>2

LEMMA DownloadStep == Serial => (Types /\ Download /\ [Next]_vars => Download')
<1> SUFFICES ASSUME Serial, Types, Download, [Next]_vars PROVE Download'
  OBVIOUS
<1>0. Alone /\ Files
  BY DEF Download, Files
<1>1. ASSUME NEW r \in Request, Arrive(r) \/ Step(r) \/ Close(r) PROVE Download'
  <2>1. Alone'
    BY <1>0, <1>1, AloneStep DEF Serial
  <2>2. Files'
    BY <1>0, <1>1, CalmSteps, CalmFiles, OpenFiles, WriteFiles, EndFiles, RenameFiles,
       UnlinkFiles
  <2> QED
    BY <2>1, <2>2 DEF Download, Files
<1>2. CASE Restart
  <2>1. UNCHANGED <<disk, tmp, final>> /\ req' = [r \in Request |-> Blank]
    BY <1>2 DEF Restart
  <2> QED
    BY <1>0, <2>1 DEF Download, Files, Alone, Local, Apart, Writing, Renaming,
       PublishedIntact, Blank
<1>3. CASE Same
  BY <1>0, <1>3 DEF Same, Download, Files, Alone, Local, Apart, Writing, Renaming,
     PublishedIntact
<1> QED
  BY <1>1, <1>2, <1>3, NextSteps

LEMMA DownloadInit == Init => Download
BY DEF Init, Download, Alone, Local, Apart, Writing, Renaming, PublishedIntact, Blank

LEMMA DownloadAlways == Serial => (Spec => []Download)
<1> SUFFICES ASSUME Serial PROVE Spec => []Download
  OBVIOUS
<1>1. Types /\ Download /\ [Next]_vars => Download'
  BY DownloadStep
<1> QED
  BY <1>1, DownloadInit, TypesAlways, PTL DEF Spec

\* Where one local request at a time downloads a name and no write fails, what
\* stands under the name of a package is of one content, from its beginning and
\* without a gap: whatever a source that breaks off, a client that leaves, a
\* failed rename or unlink or a restart leaves in the temporary file, the next
\* download does not build on it.
THEOREM IntactPackages == Serial => (Spec => []PublishedIntact)
<1> SUFFICES ASSUME Serial PROVE Spec => []PublishedIntact
  OBVIOUS
<1>1. Download => PublishedIntact
  BY DEF Download
<1> QED
  BY <1>1, DownloadAlways, PTL

-----------------------------------------------------------------------------
(* The same downloads: the index. *)

\* The steps of a local request that has found no file of its name.
Missing == {"miss", "pick", "save", "write", "rename", "clean", "unlink"}

Absent ==
  \A r \in Request : Local(r) =>
    /\ req[r].pc \in Missing /\ req[r].name \notin doubted =>
         final[req[r].name] = None /\ \A e \in index : e[2] # req[r].name
    /\ req[r].pc = "forget" => final[req[r].name] = None

\* The file a request registers is the one it has downloaded, or is gone.
Registering ==
  \A r \in Request : req[r].pc = "register" /\ final[req[r].name] # None =>
    disk[final[req[r].name]] = Begun(req[r].src, req[r].pos)

Unique == \A e, f \in index : e[2] = f[2] /\ e[2] \notin doubted => e = f

\* An entry without a file is about to be forgotten.
Dangling ==
  \A e \in index : final[e[2]] = None /\ e[2] \notin doubted =>
    \E r \in Request : req[r].pc = "forget" /\ req[r].name = e[2]

Indexed == Absent /\ Registering /\ Unique /\ Dangling /\ CachedTruth

\* A step that leaves the index and the packages as they are, and neither
\* begins nor ends anything that the invariants tell of.
Plain(r) ==
  /\ Still /\ UNCHANGED <<index, doubted>>
  /\ \A q \in Request \ {r} : req'[q] = req[q]
  /\ req[r].pc # "forget" /\ req'[r].pc \notin {"forget", "register"}
  /\ req'[r].pc \in Missing =>
       /\ req[r].pc \in Missing
       /\ req'[r].name = req[r].name /\ req'[r].kind = req[r].kind

LEMMA LocalFacts ==
  ASSUME Types, NEW q \in Request,
         req[q].pc \in {"pick", "save", "write", "rename", "clean", "unlink",
                        "drop", "forget", "register"}
  PROVE  Local(q) /\ req[q].name \in Name
BY DEF Types, Form, Local

LEMMA PlainIndexed ==
  ASSUME Types, Indexed, NEW r \in Request, Plain(r)
  PROVE  Indexed'
<1>0. /\ \A e \in index : e[2] \in Name
      /\ \A q \in Request : req[q].pc # "idle" => req[q].name \in Name
  BY DEF Types, Form
<1>1. Absent'
  BY DEF Indexed, Absent, Plain, Still, Local, Named
<1>2. Registering'
  <2> SUFFICES ASSUME NEW q \in Request, req'[q].pc = "register",
                      final'[req'[q].name] # None
               PROVE  disk'[final'[req'[q].name]] = Begun(req'[q].src, req'[q].pos)
    BY DEF Registering
  <2>1. q # r /\ req'[q] = req[q] /\ req[q].name \in Name
    BY <1>0 DEF Plain
  <2> QED
    BY <2>1 DEF Indexed, Registering, Plain, Still
<1>3. Unique'
  BY DEF Indexed, Unique, Plain
<1>4. Dangling'
  BY DEF Indexed, Dangling, Plain, Still
<1>5. CachedTruth'
  BY <1>0 DEF Indexed, CachedTruth, Plain, Still
<1> QED
  BY <1>1, <1>2, <1>3, <1>4, <1>5 DEF Indexed

LEMMA LookupIndexed ==
  ASSUME Types, Alone, Indexed, NEW r \in Request, Lookup(r)
  PROVE  Indexed'
<1>0. /\ req[r] \in Records /\ Form(req[r]) /\ req[r].pc = "lookup" /\ req[r].name \in Name
      /\ UNCHANGED <<disk, tmp, final, doubted>>
      /\ Kept(r)
  BY StepKept DEF Types, Lookup, Form, Step
<1>1. \A q \in Request \ {r} : req'[q] = req[q]
  BY <1>0 DEF Kept
<1>2. PICK n : n = req[r].name
  OBVIOUS
<1>3. CASE final[n] # None
  <2>1. req'[r].pc = "check"
    BY <1>2, <1>3, NextPlace DEF Lookup
  <2>2. /\ index' \subseteq index \cup {<<disk[final[n]], n>>}
        /\ <<disk[final[n]], n>> \in index' \ index => Named(n) = {}
    BY <1>2, <1>3 DEF Lookup
  <2>3. Absent'
    <3> SUFFICES ASSUME NEW q \in Request, Local(q)'
                 PROVE  /\ req'[q].pc \in Missing /\ req'[q].name \notin doubted' =>
                             /\ final'[req'[q].name] = None
                             /\ \A e \in index' : e[2] # req'[q].name
                        /\ req'[q].pc = "forget" => final'[req'[q].name] = None
      BY DEF Absent
    <3>1. CASE q = r
      BY <2>1, <3>1 DEF Missing
    <3>2. CASE q # r
      <4>1. req'[q] = req[q] /\ Local(q)
        BY <1>1, <3>2 DEF Local
      <4>2. final[req[q].name] = None => req[q].name # n
        BY <1>3
      <4> QED
        BY <1>0, <2>2, <4>1, <4>2 DEF Indexed, Absent, Named
    <3> QED
      BY <3>1, <3>2
  <2>4. Registering'
    BY <1>0, <1>1, <2>1 DEF Indexed, Registering
  <2>5. Unique'
    <3>1. ASSUME NEW e \in index', NEW f \in index', e[2] = f[2], e[2] \notin doubted
          PROVE  e = f
      BY <1>0, <2>2, <3>1 DEF Indexed, Unique, Named
    <3> QED
      BY <1>0, <3>1 DEF Unique
  <2>6. Dangling'
    BY <1>0, <1>1, <1>3, <2>2 DEF Indexed, Dangling
  <2>7. CachedTruth'
    BY <1>0, <2>2 DEF Indexed, CachedTruth
  <2> QED
    BY <2>3, <2>4, <2>5, <2>6, <2>7 DEF Indexed
<1>4. CASE final[n] = None
  <2>1. req'[r].pc = "miss"
    BY <1>2, <1>4, NextPlace DEF Lookup
  <2>2. index' \subseteq index /\ (n \notin doubted => \A e \in index' : e[2] # n)
    <3>1. CASE Named(n) = {}
      BY <1>2, <1>4, <3>1 DEF Lookup, Named
    <3>2. CASE Named(n) # {}
      <4>1. PICK e \in Named(n) : index' = index \ {e}
        BY <1>2, <1>4, <3>2 DEF Lookup
      <4> QED
        BY <4>1 DEF Indexed, Unique, Named
    <3> QED
      BY <3>1, <3>2
  <2>3. Absent'
    <3> SUFFICES ASSUME NEW q \in Request, Local(q)'
                 PROVE  /\ req'[q].pc \in Missing /\ req'[q].name \notin doubted' =>
                             /\ final'[req'[q].name] = None
                             /\ \A e \in index' : e[2] # req'[q].name
                        /\ req'[q].pc = "forget" => final'[req'[q].name] = None
      BY DEF Absent
    <3>1. CASE q = r
      BY <1>0, <1>2, <1>4, <2>1, <2>2, <3>1 DEF Kept
    <3>2. CASE q # r
      <4>1. req'[q] = req[q] /\ Local(q)
        BY <1>1, <3>2 DEF Local
      <4> QED
        BY <1>0, <2>2, <4>1 DEF Indexed, Absent, Named
    <3> QED
      BY <3>1, <3>2
  <2>4. Registering'
    BY <1>0, <1>1, <2>1 DEF Indexed, Registering
  <2>5. Unique'
    BY <1>0, <2>2 DEF Indexed, Unique
  <2>6. Dangling'
    BY <1>0, <1>1, <2>2 DEF Indexed, Dangling
  <2>7. CachedTruth'
    BY <1>0, <2>2 DEF Indexed, CachedTruth
  <2> QED
    BY <2>3, <2>4, <2>5, <2>6, <2>7 DEF Indexed
<1> QED
  BY <1>3, <1>4

\* The corrupt copy stays, with its entries: the name is in doubt.
LEMMA DoubtIndexed ==
  ASSUME Types, Indexed, NEW r \in Request, req[r].pc = "drop", req'[r].pc = "miss", Kept(r),
         UNCHANGED <<disk, tmp, final, index>>, doubted' = doubted \cup {req[r].name}
  PROVE  Indexed'
<1>1. \A q \in Request \ {r} : req'[q] = req[q]
  BY DEF Kept
<1>2. Absent'
  <2> SUFFICES ASSUME NEW q \in Request, Local(q)'
               PROVE  /\ req'[q].pc \in Missing /\ req'[q].name \notin doubted' =>
                           /\ final'[req'[q].name] = None
                           /\ \A e \in index' : e[2] # req'[q].name
                      /\ req'[q].pc = "forget" => final'[req'[q].name] = None
    BY DEF Absent
  <2>1. CASE q = r
    BY <2>1 DEF Kept, Missing
  <2>2. CASE q # r
    <3>1. req'[q] = req[q] /\ Local(q)
      BY <1>1, <2>2 DEF Local
    <3> QED
      BY <3>1 DEF Indexed, Absent
  <2> QED
    BY <2>1, <2>2
<1>3. Registering'
  BY <1>1 DEF Indexed, Registering
<1>4. Unique'
  BY DEF Indexed, Unique
<1>5. Dangling'
  BY <1>1 DEF Indexed, Dangling
<1>6. CachedTruth'
  BY DEF Indexed, CachedTruth
<1> QED
  BY <1>2, <1>3, <1>4, <1>5, <1>6 DEF Indexed

\* A corrupt copy that is removed, or has vanished.
Drops(r) ==
  LET n == req[r].name IN
  /\ UNCHANGED doubted
  /\ \/ final[n] # None /\ final' = [final EXCEPT ![n] = None] /\ req'[r].pc = "forget"
     \/ final[n] = None /\ UNCHANGED final /\ req'[r].pc = "miss"

LEMMA DropsIndexed ==
  ASSUME Types, Alone, Indexed, NEW r \in Request, UnlinkCorrupt(r), Drops(r)
  PROVE  Indexed'
<1>0. /\ req[r].pc = "drop" /\ req[r].name \in Name /\ Local(r)
      /\ UNCHANGED <<disk, tmp, index, doubted>>
      /\ Kept(r)
  BY StepKept, LocalFacts DEF UnlinkCorrupt, Drops, Step
<1>1. \A q \in Request \ {r} : req'[q] = req[q]
  BY <1>0 DEF Kept
<1>2. PICK n : n = req[r].name
  OBVIOUS
<1>3. /\ final'[n] = None /\ \A m \in Name : m # n => final'[m] = final[m]
  BY <1>0, <1>2 DEF Drops, Types
<1>4. req'[r].pc = IF final[n] # None THEN "forget" ELSE "miss"
  BY <1>2 DEF Drops
<1>5. final[n] = None /\ n \notin doubted => \A e \in index : e[2] # n
  <2> SUFFICES ASSUME final[n] = None, n \notin doubted, NEW e \in index, e[2] = n PROVE FALSE
    OBVIOUS
  <2>1. PICK q \in Request : req[q].pc = "forget" /\ req[q].name = n
    BY DEF Indexed, Dangling
  <2>2. Local(q) /\ q # r
    BY <1>0, <2>1, LocalFacts
  <2> QED
    BY <1>0, <1>2, <2>1, <2>2 DEF Alone
<1>6. \A q \in Request : req[q].pc # "idle" => req[q].name \in Name
  BY DEF Types, Form
<1>7. Absent'
  <2> SUFFICES ASSUME NEW q \in Request, Local(q)'
               PROVE  /\ req'[q].pc \in Missing /\ req'[q].name \notin doubted' =>
                           /\ final'[req'[q].name] = None
                           /\ \A e \in index' : e[2] # req'[q].name
                      /\ req'[q].pc = "forget" => final'[req'[q].name] = None
    BY DEF Absent
  <2>1. CASE q = r
    BY <1>0, <1>2, <1>3, <1>4, <1>5, <2>1 DEF Kept, Missing
  <2>2. CASE q # r
    <3>1. req'[q] = req[q] /\ Local(q)
      BY <1>1, <2>2 DEF Local
    <3>2. req[q].pc \in Missing \cup {"forget"} => req[q].name \in Name
      BY <1>6 DEF Missing
    <3> QED
      BY <1>0, <1>3, <3>1, <3>2 DEF Indexed, Absent
  <2> QED
    BY <2>1, <2>2
<1>8. Registering'
  BY <1>0, <1>1, <1>3, <1>4, <1>6 DEF Indexed, Registering
<1>9. Unique'
  BY <1>0 DEF Indexed, Unique
<1>10. Dangling'
  <2> SUFFICES ASSUME NEW e \in index', final'[e[2]] = None, e[2] \notin doubted'
               PROVE  \E q \in Request : req'[q].pc = "forget" /\ req'[q].name = e[2]
    BY DEF Dangling
  <2>1. e \in index /\ e[2] \in Name
    BY <1>0 DEF Types
  <2>2. CASE e[2] = n
    BY <1>0, <1>2, <1>4, <1>5, <2>1, <2>2 DEF Kept
  <2>3. CASE e[2] # n
    <3>1. PICK q \in Request : req[q].pc = "forget" /\ req[q].name = e[2]
      BY <1>0, <1>3, <2>1, <2>3 DEF Indexed, Dangling
    <3> QED
      BY <1>0, <1>1, <3>1
  <2> QED
    BY <2>2, <2>3
<1>11. CachedTruth'
  <2>1. \A e \in index : e[2] \in Name
    BY DEF Types
  <2> QED
    BY <1>0, <1>3, <2>1 DEF Indexed, CachedTruth
<1> QED
  BY <1>7, <1>8, <1>9, <1>10, <1>11 DEF Indexed

LEMMA UnlinkCorruptIndexed ==
  ASSUME Types, Alone, Indexed, NEW r \in Request, UnlinkCorrupt(r)
  PROVE  Indexed'
<1>1. req[r].pc = "drop" /\ UNCHANGED <<disk, tmp, index>> /\ Kept(r)
  BY StepKept DEF UnlinkCorrupt, Step
<1>2. \/ Drops(r)
      \/ /\ req'[r].pc = "miss" /\ UNCHANGED final
         /\ doubted' = doubted \cup {req[r].name}
  BY NextPlace DEF UnlinkCorrupt, Drops
<1> QED
  BY <1>1, <1>2, DropsIndexed, DoubtIndexed

LEMMA ForgetCorruptIndexed ==
  ASSUME Types, Alone, Indexed, NEW r \in Request, ForgetCorrupt(r)
  PROVE  Indexed'
<1>0. /\ req[r].pc = "forget" /\ req[r].name \in Name /\ Local(r)
      /\ UNCHANGED <<disk, tmp, final, doubted>>
      /\ Kept(r) /\ req'[r].pc = "miss"
  BY StepKept, LocalFacts, NextPlace DEF ForgetCorrupt, Step
<1>1. \A q \in Request \ {r} : req'[q] = req[q]
  BY <1>0 DEF Kept
<1>2. index' \subseteq index /\ \A e \in index' : e[2] # req[r].name
  BY DEF ForgetCorrupt, Named
<1>3. final[req[r].name] = None
  BY <1>0 DEF Indexed, Absent
<1>4. Absent'
  BY <1>0, <1>1, <1>2, <1>3 DEF Indexed, Absent, Local, Kept
<1>5. Registering'
  BY <1>0, <1>1 DEF Indexed, Registering
<1>6. Unique'
  BY <1>0, <1>2 DEF Indexed, Unique
<1>7. Dangling'
  <2> SUFFICES ASSUME NEW e \in index', final'[e[2]] = None, e[2] \notin doubted'
               PROVE  \E q \in Request : req'[q].pc = "forget" /\ req'[q].name = e[2]
    BY DEF Dangling
  <2>1. PICK q \in Request : req[q].pc = "forget" /\ req[q].name = e[2]
    BY <1>0, <1>2 DEF Indexed, Dangling
  <2> QED
    BY <1>1, <1>2, <2>1
<1>8. CachedTruth'
  BY <1>0, <1>2 DEF Indexed, CachedTruth
<1> QED
  BY <1>4, <1>5, <1>6, <1>7, <1>8 DEF Indexed

LEMMA RenameIndexed ==
  ASSUME Types, Alone, Files, Indexed, NEW r \in Request, Moves(r)
  PROVE  Indexed'
<1>0. /\ req[r] \in Records /\ req[r].pc = "rename" /\ req[r].name \in Name /\ Local(r)
      /\ tmp[req[r].name] # None
      /\ disk[tmp[req[r].name]] = Begun(req[r].src, req[r].pos)
      /\ UNCHANGED <<disk, index, doubted>>
      /\ Kept(r)
  BY StepKept, LocalFacts DEF Moves, Rename, Step, Files, Renaming, Missing, Types
<1>1. \A q \in Request \ {r} : req'[q] = req[q]
  BY <1>0 DEF Kept
<1>2. PICK n : n = req[r].name
  OBVIOUS
<1>3. /\ req'[r].pc = "register" /\ req'[r].name = n
      /\ req'[r].src = req[r].src /\ req'[r].pos = req[r].pos
  BY <1>0, <1>2, RenameFiles DEF Records
<1>4. /\ final'[n] = tmp[n] /\ \A m \in Name : m # n => final'[m] = final[m]
  BY <1>0, <1>2, RenamePlaces DEF Moves, Types
<1>5. \A e \in index : (n \notin doubted => e[2] # n) /\ e[2] \in Name
  BY <1>0, <1>2 DEF Indexed, Absent, Missing, Types
<1>6. \A q \in Request \ {r} :
        Local(q) /\ req[q].pc \in Missing \cup {"forget", "register"} =>
          req[q].name \in Name /\ req[q].name # n
  BY <1>0, <1>2 DEF Alone, Types, Form, Missing
<1>7. Absent'
  BY <1>0, <1>1, <1>3, <1>4, <1>6 DEF Indexed, Absent, Local, Missing
<1>8. Registering'
  <2> SUFFICES ASSUME NEW q \in Request, req'[q].pc = "register",
                      final'[req'[q].name] # None
               PROVE  disk'[final'[req'[q].name]] = Begun(req'[q].src, req'[q].pos)
    BY DEF Registering
  <2>1. CASE q = r
    BY <1>0, <1>2, <1>3, <1>4, <2>1
  <2>2. CASE q # r
    <3>1. req'[q] = req[q] /\ Local(q) /\ req[q].pc = "register"
      BY <1>1, <2>2, LocalFacts
    <3> QED
      BY <1>0, <1>4, <1>6, <2>2, <3>1 DEF Indexed, Registering
  <2> QED
    BY <2>1, <2>2
<1>9. Unique'
  BY <1>0 DEF Indexed, Unique
<1>10. Dangling'
  <2> SUFFICES ASSUME NEW e \in index', final'[e[2]] = None, e[2] \notin doubted'
               PROVE  \E q \in Request : req'[q].pc = "forget" /\ req'[q].name = e[2]
    BY DEF Dangling
  <2>1. PICK q \in Request : req[q].pc = "forget" /\ req[q].name = e[2]
    BY <1>0, <1>4, <1>5 DEF Indexed, Dangling
  <2> QED
    BY <1>0, <1>1, <2>1
<1>11. CachedTruth'
  BY <1>0, <1>4, <1>5 DEF Indexed, CachedTruth
<1> QED
  BY <1>7, <1>8, <1>9, <1>10, <1>11 DEF Indexed

LEMMA RegisterIndexed ==
  ASSUME Types, Alone, Indexed, NEW r \in Request, Register(r)
  PROVE  Indexed'
<1>0. /\ req[r] \in Records /\ req[r].pc = "register" /\ req[r].name \in Name /\ Local(r)
      /\ UNCHANGED <<disk, tmp, doubted>>
      /\ req'[r].pc = "done"
      /\ Form(req[r])
  BY LocalFacts, NextPlace DEF Register, Types
<1>1. \A q \in Request \ {r} : req'[q] = req[q]
  BY StepKept DEF Step, Kept
<1>2. PICK n, h : n = req[r].name
                  /\ h = IF req[r].target # None THEN Full(req[r].target)
                         ELSE Begun(req[r].src, req[r].pos)
  OBVIOUS
<1>3. h = Begun(req[r].src, req[r].pos)
  <2>1. req[r].target # None => req[r].target = req[r].src /\ req[r].pos = Chunks
    BY <1>0 DEF Form
  <2> QED
    BY <1>2, <2>1 DEF Full
<1>4. CASE final[n] = None
  <2>1. UNCHANGED <<final, index>>
    BY <1>2, <1>4 DEF Register
  <2> QED
    BY <1>0, <1>1, <2>1, PlainIndexed DEF Plain, Still, Missing
<1>5. CASE final[n] # None
  <2>1. disk[final[n]] = h
    BY <1>0, <1>2, <1>3, <1>5 DEF Indexed, Registering
  <2>2. PICK entries : entries = {e \in index : e[1] # h /\ final[e[2]] # None} \cup {<<h, n>>}
    OBVIOUS
  <2>3. PICK out \in SUBSET entries :
          /\ index' = entries \ out
          /\ final' = [m \in Name |-> IF \E e \in out : e[2] = m THEN None ELSE final[m]]
    BY <1>2, <1>5, <2>2 DEF Register
  <2>4. \A e \in entries : /\ e[2] \in Name /\ final[e[2]] # None
                           /\ e[2] \notin doubted => disk[final[e[2]]] = e[1]
    BY <1>0, <1>2, <1>5, <2>1, <2>2 DEF Indexed, CachedTruth, Types
  <2>5. \A e, f \in entries : e[2] = f[2] /\ e[2] \notin doubted => e = f
    <3>1. ASSUME NEW e \in entries, NEW f \in entries, e[2] = f[2], e[2] \notin doubted
          PROVE  e = f
      <4>1. e[1] = f[1]
        BY <2>4, <3>1
      <4> QED
        BY <2>2, <3>1, <4>1 DEF Indexed, Unique
    <3> QED
      BY <3>1
  <2>6. \A m \in Name : final'[m] \in {final[m], None}
    BY <2>3
  <2>7. Absent'
    <3> SUFFICES ASSUME NEW q \in Request, Local(q)'
                 PROVE  /\ req'[q].pc \in Missing /\ req'[q].name \notin doubted' =>
                             /\ final'[req'[q].name] = None
                             /\ \A e \in index' : e[2] # req'[q].name
                        /\ req'[q].pc = "forget" => final'[req'[q].name] = None
      BY DEF Absent
    <3>1. CASE q = r
      BY <1>0, <3>1 DEF Missing
    <3>2. CASE q # r
      <4>1. req'[q] = req[q] /\ Local(q)
        BY <1>1, <3>2 DEF Local
      <4>2. req[q].pc \in Missing \cup {"forget"} => req[q].name \in Name /\ req[q].name # n
        BY <1>0, <1>2, <3>2, <4>1 DEF Alone, Types, Form, Missing
      <4> QED
        BY <1>0, <2>2, <2>3, <2>6, <4>1, <4>2 DEF Indexed, Absent
    <3> QED
      BY <3>1, <3>2
  <2>8. Registering'
    <3> SUFFICES ASSUME NEW q \in Request, req'[q].pc = "register",
                        final'[req'[q].name] # None
                 PROVE  disk'[final'[req'[q].name]] = Begun(req'[q].src, req'[q].pos)
      BY DEF Registering
    <3>1. q # r /\ req'[q] = req[q] /\ req[q].name \in Name
      BY <1>0, <1>1 DEF Types, Form
    <3> QED
      BY <1>0, <2>6, <3>1 DEF Indexed, Registering
  <2>9. Unique'
    BY <1>0, <2>3, <2>5 DEF Unique
  <2>10. Dangling'
    <3> SUFFICES ASSUME NEW e \in index', final'[e[2]] = None, e[2] \notin doubted'
                 PROVE  FALSE
      BY DEF Dangling
    <3>1. e \in entries /\ e \notin out /\ final[e[2]] # None /\ e[2] \in Name
      BY <2>3, <2>4
    <3>2. PICK f \in out : f[2] = e[2]
      BY <2>3, <3>1
    <3> QED
      BY <1>0, <2>5, <3>1, <3>2
  <2>11. CachedTruth'
    BY <1>0, <2>3, <2>4, <2>6 DEF CachedTruth
  <2> QED
    BY <2>7, <2>8, <2>9, <2>10, <2>11 DEF Indexed
<1> QED
  BY <1>4, <1>5

\* Where the steps that are Plain go from where.
LEMMA PlainPlaces ==
  ASSUME Types, NEW r \in Request,
         \/ Check(r) \/ Serve(r) \/ Miss(r) \/ NotFound(r) \/ SwarmFails(r) \/ Swarm(r)
         \/ SourceFails(r) \/ Buffered(r) \/ Save(r) \/ Stream(r) \/ Write(r) \/ EndBody(r)
         \/ SourceDies(r) \/ ClientGone(r) \/ WriteFails(r) \/ Clean(r) \/ Unlink(r)
         \/ Rename(r) /\ ~Moves(r)
  PROVE  \/ req'[r].pc = "done" /\ req[r].pc # "forget"
         \/ req'[r].pc \in {"drop", "serve"} /\ req[r].pc # "forget" /\ Check(r)
         \/ req'[r].pc \in Missing /\ req[r].pc \in Missing
<1>0. req[r] \in Records /\ req \in [Request -> Records]
  BY DEF Types
<1>1. CASE Check(r)
  BY <1>0, <1>1, NextPlace DEF Check
<1>2. CASE Serve(r) \/ NotFound(r) \/ Miss(r)
  <2>1. CASE (Serve(r) \/ NotFound(r) \/ Miss(r)) /\ \E what : Done(r, what)
    <3>1. req[r].pc # "forget"
      BY <2>1 DEF Serve, NotFound, Miss
    <3> QED
      BY <2>1, <3>1, NextPlace
  <2>2. CASE Miss(r) /\ ~Done(r, Code("404"))
    <3>1. PICK s : req' = [req EXCEPT ![r].pc = "pick", ![r].sources = s]
      BY <2>2 DEF Miss
    <3> QED
      BY <1>0, <2>2, <3>1 DEF Records, Miss, Missing
  <2> QED
    BY <1>2, <2>1, <2>2 DEF Serve, NotFound
<1>3. CASE SwarmFails(r) \/ SourceFails(r) \/ Save(r) \/ Write(r)
  BY <1>0, <1>3 DEF SwarmFails, SourceFails, Save, Write, Missing, Records
<1>4. CASE Swarm(r) \/ Buffered(r)
  <2>1. PICK source, T : InMemory(r, source, T)
    BY <1>4 DEF Swarm, Buffered
  <2>2. PICK h \in Hash, t \in T :
          req' = [req EXCEPT ![r] =
            Taken(req[r], "save", source, t, h, Code("200") \o Full(h))]
    BY <2>1 DEF InMemory
  <2>3. req'[r].pc = "save"
    BY <1>0, <2>2 DEF Taken, Records
  <2> QED
    BY <2>1, <2>3 DEF InMemory, Missing
<1>5. CASE Stream(r)
  <2>1. PICK t, h, i :
          req' = [req EXCEPT ![r] =
            [Taken(req[r], "write", "stream", t, h, Code("200")) EXCEPT !.fd = i]]
    BY <1>5 DEF Stream
  <2>2. PICK x : x = [Taken(req[r], "write", "stream", t, h, Code("200")) EXCEPT !.fd = i]
    OBVIOUS
  <2>3. x.pc = "write"
    BY <1>0, <2>2 DEF Taken, Records
  <2>4. req'[r] = x
    BY <1>0, <2>1, <2>2
  <2> QED
    BY <1>5, <2>3, <2>4 DEF Stream, Missing
<1>6. CASE EndBody(r) \/ SourceDies(r) \/ ClientGone(r) \/ WriteFails(r)
  <2>1. /\ req[r].pc \in {"save", "write"}
        /\ (\E pc \in {"clean", "rename"}, next \in {"done", "pick"} : Closed(r, pc, next))
             \/ Done(r, <<>>)
    <3>1. CASE WriteFails(r)
      BY <1>0, <3>1 DEF WriteFails, Records, Vias
    <3> QED
      BY <1>6, <3>1 DEF EndBody, BodyEnds, SourceDies, ClientGone
  <2>2. req'[r].pc \in {"clean", "rename", "done"}
    BY <2>1, NextPlace
  <2> QED
    BY <2>1, <2>2 DEF Missing
<1>7. CASE Clean(r) \/ Unlink(r)
  <2>1. req'[r].pc \in {"unlink", "done", "pick"}
    BY <1>7, NextPlace DEF Clean, Unlink, GoOn
  <2> QED
    BY <1>7, <2>1 DEF Clean, Unlink, Missing
<1>8. CASE Rename(r) /\ ~Moves(r)
  <2>1. req'[r].pc \in {"clean", "done"}
    BY <1>8, RenamePlaces DEF Moves
  <2> QED
    BY <1>8, <2>1 DEF Rename, Missing
<1> QED
  BY <1>1, <1>2, <1>3, <1>4, <1>5, <1>6, <1>7, <1>8

LEMMA PlainSteps ==
  ASSUME Types, Alone, Files, NEW r \in Request, Arrive(r) \/ Step(r) \/ Close(r)
  PROVE  \/ Plain(r) \/ Lookup(r) \/ UnlinkCorrupt(r) \/ ForgetCorrupt(r)
         \/ Moves(r) \/ Register(r)
<1>0. req[r] \in Records /\ req \in [Request -> Records]
  BY DEF Types
<1>1. CASE Arrive(r)
  BY <1>1, ArriveFacts DEF Arrive, Plain, Still, Missing
<1>2. CASE Close(r)
  <2>1. req'[r].pc = "idle" /\ \A q \in Request \ {r} : req'[q] = req[q]
    BY <1>0, <1>2 DEF Close, Blank
  <2> QED
    BY <1>2, <2>1 DEF Close, Plain, Still, Missing
<1>3. CASE Step(r)
  <2> SUFFICES ASSUME ~(\/ Lookup(r) \/ UnlinkCorrupt(r) \/ ForgetCorrupt(r)
                        \/ Moves(r) \/ Register(r))
               PROVE  Plain(r)
    OBVIOUS
  <2>1. Kept(r)
    BY <1>3, StepKept
  <2>2. \/ req'[r].pc \in {"done", "drop", "serve"} /\ req[r].pc # "forget"
        \/ req'[r].pc \in Missing /\ req[r].pc \in Missing
    BY <1>3, PlainPlaces DEF Step
  <2>3. Still /\ UNCHANGED <<index, doubted>>
    <3>1. CASE Save(r) \/ Stream(r) \/ Write(r)
      BY <3>1, OpenFiles, WriteFiles DEF Save, Stream, Write
    <3>2. CASE ~(Save(r) \/ Stream(r) \/ Write(r))
      <4>1. UNCHANGED <<disk, final, index, doubted>>
        BY <1>3, <3>2, RenamePlaces DEF Moves, Rename, Step, Check, Serve, Miss, NotFound, SwarmFails, Swarm, InMemory,
           SourceFails, Buffered, EndBody, SourceDies, ClientGone, WriteFails, Clean, Unlink
      <4> QED
        BY <4>1 DEF Still
    <3> QED
      BY <3>1, <3>2
  <2> QED
    BY <2>1, <2>2, <2>3 DEF Plain, Kept, Missing
<1> QED
  BY <1>1, <1>2, <1>3

LEMMA IndexedStep == Types /\ Download /\ Indexed /\ [Next]_vars => Indexed'
<1> SUFFICES ASSUME Types, Download, Indexed, [Next]_vars PROVE Indexed'
  OBVIOUS
<1>0. Alone /\ Files
  BY DEF Download, Files
<1>1. ASSUME NEW r \in Request, Arrive(r) \/ Step(r) \/ Close(r) PROVE Indexed'
  BY <1>0, <1>1, PlainSteps, PlainIndexed, LookupIndexed, UnlinkCorruptIndexed,
     ForgetCorruptIndexed, RenameIndexed, RegisterIndexed
<1>2. CASE Restart
  <2>1. /\ UNCHANGED <<disk, tmp, final, doubted>> /\ req' = [r \in Request |-> Blank]
        /\ index' \subseteq index /\ \A e \in index' : final[e[2]] # None
    BY <1>2 DEF Restart
  <2>2. Absent' /\ Registering'
    BY <2>1 DEF Absent, Registering, Missing, Blank
  <2>3. Unique' /\ Dangling' /\ CachedTruth'
    BY <2>1 DEF Indexed, Unique, Dangling, CachedTruth
  <2> QED
    BY <2>2, <2>3 DEF Indexed
<1>3. CASE Same
  BY <1>3 DEF Same, Indexed, Absent, Local, Registering, Unique, Dangling, CachedTruth
<1> QED
  BY <1>1, <1>2, <1>3, NextSteps

LEMMA IndexedInit == Init => Indexed
BY DEF Init, Indexed, Absent, Local, Registering, Unique, Dangling, CachedTruth, Missing, Blank

\* The same downloads leave no entry of the index that gives a file another
\* hash than it has: what is adopted, dropped, renamed over or evicted while
\* a download goes on, and what a restart loads, is true of the files.
THEOREM IndexTellsTruth == Serial => (Spec => []CachedTruth)
<1> SUFFICES ASSUME Serial PROVE Spec => []CachedTruth
  OBVIOUS
<1>1. Spec => []Download
  BY DownloadAlways
<1>2. Indexed => CachedTruth
  BY DEF Indexed
<1> QED
  BY <1>1, <1>2, IndexedInit, IndexedStep, TypesAlways, PTL DEF Spec

-----------------------------------------------------------------------------
(* The same downloads: what is served. *)

\* A file that is about to be served to a client that expects a hash has it.
Serving ==
  \A r \in Request :
    /\ req[r].pc = "serve" /\ req[r].want # None
    /\ final[req[r].name] # None /\ req[r].name \notin doubted
    => disk[final[req[r].name]] = Full(req[r].want)

LEMMA ServingFacts ==
  ASSUME Types, NEW q \in Request, req[q].pc = "serve", req[q].want # None
  PROVE  Local(q) /\ req[q].name \in Name
BY DEF Types, Form, Local

LEMMA ServingCheck ==
  ASSUME Types, CachedTruth, NEW r \in Request, Check(r)
  PROVE  req[r].name \in Name /\ UNCHANGED <<disk, final>>
         /\ (/\ req'[r].pc = "serve" /\ req[r].want # None
             /\ final[req[r].name] # None /\ req[r].name \notin doubted
             => disk[final[req[r].name]] = Full(req[r].want))
<1>1. req[r].name \in Name /\ UNCHANGED <<disk, final>>
  BY DEF Types, Form, Check
<1> SUFFICES ASSUME req'[r].pc = "serve", req[r].want # None,
                    final[req[r].name] # None, req[r].name \notin doubted
             PROVE  disk[final[req[r].name]] = Full(req[r].want)
  BY <1>1
<1>2. PICK n, cached :
        /\ n = req[r].name
        /\ cached = IF Named(n) # {} THEN {e[1] : e \in Named(n)}
                    ELSE IF final[n] = None THEN {} ELSE {disk[final[n]]}
  OBVIOUS
<1>3. /\ cached # {}
      /\ \A c \in cached : c = disk[final[n]]
  BY <1>2 DEF CachedTruth, Named
<1>4. PICK c \in cached : Goto(r, IF req[r].want # None /\ c # Full(req[r].want)
                                  THEN "drop" ELSE "serve")
  BY <1>2, <1>3, NextPlace DEF Check
<1>5. c = Full(req[r].want)
  BY <1>4, NextPlace
<1> QED
  BY <1>2, <1>3, <1>5

\* What a step may change of the files under the names of packages.
LEMMA ShownStep ==
  ASSUME Types, Serial, Alone, Files, NEW r \in Request, Arrive(r) \/ Step(r) \/ Close(r),
         NEW n \in Name, final'[n] # None, ~(Moves(r) /\ n = req[r].name)
  PROVE  final'[n] = final[n] /\ disk'[final[n]] = disk[final[n]]
<1>1. CASE Calm(r)
  BY <1>1 DEF Calm
<1>2. CASE Save(r) \/ Stream(r) \/ Write(r)
  BY <1>2, OpenFiles, WriteFiles DEF Still
<1>3. CASE EndBody(r) \/ Removes(r)
  BY <1>3 DEF EndBody, Removes, Unlink
<1>4. CASE Moves(r) /\ n # req[r].name
  BY <1>4, RenamePlaces DEF Moves, Rename, Types
<1> QED
  BY <1>1, <1>2, <1>3, <1>4, CalmSteps

LEMMA OtherNames ==
  ASSUME Types, Alone, NEW r \in Request, NEW q \in Request, q # r, Local(q),
         req[r].pc \in {"pick", "save", "rename", "unlink"}
  PROVE  req[q].name # req[r].name
BY LocalFacts DEF Alone

LEMMA OthersKept ==
  ASSUME Types, NEW r \in Request, Arrive(r) \/ Step(r) \/ Close(r)
  PROVE  \A q \in Request \ {r} : req'[q] = req[q]
<1>1. CASE Step(r)
  BY <1>1, StepKept DEF Kept
<1>2. CASE Close(r)
  BY <1>2 DEF Close, Types
<1> QED
  BY <1>1, <1>2, ArriveFacts

\* A name stays in doubt.
LEMMA DoubtStays ==
  ASSUME NEW r \in Request, Arrive(r) \/ Step(r) \/ Close(r)
  PROVE  doubted \subseteq doubted'
<1>1. CASE UnlinkCorrupt(r)
  BY <1>1 DEF UnlinkCorrupt
<1>2. CASE UNCHANGED doubted
  BY <1>2
<1>3. UNCHANGED doubted \/ UnlinkCorrupt(r)
  BY Zenon DEF Arrive, Close, Step, Lookup, Check, ForgetCorrupt, Serve, Miss, NotFound,
     SwarmFails, Swarm, InMemory, SourceFails, Buffered, Save, Stream, Write, EndBody,
     SourceDies, ClientGone, WriteFails, Rename, Register, Clean, Unlink
<1> QED
  BY <1>1, <1>2, <1>3

LEMMA ServingStep ==
  ASSUME Types, Serial, Alone, Files, CachedTruth, Serving,
         NEW r \in Request, Arrive(r) \/ Step(r) \/ Close(r)
  PROVE  Serving'
<1> SUFFICES ASSUME NEW q \in Request, req'[q].pc = "serve", req'[q].want # None,
                    final'[req'[q].name] # None, req'[q].name \notin doubted
             PROVE  disk'[final'[req'[q].name]] = Full(req'[q].want)
  BY DoubtStays DEF Serving
<1>1. CASE q # r
  <2>1. req'[q] = req[q]
    BY <1>1, OthersKept
  <2>2. Local(q) /\ req[q].name \in Name
    BY <2>1, ServingFacts
  <2>3. ~(Moves(r) /\ req[q].name = req[r].name)
    BY <1>1, <2>2, OtherNames DEF Moves, Rename
  <2> QED
    BY <2>1, <2>2, <2>3, ShownStep DEF Serving
<1>2. CASE q = r
  <2>1. Check(r)
    <3>1. ~(Lookup(r) \/ UnlinkCorrupt(r) \/ ForgetCorrupt(r) \/ Moves(r) \/ Register(r))
      BY <1>2, NextPlace DEF Lookup, UnlinkCorrupt, ForgetCorrupt, Moves, Register
    <3>2. ~Arrive(r) /\ ~Close(r)
      <4>1. req \in [Request -> Records]
        BY DEF Types
      <4>2. ASSUME Arrive(r) PROVE FALSE
        BY <1>2, <4>2, ArriveFacts
      <4>3. ASSUME Close(r) PROVE FALSE
        BY <1>2, <4>1, <4>3 DEF Close, Blank
      <4> QED
        BY <4>2, <4>3
    <3> QED
      BY <1>2, <3>1, <3>2, PlainPlaces DEF Step, Missing
  <2>2. /\ req'[r].name = req[r].name /\ req'[r].want = req[r].want
    <3>1. \E pc : Goto(r, pc)
      BY <1>2, <2>1, NextPlace DEF Check
    <3> QED
      BY <3>1 DEF Goto, Types, Records
  <2> QED
    BY <1>2, <2>1, <2>2, ServingCheck
<1> QED
  BY <1>1, <1>2

LEMMA ServedStep ==
  Serial => (Types /\ Download /\ Indexed /\ Serving /\ [Next]_vars => Serving')
<1> SUFFICES ASSUME Serial, Types, Download, Indexed, Serving, [Next]_vars
             PROVE  Serving'
  OBVIOUS
<1>0. Alone /\ Files /\ CachedTruth
  BY DEF Download, Files, Indexed
<1>1. ASSUME NEW r \in Request, Arrive(r) \/ Step(r) \/ Close(r)
      PROVE  Serving'
  BY <1>0, <1>1, ServingStep
<1>2. CASE Restart
  <2>1. req' = [r \in Request |-> Blank]
    BY <1>2 DEF Restart
  <2> QED
    BY <2>1 DEF Serving, Blank
<1>3. CASE Same
  BY <1>3 DEF Same, Serving
<1> QED
  BY <1>1, <1>2, <1>3, NextSteps

LEMMA ServedAlways == Serial => (Spec => [](Types /\ Download /\ Indexed /\ Serving))
<1> SUFFICES ASSUME Serial PROVE Spec => [](Types /\ Download /\ Indexed /\ Serving)
  OBVIOUS
<1>1. Init => Serving
  BY DEF Init, Serving, Blank
<1>2. Types /\ Download /\ Indexed /\ Serving /\ [Next]_vars => Serving'
  BY ServedStep
<1>3. Spec => []Download
  BY DownloadAlways
<1> QED
  BY <1>1, <1>2, <1>3, IndexedInit, IndexedStep, TypesAlways, PTL DEF Spec

\* Nothing but the serving itself ends what is about to be served.
LEMMA OnlyServes ==
  ASSUME Types, [Next]_vars, NEW r \in Request, req[r].pc = "serve", ~Serve(r)
  PROVE  req'[r] \in {req[r], Blank}
<1>1. req \in [Request -> Records]
  BY DEF Types
<1>2. ASSUME NEW q \in Request, q # r, Arrive(q) \/ Step(q) \/ Close(q)
      PROVE  req'[r] = req[r]
  <2>1. CASE Step(q)
    BY <1>2, <2>1, StepKept DEF Kept
  <2>2. CASE Arrive(q) \/ Close(q)
    BY <1>1, <1>2, <2>2, ArriveFacts DEF Close
  <2> QED
    BY <1>2, <2>1, <2>2
<1>3. ~(Arrive(r) \/ Step(r) \/ Close(r))
  BY DEF Arrive, Close, Step, Lookup, Check, UnlinkCorrupt, ForgetCorrupt, Miss,
     NotFound, SwarmFails, Swarm, InMemory, SourceFails, Buffered, Save, Stream, Write,
     EndBody, BodyEnds, SourceDies, ClientGone, WriteFails, Rename, Register, Clean,
     Unlink
<1>4. CASE Restart
  BY <1>4 DEF Restart
<1>5. CASE Same
  BY <1>5 DEF Same
<1> QED
  BY <1>2, <1>3, <1>4, <1>5, NextSteps

LEMMA HitStep ==
  ASSUME Types, Serving, [Next]_vars, NEW r \in Request,
         req[r].pc = "serve", req[r].want # None, req[r].name \notin doubted,
         Len(req'[r].sent) > 1
  PROVE  req'[r].sent = Code("200") \o Full(req[r].want)
<1>1. /\ req[r] \in Records /\ Form(req[r]) /\ req \in [Request -> Records]
  BY DEF Types
<1>2. req[r].sent = <<>> /\ req[r].range = Whole /\ req[r].name \in Name
  BY <1>1 DEF Form
<1>3. CASE Serve(r)
  <2>1. \A what : Done(r, what) => req'[r].sent = <<>> \o what
    BY <1>1, <1>2 DEF Done, Ended, Blank
  <2>2. CASE final[req[r].name] # None
    <3>1. Done(r, Code("200") \o Full(req[r].want))
      BY <1>2, <1>3, <2>2 DEF Serve, Reply, Serving
    <3>2. PICK what : what = Code("200") \o Full(req[r].want)
      OBVIOUS
    <3>3. what \in Replies
      <4>1. req[r].want \in Hash
        BY <1>1 DEF Records, Hashes
      <4>2. Full(req[r].want) \in Replies
        BY <4>1, FullFacts, SeqMonotonic DEF Contents, Replies
      <4>3. Code("200") \in Replies
        BY CodeFacts DEF Codes
      <4> QED
        BY <3>2, <4>2, <4>3, FieldFacts
    <3>4. <<>> \o what = what
      BY <3>3 DEF Replies
    <3> QED
      BY <2>1, <3>1, <3>2, <3>4
  <2>3. CASE final[req[r].name] = None
    <3>1. PICK what : Done(r, what) /\ (what = <<>> \/ \E status \in Codes : what = Code(status))
      <4>1. Done(r, <<>>) \/ \E status \in {"200", "206", "416"} : Done(r, Code(status))
        BY <1>3, <2>3 DEF Serve
      <4>2. CASE \E status \in {"200", "206", "416"} : Done(r, Code(status))
        <5>1. PICK status \in Codes : Done(r, Code(status))
          BY <4>2 DEF Codes
        <5>2. PICK what : what = Code(status)
          OBVIOUS
        <5> QED
          BY <5>1, <5>2
      <4> QED
        BY <4>1, <4>2
    <3>2. what \in Replies /\ Len(what) <= 1
      <4>1. CASE what = <<>>
        BY <4>1, FieldFacts
      <4>2. CASE \E status \in Codes : what = Code(status)
        <5>1. PICK status \in Codes : what = Code(status)
          BY <4>2
        <5>2. Code(status) \in Replies /\ Len(Code(status)) = 1
          BY <5>1, CodeFacts
        <5> QED
          BY <5>1, <5>2
      <4> QED
        BY <3>1, <4>1, <4>2
    <3>3. <<>> \o what = what
      BY <3>2 DEF Replies
    <3> QED
      BY <2>1, <3>1, <3>2, <3>3
  <2> QED
    BY <2>2, <2>3
<1>4. CASE req'[r].sent = <<>>
  BY <1>4
<1>5. ASSUME ~Serve(r) PROVE req'[r].sent = <<>>
  BY <1>2, <1>5, OnlyServes DEF Blank
<1> QED
  BY <1>3, <1>4, <1>5

\* Under the same conditions a dnf that expects a hash and is served from the
\* cache gets the content with that hash, or the beginning of a reply, as long as
\* every corrupt copy under the name it asks for could be removed.
THEOREM HitIsWanted == Serial => (Spec => HitServesWanted)
<1> SUFFICES ASSUME Serial PROVE Spec => HitServesWanted
  OBVIOUS
<1>1. Types /\ Serving /\ [Next]_vars =>
        [\A r \in Request :
           /\ req[r].pc = "serve" /\ req[r].want # None /\ req[r].name \notin doubted
           /\ Len(req'[r].sent) > 1
           => req'[r].sent = Code("200") \o Full(req[r].want)]_vars
  BY HitStep
<1>2. Spec => [](Types /\ Download /\ Indexed /\ Serving)
  BY ServedAlways
<1> QED
  BY <1>1, <1>2, PTL DEF Spec, HitServesWanted

-----------------------------------------------------------------------------
(* Temporary files, whatever fails and whatever requests overlap. *)

\* The steps at which a request will still rename or remove the file.
Owns == {"write", "rename", "clean", "unlink"}

\* What a step may do to the temporary files and to their owners.
Tends(r) ==
  /\ \A n \in Name : tmp'[n] # None =>
       \/ n \in littered'
       \/ req'[r].name = n /\ req'[r].pc \in Owns
       \/ /\ tmp[n] # None /\ (n \in littered => n \in littered')
          /\ ~(req[r].name = n /\ req[r].pc \in Owns)
  /\ \A q \in Request \ {r} : req'[q] = req[q]

LEMMA OpenPlace ==
  ASSUME Types, NEW r \in Request, Save(r) \/ Stream(r)
  PROVE  req'[r].pc = "write"
<1>0. req[r] \in Records /\ req \in [Request -> Records]
  BY DEF Types
<1>1. CASE Save(r)
  BY <1>0, <1>1 DEF Save, Records
<1>2. CASE Stream(r)
  <2>1. PICK i, h, t :
          req' = [req EXCEPT ![r] =
            [Taken(req[r], "write", "stream", t, h, Code("200")) EXCEPT !.fd = i]]
    BY <1>2 DEF Stream
  <2>2. PICK x : x = [Taken(req[r], "write", "stream", t, h, Code("200")) EXCEPT !.fd = i]
    OBVIOUS
  <2>3. x.pc = "write" /\ req'[r] = x
    BY <1>0, <2>1, <2>2 DEF Taken, Records
  <2> QED
    BY <2>3
<1> QED
  BY <1>1, <1>2

LEMMA StepTends ==
  ASSUME Types, NEW r \in Request, Arrive(r) \/ Step(r) \/ Close(r)
  PROVE  Tends(r)
<1>0. /\ req[r] \in Records /\ req \in [Request -> Records]
      /\ req[r].pc \in Owns \cup {"save", "pick"} => req[r].name \in Name
      /\ tmp \in [Name -> Inodes]
      /\ \A q \in Request \ {r} : req'[q] = req[q]
  BY OthersKept, LocalFacts DEF Types, Owns
<1>1. CASE Arrive(r) \/ Close(r)
  BY <1>0, <1>1 DEF Arrive, Close, Owns, Tends
<1>2. CASE Step(r)
  <2>0. req'[r].name = req[r].name
    BY <1>2, StepKept DEF Kept
  <2>1. CASE Lookup(r) \/ UnlinkCorrupt(r) \/ ForgetCorrupt(r) \/ Register(r)
    BY <1>0, <2>1 DEF Lookup, UnlinkCorrupt, ForgetCorrupt, Register, Owns, Tends
  <2>2. CASE Check(r) \/ Serve(r) \/ Miss(r) \/ NotFound(r) \/ SwarmFails(r) \/ Swarm(r)
             \/ SourceFails(r) \/ Buffered(r)
    <3>1. UNCHANGED <<tmp, littered>> /\ req[r].pc \notin Owns
      BY <2>2 DEF Check, Serve, Miss, NotFound, SwarmFails, Swarm, InMemory, SourceFails,
         Buffered, Owns
    <3> QED
      BY <1>0, <3>1 DEF Tends
  <2>3. CASE Save(r) \/ Stream(r)
    <3>1. PICK i \in Inode : OpenTemp(req[r].name, i)
      BY <2>3 DEF Save, Stream
    <3>2. req[r].pc \notin Owns /\ req[r].name \in Name
      BY <1>0, <2>3 DEF Save, Stream, Owns
    <3>3. req'[r].pc = "write"
      BY <2>3, OpenPlace
    <3> QED
      BY <1>0, <2>0, <3>1, <3>2, <3>3 DEF OpenTemp, Owns, Tends
  <2>4. CASE Write(r)
    <3>1. req'[r].pc = "write" /\ UNCHANGED <<tmp, littered>>
      BY <1>0, <2>4 DEF Write, Records
    <3> QED
      BY <1>0, <2>0, <3>1 DEF Owns, Tends
  <2>5. CASE EndBody(r) \/ SourceDies(r) \/ ClientGone(r) \/ WriteFails(r)
    <3>1. UNCHANGED <<tmp, littered>>
      BY <2>5 DEF EndBody, SourceDies, ClientGone, WriteFails
    <3>2. \/ req'[r].pc \in {"clean", "rename"}
          \/ Done(r, <<>>) /\ req[r].pc = "save"
      <4>1. CASE WriteFails(r)
        BY <1>0, <4>1, NextPlace DEF WriteFails, Records, Vias
      <4> QED
        BY <2>5, <4>1, NextPlace DEF EndBody, SourceDies, ClientGone
    <3> QED
      BY <1>0, <2>0, <3>1, <3>2 DEF Owns, Tends
  <2>6. CASE Rename(r)
    BY <1>0, <2>0, <2>6, NextPlace DEF Rename, Owns, Tends
  <2>7. CASE Clean(r)
    <3>1. /\ UNCHANGED <<tmp, littered>>
          /\ tmp[req[r].name] # None => req'[r].pc = "unlink"
      BY <2>7, NextPlace DEF Clean
    <3> QED
      BY <1>0, <2>0, <3>1 DEF Owns, Tends
  <2>8. CASE Unlink(r)
    BY <1>0, <2>8 DEF Unlink, Owns, Tends
  <2> QED
    BY <1>2, <2>1, <2>2, <2>3, <2>4, <2>5, <2>6, <2>7, <2>8 DEF Step
<1> QED
  BY <1>1, <1>2

LEMMA OwnedStep == Types /\ TempsOwned /\ [Next]_vars => TempsOwned'
<1> SUFFICES ASSUME Types, TempsOwned, [Next]_vars PROVE TempsOwned'
  OBVIOUS
<1>1. ASSUME NEW r \in Request, Arrive(r) \/ Step(r) \/ Close(r) PROVE TempsOwned'
  BY <1>1, StepTends DEF Tends, Owns, TempsOwned
<1>2. CASE Restart
  BY <1>2 DEF Restart, TempsOwned
<1>3. CASE Same
  BY <1>3 DEF Same, TempsOwned
<1> QED
  BY <1>1, <1>2, <1>3, NextSteps

\* However many requests write to the temporary file of a name, and whatever
\* fails: it is in the hands of one that will rename or remove it, or it was left
\* behind by a rename or an unlink that failed or by a server that stopped.
THEOREM TempsTended == Spec => []TempsOwned
<1>1. Init => TempsOwned
  BY DEF Init, TempsOwned
<1> QED
  BY <1>1, OwnedStep, TypesAlways, PTL DEF Spec

-----------------------------------------------------------------------------
(* The same downloads: the two ends of a swarm. *)

\* What is sent of the beginning of a content answers a range.
LEMMA WholePart ==
  ASSUME NEW h \in Hash, NEW p \in Places, NEW range \in Asks, range # Whole
  PROVE  AnswersRange(Reply(range, Begun(h, p)), Asked(range, p))
<1> DEFINE parsed == ParseRange(range, p)
           asked == Asked(range, p)
<1>0. PICK file : file = Begun(h, p)
  OBVIOUS
<1>1. file \in Contents /\ Len(file) = p /\ \A i \in 1 .. p : file[i] = <<h, i>>
  BY <1>0, BegunFacts DEF Begun
<1>2. PICK a \in Nat, b \in Int : range = <<"slice", a, b>>
  BY AskFacts
<1>3. p \in Nat
  BY ConstantsAssumption DEF Places
<1>4. Exact(range, p)
  BY <1>2, <1>3, ParsedIsAsked
<1>5. CASE asked = {}
  <2>1. Reply(range, file) = Code("416")
    BY <1>1, <1>4, <1>5 DEF Exact, Reply
  <2> QED
    BY <1>0, <1>5, <2>1 DEF AnswersRange
<1>6. CASE asked # {}
  <2>1. parsed # Unsatisfiable /\ Positions(parsed) = asked
    BY <1>4, <1>6 DEF Exact
  <2>2. PICK l \in 1 .. p : parsed = <<a, l - 1>> /\ a < l
    <3>1. parsed = SliceRange(a, b, p)
      BY <1>2 DEF ParseRange
    <3>2. a <= b /\ a < p /\ parsed = <<a, Least(b, p - 1)>>
      BY <1>2, <1>3, <2>1, <3>1 DEF SliceRange
    <3>3. PICK l \in 1 .. p : l = Least(b, p - 1) + 1 /\ a < l
      BY <1>2, <1>3, <3>2 DEF Least
    <3>4. Least(b, p - 1) = l - 1
      BY <1>2, <1>3, <3>3 DEF Least
    <3> QED
      BY <3>2, <3>3, <3>4
  <2>3. asked = a .. l - 1
    BY <2>1, <2>2 DEF Positions
  <2>4. PICK k \in Nat : k = l - a
    BY <1>2, <1>3, <2>2
  <2>5. Cardinality(asked) = k /\ a \in asked /\ asked = a .. a + k - 1
    BY <1>2, <1>3, <2>2, <2>3, <2>4, FS_Interval
  <2>6. ServedPart(range, file) = SubSeq(file, a + 1, l)
    <3>1. ServedPart(range, file) = IF parsed = Unsatisfiable THEN <<>>
                                    ELSE SubSeq(file, parsed[1] + 1, parsed[2] + 1)
      BY <1>1 DEF ServedPart
    <3>2. parsed[1] + 1 = a + 1 /\ parsed[2] + 1 = l
      BY <1>3, <2>2
    <3> HIDE DEF parsed
    <3> QED
      BY <2>1, <3>1, <3>2
  <2>7. SubSeq(file, a + 1, l) = [i \in 1 .. k |-> <<h, a + i>>]
    <3>1. PICK part : part = SubSeq(file, a + 1, l)
      OBVIOUS
    <3>2. part \in Seq(Chunk) /\ Len(part) = k /\ \A i \in 1 .. k : part[i] = file[i + a]
      BY <1>1, <1>2, <1>3, <2>2, <2>4, <3>1 DEF Contents
    <3>3. \A i \in 1 .. k : file[i + a] = <<h, a + i>>
      BY <1>1, <1>2, <1>3, <2>2, <2>4
    <3>4. part = [i \in 1 .. k |-> part[i]]
      BY <2>4, <3>2
    <3> QED
      BY <3>1, <3>2, <3>3, <3>4
  <2>8. Reply(range, file) = Code("206") \o [i \in 1 .. Cardinality(asked) |-> <<h, a + i>>]
    BY <1>1, <2>1, <2>5, <2>6, <2>7 DEF Reply
  <2> HIDE DEF asked
  <2>9. AnswersRange(Reply(range, file), asked)
    BY <1>6, <2>5, <2>8 DEF AnswersRange
  <2> QED
    BY <1>0, <2>9 DEF asked
<1> QED
  BY <1>5, <1>6

LEMMA PartStep ==
  ASSUME Types, PublishedIntact, [Next]_vars, NEW r \in Request,
         req[r].pc = "serve", req'[r].pc = "done",
         req[r].range # Whole, final[req[r].name] # None
  PROVE  AnswersRange(req'[r].sent, Asked(req[r].range, Len(disk[final[req[r].name]])))
<1>1. /\ req[r] \in Records /\ Form(req[r]) /\ req \in [Request -> Records]
  BY DEF Types
<1>2. req[r].sent = <<>> /\ req[r].name \in Name /\ req[r].range \in Asks
  BY <1>1 DEF Form, Records
<1>3. Serve(r)
  BY OnlyServes DEF Blank
<1>4. PICK h \in Hash, p \in Places : disk[final[req[r].name]] = Begun(h, p)
  BY <1>2 DEF PublishedIntact, Places
<1>5. PICK what : what = Reply(req[r].range, Begun(h, p))
  OBVIOUS
<1>6. Done(r, what)
  BY <1>3, <1>4, <1>5 DEF Serve
<1>7. what \in Replies
  BY <1>2, <1>5, BegunFacts, ReplyType
<1>8. req'[r].sent = what
  <2>1. req'[r].sent = <<>> \o what
    BY <1>1, <1>2, <1>6 DEF Done, Ended, Blank
  <2> QED
    BY <1>7, <2>1 DEF Replies
<1>9. Len(disk[final[req[r].name]]) = p
  BY <1>4, BegunFacts
<1> QED
  BY <1>2, <1>5, <1>8, <1>9, WholePart

\* Under the same conditions the chunks a node sends for a range are the ones, and
\* in the order, that the range asks for, of one content; or the range lies behind
\* the end of the file, and the node says so.
THEOREM PartIsServed == Serial => (Spec => PartServed)
<1> SUFFICES ASSUME Serial PROVE Spec => PartServed
  OBVIOUS
<1>1. Types /\ PublishedIntact /\ [Next]_vars =>
        [\A r \in Request :
           /\ req[r].pc = "serve" /\ req'[r].pc = "done"
           /\ req[r].range # Whole /\ final[req[r].name] # None
           => AnswersRange(req'[r].sent,
                           Asked(req[r].range, Len(disk[final[req[r].name]])))]_vars
  BY PartStep
<1> QED
  BY <1>1, TypesAlways, IntactPackages, PTL DEF Spec, PartServed

\* The ranges a swarm asks for cover the package whatever its size, so those
\* that the runs try do.
THEOREM SwarmCovers == Spec => []RangesCover
<1>1. CoversTried
  BY SwarmRangesCover DEF CoversTried, Divisible
<1>2. RangesCover
  BY <1>1 DEF RangesCover
<1> QED
  BY <1>2, PTL

\* A range is parsed as the bytes it asks for whatever the size of the file, so
\* those that the runs try are.
THEOREM RangesParsed == Spec => []ParseExact
<1>1. ExactTried
  <2>1. Headers(MaxFile + 1) \subseteq {"slice", "from", "suffix"} \X Nat \X Int
    BY DEF Headers, MaxFile
  <2> QED
    BY <2>1, ParsedIsAsked DEF ExactTried
<1>2. ParseExact
  BY <1>1 DEF ParseExact
<1> QED
  BY <1>2, PTL

-----------------------------------------------------------------------------
(* The same downloads implement PackageStore: a rename publishes, the      *)
(* rejection of a corrupt copy and the evictions of a registration remove, *)
(* and any other step leaves what is stored and revises the claims.        *)

LEMMA StillStored == Still /\ UNCHANGED doubted => Stored' = Stored
BY DEF Still, Stored

LEMMA Revising ==
  ASSUME Still, UNCHANGED doubted, NEW new \in SUBSET Store!Contents,
         Claims' \subseteq Claims \cup new
  PROVE  Store!Revise
BY StillStored DEF Store!Revise

LEMMA LookupRevises ==
  ASSUME Types, PublishedIntact, NEW r \in Request, Lookup(r)
  PROVE  Store!Revise
<1>1. PICK n : n = req[r].name
  OBVIOUS
<1>2. n \in Name /\ Still /\ UNCHANGED doubted
  BY <1>1 DEF Types, Form, Lookup, Still
<1>3. CASE Claims' \subseteq Claims
  BY <1>2, <1>3, Revising
<1>4. CASE final[n] # None /\ index' \subseteq index \cup {<<disk[final[n]], n>>}
           /\ n \notin doubted
  <2>1. disk[final[n]] \in Packages /\ Stored[n] = disk[final[n]]
    BY <1>2, <1>4 DEF PublishedIntact, Packages, Stored
  <2>2. <<disk[final[n]], n>> \in Store!Contents
    BY <1>2, <2>1 DEF Store!Contents
  <2>3. Claims' \subseteq Claims \cup {<<disk[final[n]], n>>}
    BY <1>2, <1>4 DEF Claims
  <2> QED
    BY <1>2, <2>2, <2>3, Revising
<1>5. \/ index' \subseteq index
      \/ final[n] # None /\ index' \subseteq index \cup {<<disk[final[n]], n>>}
  BY <1>1 DEF Lookup
<1>6. (index' \subseteq index \/ n \in doubted) => Claims' \subseteq Claims
  BY <1>2, <1>5 DEF Claims
<1> QED
  BY <1>3, <1>4, <1>5, <1>6

\* A name that comes into doubt leaves the store, as one that is removed does.
LEMMA UnlinkCorruptRemoves ==
  ASSUME Types, NEW r \in Request, UnlinkCorrupt(r)
  PROVE  \E names \in SUBSET Name : Store!Remove(names)
<1>1. PICK n : n = req[r].name
  OBVIOUS
<1>2. /\ n \in Name /\ UNCHANGED <<disk, index>> /\ final \in [Name -> Inodes]
      /\ \/ UNCHANGED doubted /\ final' = [final EXCEPT ![n] = None]
         \/ UNCHANGED <<doubted, final>> /\ final[n] = None
         \/ UNCHANGED final /\ doubted' = doubted \cup {n}
  BY <1>1 DEF Types, Form, UnlinkCorrupt
<1>3. Stored' = [m \in Name |-> IF m \in {n} THEN None ELSE Stored[m]]
  BY <1>2 DEF Stored
<1>4. Claims' \subseteq Claims
  BY <1>2 DEF Claims
<1> QED
  BY <1>2, <1>3, <1>4 DEF Store!Remove

\* The name was free, and nothing was claimed of it; or it is in doubt.
LEMMA RenamePublishes ==
  ASSUME Types, Alone, Files, Indexed, NEW r \in Request, Moves(r)
  PROVE  UNCHANGED <<Stored, Claims>> \/ \E n \in Name, h \in Packages : Store!Publish(n, h)
<1>1. PICK n, h : n = req[r].name /\ h = Begun(req[r].src, req[r].pos)
  OBVIOUS
<1>2. /\ n \in Name /\ req[r].src \in Hash /\ Local(r) /\ req[r].pc = "rename"
      /\ tmp[n] # None /\ disk[tmp[n]] = h /\ req[r].pos \in 0 .. Chunks
  BY <1>1 DEF Types, Form, Moves, Rename, Local, Files, Renaming, Records, Places
<1>3. h \in Packages
  BY <1>1, <1>2 DEF Packages
<1>4. /\ final' = [final EXCEPT ![n] = tmp[n]] /\ UNCHANGED <<disk, index, doubted>>
      /\ final \in [Name -> Inodes]
  BY <1>1, <1>2, RenamePlaces DEF Moves, Rename, Types
<1>5. UNCHANGED Claims
  BY <1>4 DEF Claims
<1>6. CASE n \in doubted
  <2>1. Stored' = Stored
    BY <1>2, <1>4, <1>6 DEF Stored
  <2> QED
    BY <1>5, <2>1
<1>7. CASE n \notin doubted
  <2>1. final[n] = None /\ \A c \in Claims : c[2] # n
    BY <1>1, <1>2, <1>7 DEF Indexed, Absent, Missing, Claims
  <2>2. Stored[n] = None /\ Stored' = [Stored EXCEPT ![n] = h]
    BY <1>2, <1>4, <1>7, <2>1 DEF Stored
  <2> QED
    BY <1>2, <1>3, <1>5, <2>1, <2>2 DEF Store!Publish
<1> QED
  BY <1>6, <1>7

\* What is registered is there, or is evicted at once and not claimed.
LEMMA RegisterRemoves ==
  ASSUME Types, Indexed, PublishedIntact, NEW r \in Request, Register(r)
  PROVE  Store!Revise \/ \E names \in SUBSET Name : Store!Remove(names)
<1>1. PICK n, h : n = req[r].name
                  /\ h = IF req[r].target # None THEN Full(req[r].target)
                         ELSE Begun(req[r].src, req[r].pos)
  OBVIOUS
<1>2. /\ n \in Name /\ req[r].pc = "register" /\ UNCHANGED <<disk, doubted>>
      /\ final \in [Name -> Inodes]
      /\ (req[r].target # None => req[r].target = req[r].src /\ req[r].pos = Chunks)
  BY <1>1 DEF Register, Types, Form
<1>3. CASE UNCHANGED <<final, index>>
  <2>1. Claims' = Claims
    BY <1>2, <1>3 DEF Claims
  <2> QED
    BY <1>2, <1>3, <2>1, Revising DEF Still
<1>4. CASE final[n] # None /\ ~UNCHANGED <<final, index>>
  <2>1. PICK entries : entries = {e \in index : e[1] # h /\ final[e[2]] # None} \cup {<<h, n>>}
    OBVIOUS
  <2>2. PICK out \in SUBSET entries :
          /\ index' = entries \ out
          /\ final' = [m \in Name |-> IF \E e \in out : e[2] = m THEN None ELSE final[m]]
    BY <1>1, <1>4, <2>1 DEF Register
  <2> DEFINE names == {m \in Name : \E e \in out : e[2] = m}
  <2>3. Stored' = [m \in Name |-> IF m \in names THEN None ELSE Stored[m]]
    BY <1>2, <2>2 DEF Stored
  <2>4. disk[final[n]] = h
    BY <1>1, <1>2, <1>4 DEF Indexed, Registering, Full
  <2>5. h \in Packages
    BY <1>2, <1>4, <2>4 DEF PublishedIntact, Packages
  <2>6. ASSUME <<h, n>> \in Claims' PROVE <<h, n>> \in Store!Contents'
    <3>0. <<h, n>> \in index' /\ n \notin doubted
      BY <1>2, <2>6 DEF Claims
    <3>1. ASSUME NEW f \in out, f[2] = n PROVE FALSE
      <4>1. f \in index /\ f[1] # h
        BY <2>1, <2>2, <3>0, <3>1
      <4> QED
        BY <1>4, <2>4, <3>0, <3>1, <4>1 DEF Indexed, CachedTruth
    <3>2. final'[n] = final[n]
      BY <1>2, <2>2, <3>1
    <3>3. Stored'[n] = h
      BY <1>2, <1>4, <2>4, <3>0, <3>2 DEF Stored
    <3> QED
      BY <1>2, <2>5, <3>3 DEF Store!Contents
  <2>7. Claims' \subseteq Claims \cup {<<h, n>>}
    BY <1>2, <2>1, <2>2 DEF Claims
  <2>8. Claims' \in SUBSET (Claims \cup Store!Contents')
    BY <2>6, <2>7
  <2> QED
    BY <2>3, <2>8 DEF Store!Remove
<1> QED
  BY <1>1, <1>3, <1>4 DEF Register

LEMMA StoreInit == Init => Store!Init
BY DEF Init, Store!Init, Stored, Claims

LEMMA StoreNext == Types /\ Download /\ Indexed /\ [Next]_vars => [Store!Next]_<<Stored, Claims>>
<1> SUFFICES ASSUME Types, Download, Indexed, [Next]_vars
             PROVE  [Store!Next]_<<Stored, Claims>>
  OBVIOUS
<1>0. Alone /\ Files /\ PublishedIntact
  BY DEF Download, Files
<1>1. ASSUME NEW r \in Request, Arrive(r) \/ Step(r) \/ Close(r) PROVE [Store!Next]_<<Stored, Claims>>
  <2>1. CASE Plain(r)
    BY <2>1, Revising DEF Plain, Claims, Store!Next
  <2>2. CASE Lookup(r)
    BY <1>0, <2>2, LookupRevises DEF Store!Next
  <2>3. CASE UnlinkCorrupt(r)
    BY <2>3, UnlinkCorruptRemoves DEF Store!Next
  <2>4. CASE ForgetCorrupt(r)
    BY <2>4, Revising DEF ForgetCorrupt, Still, Claims, Store!Next
  <2>5. CASE Moves(r)
    BY <1>0, <2>5, RenamePublishes DEF Store!Next
  <2>6. CASE Register(r)
    BY <1>0, <2>6, RegisterRemoves DEF Store!Next
  <2> QED
    BY <1>0, <1>1, <2>1, <2>2, <2>3, <2>4, <2>5, <2>6, PlainSteps
<1>2. CASE Restart
  BY <1>2, Revising DEF Restart, Still, Claims, Store!Next
<1>3. CASE Same
  BY <1>3, StillStored DEF Same, Still, Claims
<1> QED
  BY <1>1, <1>2, <1>3, NextSteps

\* Where one local request at a time downloads a name and no write fails, the
\* writes in place, the renames that work or fail, the lookups and the restarts of
\* any number of requests are those of a store of files, which no reader ever sees
\* change under its name and of which the index claims only what is true.  A name
\* leaves this store when a corrupt copy of it cannot be removed.
THEOREM TransferImplementsStore == Serial => (Spec => StoreSpec)
<1> SUFFICES ASSUME Serial PROVE Spec => StoreSpec
  OBVIOUS
<1>1. Spec => [](Types /\ Download /\ Indexed)
  BY IndexedInit, IndexedStep, TypesAlways, DownloadAlways, PTL DEF Spec
<1> QED
  BY <1>1, StoreInit, StoreNext, PTL DEF Spec, StoreSpec, Store!Spec
=============================================================================

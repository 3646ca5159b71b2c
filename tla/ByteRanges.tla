----------------------------- MODULE ByteRanges -----------------------------
(***************************************************************************)
(* The arithmetic of partial downloads: how _download_swarm divides a      *)
(* package into ranges, and what _parse_range_header makes of a range at   *)
(* the peer that serves it (p2p_server.py).  Positions count from 0 and    *)
(* both ends of a range are included, as in the Range header.              *)
(*                                                                         *)
(* A header is <<"slice", first, last>> for bytes=first-last,              *)
(* <<"from", first, 0>> for bytes=first- and <<"suffix", 0, length>> for   *)
(* bytes=-length.  A malformed header has no value, and is not modelled.   *)
(***************************************************************************)
EXTENDS Integers, Sequences

Least(a, b) == IF a <= b THEN a ELSE b
Greatest(a, b) == IF a >= b THEN a ELSE b

\* MUTANT: the division rounds down.
RoundedDown(n, size) == size \div n

\* ceil(size / n)
ChunkSize(n, size) == (size + n - 1) \div n

\* The ranges that a package of that size is divided into.
SwarmRanges(n, size) ==
  [i \in 1 .. n |-> <<(i - 1) * ChunkSize(n, size),
                      Least(size - 1, i * ChunkSize(n, size) - 1)>>]

\* A reply of 416.
Unsatisfiable == <<>>

SuffixRange(length, size) ==
  IF length <= 0 \/ size = 0 THEN Unsatisfiable
  ELSE <<Greatest(0, size - length), size - 1>>

FromRange(first, size) ==
  IF first < 0 \/ first >= size THEN Unsatisfiable ELSE <<first, size - 1>>

SliceRange(first, last, size) ==
  IF first < 0 \/ first > last \/ first >= size THEN Unsatisfiable
  ELSE <<first, Least(last, size - 1)>>

\* MUTANT: a suffix that is longer than the file is not cut.
ParseUncut(header, size) ==
  IF header[1] = "suffix" /\ header[3] > 0 /\ size > 0 THEN <<size - header[3], size - 1>>
  ELSE IF header[1] = "from" THEN FromRange(header[2], size)
  ELSE SliceRange(header[2], header[3], size)

\* _parse_range_header
ParseRange(header, size) ==
  IF header[1] = "suffix" THEN SuffixRange(header[3], size)
  ELSE IF header[1] = "from" THEN FromRange(header[2], size)
  ELSE SliceRange(header[2], header[3], size)

\* MUTANT: the file is not read from the first byte of the range.
ServedUnsought(header, file) ==
  LET range == ParseRange(header, Len(file))
  IN  IF range = Unsatisfiable THEN <<>> ELSE SubSeq(file, 1, range[2] - range[1] + 1)

\* The bytes that _serve_file sends of a file, a sequence.
ServedPart(header, file) ==
  LET range == ParseRange(header, Len(file))
  IN  IF range = Unsatisfiable THEN <<>> ELSE SubSeq(file, range[1] + 1, range[2] + 1)

-----------------------------------------------------------------------------
(* Properties *)

Positions(range) == IF range = Unsatisfiable THEN {} ELSE range[1] .. range[2]

\* The bytes of a file of that size which a header asks for.
Asked(header, size) ==
  {p \in 0 .. size - 1 :
     CASE header[1] = "suffix" -> p >= size - header[3]
       [] header[1] = "from"   -> p >= header[2]
       [] OTHER                -> header[2] <= p /\ p <= header[3]}

Exact(header, size) ==
  /\ Positions(ParseRange(header, size)) = Asked(header, size)
  /\ ParseRange(header, size) = Unsatisfiable <=> Asked(header, size) = {}

\* What a peer sends of a file is the range from first to last of it.
IsPart(part, file, first, last) ==
  /\ Len(part) = last - first + 1
  /\ \A p \in first .. last : part[p - first + 1] = file[p + 1]

\* The ranges are not empty, they follow each other, and the first begins and
\* the last ends with the file.
Covers(n, size) ==
  LET r == SwarmRanges(n, size) IN
  /\ r[1][1] = 0 /\ r[n][2] = size - 1
  /\ \A i \in 1 .. n : r[i][1] <= r[i][2]
  /\ \A i \in 1 .. n - 1 : r[i + 1][1] = r[i][2] + 1

\* The smallest package that is sure to be divided well, whatever the number
\* of peers; swarm_threshold is far above.
Divisible == 10

Headers(max) == ({"slice"} \X (0 .. max) \X (-1 .. max))
  \cup ({"from"} \X (0 .. max) \X {0}) \cup ({"suffix"} \X {0} \X (-1 .. max))

\* The bounds of what TLC tries; ByteRangesProofs has all sizes.
MaxSwarm == 50
MaxFile == 6

\* Covers and Exact within these bounds.
CoversTried == \A size \in Divisible .. MaxSwarm, n \in 2 .. 4 : Covers(n, size)

ExactTried ==
  \A size \in 0 .. MaxFile, header \in Headers(MaxFile + 1) : Exact(header, size)
=============================================================================

-------------------------- MODULE ByteRangesProofs --------------------------
(***************************************************************************)
(* The arithmetic of ranges for files and packages of every size.  What    *)
(* TLC tries up to MaxSwarm and MaxFile is proved here without a bound:    *)
(* the number of ranges is 2, 3 or 4, so each division is by a numeral and *)
(* the rest is linear.                                                     *)
(***************************************************************************)
EXTENDS ByteRanges, TLAPS

\* What a division by a small number leaves.
LEMMA ChunkFacts ==
  ASSUME NEW n \in 2 .. 4, NEW size \in Nat, size >= Divisible
  PROVE  /\ ChunkSize(n, size) \in Nat
         /\ n * ChunkSize(n, size) >= size
         /\ (n - 1) * ChunkSize(n, size) < size
<1>1. CASE n = 2
  BY <1>1 DEF ChunkSize, Divisible
<1>2. CASE n = 3
  BY <1>2 DEF ChunkSize, Divisible
<1>3. CASE n = 4
  BY <1>3 DEF ChunkSize, Divisible
<1> QED
  BY <1>1, <1>2, <1>3

\* The ranges that _download_swarm asks two to four peers for are not empty and
\* cover each byte of the package exactly once, for every size from ten bytes.
THEOREM SwarmRangesCover ==
  ASSUME NEW n \in 2 .. 4, NEW size \in Nat, size >= Divisible
  PROVE  Covers(n, size)
<1> DEFINE c == ChunkSize(n, size)
           r == SwarmRanges(n, size)
<1>1. c \in Nat /\ n * c >= size /\ (n - 1) * c < size
  BY ChunkFacts
<1>2. \A i \in 1 .. n : r[i][1] = (i - 1) * c /\ r[i][2] = Least(size - 1, i * c - 1)
  BY DEF SwarmRanges
<1> HIDE DEF c, r
<1>3. CASE n = 2
  <2>1. r[1] [1] = 0 /\ r[1][2] = c - 1 /\ r[2][1] = c /\ r[2][2] = size - 1
    BY <1>1, <1>2, <1>3 DEF Least
  <2>2. \A i \in 1 .. 2 : r[i][1] <= r[i][2]
    BY <1>1, <1>3, <2>1, size >= 10 DEF Divisible
  <2>3. \A i \in 1 .. 1 : r[i + 1][1] = r[i][2] + 1
    BY <1>1, <2>1
  <2> QED
    BY <1>3, <2>1, <2>2, <2>3 DEF Covers, r
<1>4. CASE n = 3
  <2>1. /\ r[1] [1] = 0 /\ r[1][2] = c - 1 /\ r[2][1] = c /\ r[2][2] = 2 * c - 1
        /\ r[3][1] = 2 * c /\ r[3][2] = size - 1
    BY <1>1, <1>2, <1>4 DEF Least
  <2>2. \A i \in 1 .. 3 : r[i][1] <= r[i][2]
    BY <1>1, <1>4, <2>1, size >= 10 DEF Divisible
  <2>3. \A i \in 1 .. 2 : r[i + 1][1] = r[i][2] + 1
    BY <1>1, <2>1
  <2> QED
    BY <1>4, <2>1, <2>2, <2>3 DEF Covers, r
<1>5. CASE n = 4
  <2>1. /\ r[1] [1] = 0 /\ r[1][2] = c - 1 /\ r[2][1] = c /\ r[2][2] = 2 * c - 1
        /\ r[3][1] = 2 * c /\ r[3][2] = 3 * c - 1 /\ r[4][1] = 3 * c /\ r[4][2] = size - 1
    BY <1>1, <1>2, <1>5 DEF Least
  <2>2. \A i \in 1 .. 4 : r[i][1] <= r[i][2]
    BY <1>1, <1>5, <2>1, size >= 10 DEF Divisible
  <2>3. \A i \in 1 .. 3 : r[i + 1][1] = r[i][2] + 1
    BY <1>1, <2>1
  <2> QED
    BY <1>5, <2>1, <2>2, <2>3 DEF Covers, r
<1> QED
  BY <1>3, <1>4, <1>5

\* What a range stands for.
LEMMA PositionsFacts ==
  /\ Positions(Unsatisfiable) = {}
  /\ \A x, y \in Int : <<x, y>> # Unsatisfiable /\ Positions(<<x, y>>) = x .. y
<1>1. \A x, y \in Int : <<x, y>> # <<>>
  OBVIOUS
<1> QED
  BY <1>1 DEF Positions, Unsatisfiable

\* For every file and every well-formed header a peer sends exactly the bytes
\* that the header asks for, and 416 when it asks for none.
THEOREM ParsedIsAsked ==
  ASSUME NEW size \in Nat, NEW h \in {"slice", "from", "suffix"} \X Nat \X Int
  PROVE  Exact(h, size)
<1> DEFINE form == h[1]
           a == h[2]
           b == h[3]
<1>0. form \in {"slice", "from", "suffix"} /\ a \in Nat /\ b \in Int
  OBVIOUS
<1>1. CASE form = "suffix"
  <2>1. ParseRange(h, size) = SuffixRange(b, size)
    BY <1>0, <1>1 DEF ParseRange
  <2>2. Asked(h, size) = {p \in 0 .. size - 1 : p >= size - b}
    BY <1>0, <1>1 DEF Asked
  <2>3. CASE b <= 0 \/ size = 0
    <3>1. Asked(h, size) = {}
      BY <2>2, <2>3
    <3>2. ParseRange(h, size) = Unsatisfiable
      BY <2>1, <2>3 DEF SuffixRange
    <3> QED
      BY <3>1, <3>2, PositionsFacts DEF Exact
  <2>4. CASE b > 0 /\ size > 0
    <3> DEFINE first == Greatest(0, size - b)
    <3>1. /\ first \in 0 .. size - 1 /\ first >= size - b
          /\ \A p \in 0 .. size - 1 : p >= size - b <=> p >= first
      BY <2>4 DEF Greatest
    <3>2. ParseRange(h, size) = <<first, size - 1>>
      BY <2>1, <2>4 DEF SuffixRange
    <3> HIDE DEF first
    <3>3. Asked(h, size) = first .. size - 1
      BY <2>2, <3>1
    <3> QED
      BY <1>0, <3>1, <3>2, <3>3, PositionsFacts DEF Exact
  <2> QED
    BY <2>3, <2>4
<1>2. CASE form = "from"
  <2>1. ParseRange(h, size) = FromRange(a, size)
    BY <1>0, <1>2 DEF ParseRange
  <2>2. Asked(h, size) = {p \in 0 .. size - 1 : p >= a}
    BY <1>0, <1>2 DEF Asked
  <2>3. CASE a >= size
    <3>1. Asked(h, size) = {}
      BY <2>2, <2>3
    <3>2. ParseRange(h, size) = Unsatisfiable
      BY <2>1, <2>3 DEF FromRange
    <3> QED
      BY <3>1, <3>2, PositionsFacts DEF Exact
  <2>4. CASE a < size
    <3>1. ParseRange(h, size) = <<a, size - 1>>
      BY <2>1, <2>4 DEF FromRange
    <3>2. Asked(h, size) = a .. size - 1 /\ a \in a .. size - 1
      BY <2>2, <2>4
    <3> QED
      BY <3>1, <3>2, PositionsFacts DEF Exact
  <2> QED
    BY <2>3, <2>4
<1>3. CASE form = "slice"
  <2>1. ParseRange(h, size) = SliceRange(a, b, size)
    BY <1>0, <1>3 DEF ParseRange
  <2>2. Asked(h, size) = {p \in 0 .. size - 1 : a <= p /\ p <= b}
    BY <1>0, <1>3 DEF Asked
  <2>3. CASE a > b \/ a >= size
    <3>1. Asked(h, size) = {}
      BY <2>2, <2>3
    <3>2. ParseRange(h, size) = Unsatisfiable
      BY <2>1, <2>3 DEF SliceRange
    <3> QED
      BY <3>1, <3>2, PositionsFacts DEF Exact
  <2>4. CASE a <= b /\ a < size
    <3>1. ParseRange(h, size) = <<a, Least(b, size - 1)>>
      BY <2>1, <2>4 DEF SliceRange
    <3>2. Least(b, size - 1) \in a .. size - 1 /\ Least(b, size - 1) <= b
      BY <2>4 DEF Least
    <3>3. \A p \in 0 .. size - 1 : p <= b <=> p <= Least(b, size - 1)
      BY DEF Least
    <3>4. Asked(h, size) = a .. Least(b, size - 1) /\ a \in a .. Least(b, size - 1)
      BY <2>2, <2>4, <3>2, <3>3
    <3> QED
      BY <1>0, <3>1, <3>2, <3>4, PositionsFacts DEF Exact
  <2> QED
    BY <2>3, <2>4
<1> QED
  BY <1>0, <1>1, <1>2, <1>3

\* The two ends fit together: a peer that has the whole package answers the
\* range it is asked for with as many bytes as the swarm expects, and they are
\* the bytes of the package at these positions.
THEOREM SwarmPartsFit ==
  ASSUME NEW n \in 2 .. 4, NEW B, NEW file \in Seq(B), Len(file) >= Divisible,
         NEW i \in 1 .. n, NEW r, r = SwarmRanges(n, Len(file))[i]
  PROVE  IsPart(ServedPart(<<"slice", r[1], r[2]>>, file), file, r[1], r[2])
<1> DEFINE size == Len(file)
           c == ChunkSize(n, size)
           first == r[1]
           last == r[2]
           h == <<"slice", first, last>>
<1>1. size \in Nat /\ size >= Divisible
  OBVIOUS
<1>2. c \in Nat /\ Covers(n, size)
  BY <1>1, ChunkFacts, SwarmRangesCover
<1>3. first = (i - 1) * c /\ last = Least(size - 1, i * c - 1)
  BY DEF SwarmRanges
<1>4. first <= last
  BY <1>2 DEF Covers
<1>5. first \in Nat /\ last \in Int /\ last <= size - 1
  <2>1. (i - 1) * c \in Nat /\ i * c \in Nat
    BY <1>2
  <2> QED
    BY <1>1, <1>3, <2>1 DEF Least
<1>6. h[1] = "slice" /\ h[2] = first /\ h[3] = last
  OBVIOUS
<1> HIDE DEF first, last, h
<1>7. ParseRange(h, size) = <<first, last>>
  BY <1>1, <1>4, <1>5, <1>6 DEF ParseRange, SliceRange, Least
<1>8. ServedPart(h, file) = SubSeq(file, first + 1, last + 1)
  <2> DEFINE range == ParseRange(h, Len(file))
  <2>1. range # Unsatisfiable /\ range[1] = first /\ range[2] = last
    BY <1>5, <1>7, PositionsFacts
  <2>2. ServedPart(h, file) = IF range = Unsatisfiable THEN <<>>
                              ELSE SubSeq(file, range[1] + 1, range[2] + 1)
    BY DEF ServedPart
  <2> HIDE DEF range
  <2> QED
    BY <2>1, <2>2
<1>9. Len(SubSeq(file, first + 1, last + 1)) = last - first + 1
  BY <1>4, <1>5
<1>10. \A p \in first .. last : SubSeq(file, first + 1, last + 1)[p - first + 1] = file[p + 1]
  BY <1>4, <1>5
<1>11. IsPart(SubSeq(file, first + 1, last + 1), file, first, last)
  BY <1>9, <1>10 DEF IsPart
<1> QED
  BY <1>8, <1>11 DEF h, first, last
=============================================================================

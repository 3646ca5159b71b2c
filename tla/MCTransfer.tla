----------------------------- MODULE MCTransfer -----------------------------
(* The small instances of Transfer that TLC checks. *)
EXTENDS Transfer

CONSTANTS a,        \* a package name
          h1, h2,   \* contents
          r1, r2    \* connections

\* The inode of the final file, that of an open file, and one to make.
MCInode == 1 .. 3

\* One mishap at a time; with a name in doubt, one request at a time, and no
\* more than two entries.
OneMishap ==
  doubted # {} =>
    /\ littered = {} /\ Cardinality(index) <= 2
    /\ \E r \in Request : \A q \in Request \ {r} : req[q].pc = "idle"

\* No step depends on what has been sent, and some properties do not either.
Unsent ==
  <<disk, tmp, final, index, noted, [r \in Request |-> [req[r] EXCEPT !.sent = <<>>]]>>

\* Connections are alike, and so are contents; for runs without liveness.
Alike == Permutations({r1, r2}) \cup Permutations({h1, h2})
=============================================================================

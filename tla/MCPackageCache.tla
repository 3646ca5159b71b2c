--------------------------- MODULE MCPackageCache ---------------------------
(* The small instances of PackageCache that TLC checks. *)
EXTENDS PackageCache, TLC

CONSTANTS a, b,     \* package names
          h1, h2,   \* contents
          w1, w2    \* request threads

\* With a limit of 2 bytes, one package fits and two may not.
MCSize2 == h1 :> 1 @@ h2 :> 2

\* The bound on faults: one name comes into doubt (nothing is promised of it
\* any more, and the names are interchangeable), and no save fails after that.
OneDoubt == doubted \subseteq {a} /\ (stale => doubted = {})
=============================================================================

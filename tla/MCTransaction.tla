--------------------------- MODULE MCTransaction ---------------------------
(* The small instance of Transaction that TLC checks. *)
EXTENDS Transaction

CONSTANTS d1, d2,   \* dnf processes
          a,        \* a package name
          h1, h2    \* contents
=============================================================================

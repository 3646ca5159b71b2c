---------------------------- MODULE MCMigration ----------------------------
(* The small instance of Migration that TLC checks. *)
EXTENDS Migration

CONSTANTS a, b,    \* package names
          h1, h2   \* contents

\* Crashes, copies that are cut and failures of the start in progress come one
\* with another, and the cut with a name of which the directories agree.
TwoMishaps ==
  /\ crashes + Cardinality(cut) + (IF smooth THEN 0 ELSE 1) <= 2
  /\ cut = {} \/ disputed = {}
=============================================================================

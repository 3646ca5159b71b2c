---------------------------- MODULE PackageStore ----------------------------
(***************************************************************************)
(* What the package cache promises to those who serve from it, without     *)
(* locks, requests, index files or evictions.                              *)
(*                                                                         *)
(* A name has one content or none.  The cache makes claims, "the file n    *)
(* has the content h", and a claim is all that stands between a hit        *)
(* and the bytes the client gets: do_GET compares the claim with the       *)
(* expected hash in place of the file.  So a content appears only under a  *)
(* free name of which nothing is claimed, it never changes until it is     *)
(* removed, and a new claim tells what is there.  PackageCache implements  *)
(* this with its index and its index file together as the claims: no crash *)
(* makes a claim either.  Transfer implements it with files that are       *)
(* written in place and renamed.                                           *)
(***************************************************************************)
CONSTANTS
  Name,   \* package file names
  Hash,   \* contents, each identified by its SHA-256
  None    \* no content

VARIABLES
  store,  \* the content under each name, or None
  claims  \* pairs of a content and a name

Init ==
  /\ store = [n \in Name |-> None]
  /\ claims = {}

\* What could be claimed now.
Contents == {c \in Hash \X Name : store[c[2]] = c[1]}

Publish(n, h) ==
  /\ store[n] = None
  /\ \A c \in claims : c[2] # n
  /\ store' = [store EXCEPT ![n] = h]
  /\ UNCHANGED claims

\* Files are removed, one that is corrupt or those that a pass evicts; a
\* registration evicts others for its file under the same lock, and claims it.
Remove(names) ==
  /\ store' = [n \in Name |-> IF n \in names THEN None ELSE store[n]]
  /\ claims' \in SUBSET (claims \cup Contents')

Revise ==
  /\ claims' \in SUBSET (claims \cup Contents)
  /\ UNCHANGED store

Next ==
  \/ \E n \in Name, h \in Hash : Publish(n, h)
  \/ \E names \in SUBSET Name : Remove(names)
  \/ Revise

Spec == Init /\ [][Next]_<<store, claims>>

\* What a hit relies on: a claim is true as long as the file is there.
ClaimsTrue == \A c \in claims : store[c[2]] \in {None, c[1]}
=============================================================================

--------------------------- MODULE MCMediaSearch ---------------------------
(* Instances of MediaSearch for TLC.                                       *)
EXTENDS MediaSearch, TLC

CONSTANTS r1, r2, r3, title, artist

MCRequests == {r1, r2, r3}
MCTargets == {title, artist}
\* Requests differ in nothing but when they are made.
Alike == Permutations(MCRequests)
=============================================================================

----------------------------- MODULE MCAppSync -----------------------------
(* Instances of AppSync for TLC.                                           *)
EXTENDS AppSyncProps, TLC

CONSTANTS x, y, z, samapps, audio, en, ko, builtin

\* Small enough to enumerate what memory may hold.
MCRankMax == 6
MCDbRanks == -1..RankMax
=============================================================================

------------------------------ MODULE MCBusApi ------------------------------
(* Instances of BusApi for TLC.                                            *)
EXTENDS BusApi

CONSTANTS x, samapps, audio, n1, r1, r2, title

\* Small enough to tell from 0 what a number that is no int leaves behind.
MCRankMax == 4
\* From what shifts may leave to past the end.
MCMemoryRanks == -1..MCRankMax + 1
=============================================================================

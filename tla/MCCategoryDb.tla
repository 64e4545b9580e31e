---------------------------- MODULE MCCategoryDb ----------------------------
(* Instances of CategoryDb for TLC.                                        *)
EXTENDS CategoryDbProps, TLC

CONSTANTS a, b, c, d, n1

MCIds == {a, b, c, d}
MCThreeIds == {a, b, c}
MCNames == {n1}
\* Below, at, inside, at the end of and far beyond every range there is.
MCRankInputs == {-1, 1, 2, 3, 4, 999}
MCRankMax == 999999
=============================================================================

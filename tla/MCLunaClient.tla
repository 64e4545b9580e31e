--------------------------- MODULE MCLunaClient ----------------------------
(* Instances of LunaClient for TLC.                                        *)
EXTENDS LunaClient, TLC

CONSTANTS t1, t2, t3, t4

MCTasks == {t1, t2, t3, t4}
\* Tasks differ in nothing but the calls they are used for.
Alike == Permutations(MCTasks)
=============================================================================

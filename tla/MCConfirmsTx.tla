---------------------------- MODULE MCConfirmsTx -----------------------------
(* Two tasks on one confirms publisher, for TLC.                            *)
EXTENDS ConfirmsTx

CONSTANTS t1, t2

TwoTasks == {t1, t2}
Symmetry == Permutations(TwoTasks)
=============================================================================

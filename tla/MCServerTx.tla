----------------------------- MODULE MCServerTx ------------------------------
(* One task using the handle as documented, or two that begin at once, for  *)
(* TLC.                                                                     *)
EXTENDS ServerTx, TLC

CONSTANTS t1, t2, m1, m2, m3

OneTask == {t1}
TwoTasks == {t1, t2}
OneMessage == {m1}
ThreeMessages == {m1, m2, m3}
None == {}
OneTooLarge == {m3}

Symmetry == Permutations({m1, m2})
=============================================================================

----------------------------- MODULE MCDescribe -----------------------------
(* Describe on small instances: two names, one relation more than names, lists  *)
(* of partitions on both sides of the limit.                                    *)
EXTENDS Describe, TLC

CONSTANTS n1, n2

Calls == {<<>>, <<n1>>, <<n1, n1>>, <<n1, n2>>, <<n1, n2, n1>>}

Symmetry == Permutations(Oids)
=============================================================================

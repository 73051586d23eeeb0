----------------------------- MODULE MCReports -----------------------------
(* Reports for TLC: an artist u with a content c, an administrator a.      *)
EXTENDS Reports, TLC

CONSTANTS u, a, c

MCUser    == {u, a}
MCOwner   == [x \in {c} |-> u]

(* The content reported by the administrator, the administrator by u.      *)
MCReport  == {[by |-> a, target |-> c], [by |-> u, target |-> a]}

RequestSymmetry == Permutations(Request)
=============================================================================

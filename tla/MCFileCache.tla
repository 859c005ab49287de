---------------------------- MODULE MCFileCache ----------------------------
(* Small instances of FileCache for TLC *)
EXTENDS FileCache, TLC

CONSTANTS p1, p2, p3, k1, k2, k3

TwoProcs   == {p1, p2}
ThreeProcs == {p1, p2, p3}
TwoKeys    == {k1, k2}
ThreeKeys  == {k1, k2, k3}
TwoNames   == TwoKeys \cup {Index}
ThreeNames == ThreeKeys \cup {Index}

(* processes and repos are interchangeable *)
Symmetry == Permutations(Procs) \cup Permutations(Keys)
=============================================================================

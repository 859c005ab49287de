---------------------------- MODULE MCResolution ----------------------------
(* Small instances of module Resolution *)
EXTENDS Resolution, TLC

EachItsOwn  == [r \in 1 .. MaxRepos |-> {r}]
Anything    == [r \in 1 .. MaxRepos |-> Nevras]
Symmetry == Permutations(RepoProcs)
=============================================================================

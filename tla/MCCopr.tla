------------------------------- MODULE MCCopr -------------------------------
(* Small instances of Copr for TLC *)
EXTENDS Copr

OneRequest  == {"r1"}
TwoRequests == {"r1", "r2"}
OnePackage  == {"p1"}
TwoPackages == {"p1", "p2"}
OneUser  == [r \in Requests |-> "user"]
TwoUsers == [r \in Requests |-> IF r = "r1" THEN "user" ELSE "other"]
OldOnes  == {"r1"}
=============================================================================

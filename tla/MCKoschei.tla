------------------------------ MODULE MCKoschei ------------------------------
(* Model values and small instances of Koschei for TLC *)
EXTENDS Koschei

CONSTANTS pkg1, pkg2, polling, watcher, scheduler, web

OnePackage  == {pkg1}
TwoPackages == {pkg1, pkg2}
NoProcs     == {}
Polling     == {polling}
Watcher     == {watcher}
TheScheduler == {scheduler}
Web         == {web}
AlwaysResolved == {TRUE}
EitherWay == BOOLEAN
NoPriority  == {}
OnePriority == {1}
=============================================================================

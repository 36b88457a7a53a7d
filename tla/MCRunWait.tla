----------------------------- MODULE MCRunWait ------------------------------
(***************************************************************************)
(* Small instances of RunWait for TLC.  A caller c of wait_for_run has the *)
(* tap named after it; a caller r of run_in_process has two.               *)
(***************************************************************************)
EXTENDS RunWait, TLC

CONSTANTS j1, j2, c1, c2, r, t1, t2, tr, tw

NoRunTap == [c \in {} |-> t1]
OneRunTap == r :> tr
OneWaitTap == c1 :> t1
TwoWaitTaps == c1 :> t1 @@ c2 :> t2
RunnerTaps == r :> tw

\* One batch of two jobs.
OneSeed == {{j1, j2}}
OverlappingSeeds == {{j1}, {j1, j2}, {j2}}
SingleSeeds == {{j1}, {j2}}
=============================================================================

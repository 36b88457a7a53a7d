--------------------------- MODULE MCStagedRuntime --------------------------
(***************************************************************************)
(* Small runs of the staged runtime for TLC.  Every pool works for one     *)
(* stage; the layouts name how many threads each stage has.                *)
(***************************************************************************)
EXTENDS RunReport, TLC

CONSTANTS j1, j2, w1, w2, w3, p1, p2, p3, t1, a, b

OneTarget == [j \in Job |-> t1]

\* One thread per stage, two stages.
SingleThreads == w1 :> p1 @@ w2 :> p2
\* One thread for the first stage, two for the second, in one pool.
SecondStageDoubled == w1 :> p1 @@ w2 :> p2 @@ w3 :> p2
\* The same, in a pool each.
SecondStageTwoPools == w1 :> p1 @@ w2 :> p2 @@ w3 :> p3
\* Two threads for the first stage; none runs for the second.
FirstStageDoubled == w1 :> p1 @@ w2 :> p1
FirstStageOnly == p1 :> 1
TwoStages == p1 :> 1 @@ p2 :> 2
TwoStagesThreePools == p1 :> 1 @@ p2 :> 2 @@ p3 :> 2

\* Two jobs are alike, and so are the two threads of the second stage.
JobsAndThreads == Permutations({j1, j2}) \cup Permutations({w2, w3})

\* The threads of the first stage are alike, and so are the operators.
ThreadsAndOperators == Permutations({w1, w2}) \cup Permutations({a, b})

DefaultSelection == {DefaultReplayStatuses}
\* `replay` by default, or of the stages that a job has passed.
FinishedSelection == {DefaultReplayStatuses, {"completed"}}
\* `replay` by default, or of what a command or a thread left open.
RecoverySelection == {DefaultReplayStatuses, {"pending"}, {"running"}}
=============================================================================

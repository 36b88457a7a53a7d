-------------------------- MODULE MCSinkExecution ---------------------------
(***************************************************************************)
(* A small pipeline over an event sink for TLC: two stages, the second     *)
(* with two threads.                                                       *)
(***************************************************************************)
EXTENDS SinkExecution, TLC

CONSTANTS j1, j2, w1, w2, w3

TwoStages == w1 :> 1 @@ w2 :> 2 @@ w3 :> 2
=============================================================================

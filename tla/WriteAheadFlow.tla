--------------------------- MODULE WriteAheadFlow ---------------------------
(***************************************************************************)
(* What the staged runtime promises about propagation, without threads,    *)
(* failures or operators: a job is admitted to the first stage; the output *)
(* of a stage is logged for a job that reached that stage; only a logged   *)
(* output moves the job to the next queue; and neither is ever undone.     *)
(***************************************************************************)
EXTENDS RunManifest

VARIABLES
    reached,   \* the <<job, queue>> pairs where a trace of the job exists
    logged     \* the <<job, stage>> pairs whose output is in the event log

Init == reached = {} /\ logged = {}

Admit(j) ==
    /\ reached' = reached \cup {<<j, 1>>}
    /\ UNCHANGED logged

Log(j, s) ==
    /\ <<j, s>> \in reached
    /\ logged' = logged \cup {<<j, s>>}
    /\ UNCHANGED reached

Forward(j, s) ==
    /\ <<j, s>> \in logged
    /\ reached' = reached \cup {<<j, StageOutputQueue(s)>>}
    /\ UNCHANGED logged

Next ==
    \E j \in Job : \/ Admit(j)
                   \/ \E s \in Stage : Log(j, s) \/ Forward(j, s)

Spec == Init /\ [][Next]_<<reached, logged>>
=============================================================================

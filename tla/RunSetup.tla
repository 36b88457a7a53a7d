------------------------------ MODULE RunSetup -------------------------------
(***************************************************************************)
(* Creating a run and joining it: setup_run_queues (pipeline/runner.py)    *)
(* looks whether the run exists, declares the queues of its stages one by  *)
(* one and stores the manifest (MongoRunStore.create_run); attach_run, the *)
(* stage workers and the commands read the manifest back and work from     *)
(* what they read ever after.                                              *)
(*                                                                         *)
(*   manifest  the stored manifest, NoRun before there is one              *)
(*   declared  the queues that exist: stage i of a manifest consumes queue *)
(*             i of its prefix and feeds queue i + 1                       *)
(*   pc        what setup p does: "none", "declaring", "storing", "done",  *)
(*             "failed" (it raised, or its process was killed), "raised"   *)
(*             (the same, after its manifest was written)                  *)
(*   held      the manifest p works from                                   *)
(***************************************************************************)
EXTENDS Naturals

CONSTANTS
    Pipeline,     \* pipeline definitions
    Prefix,       \* queue prefixes
    NumSteps,     \* how many steps a definition has
    NoRun,        \* not a definition
    Setup,        \* calls of setup_run_queues, for one run_id
    Overwriting,  \* those with overwrite=True
    Attached,     \* calls of attach_run
    Reader,       \* calls of get_manifest: workers, seeds, replays
    Definition,   \* the definition a setup or an attached application has
    PrefixOf      \* the queue_prefix of a setup

ASSUME SetupAssumption ==
    /\ NumSteps \in [Pipeline -> Nat \ {0}]
    /\ Overwriting \subseteq Setup
    /\ Setup \cap (Attached \cup Reader) = {}
    /\ Attached \cap Reader = {}
    /\ Definition \in [Setup \cup Attached -> Pipeline]
    /\ PrefixOf \in [Setup -> Prefix]
    /\ NoRun \notin [pipeline : Pipeline, prefix : Prefix]

VARIABLES manifest, declared, pc, held

vars == <<manifest, declared, pc, held>>

Process == Setup \cup Attached \cup Reader

Manifest == [pipeline : Pipeline, prefix : Prefix]

\* The manifest that setup p builds.
ManifestOf(p) == [pipeline |-> Definition[p], prefix |-> PrefixOf[p]]

QueuesOf(m) == {m.prefix} \X (1 .. NumSteps[m.pipeline] + 1)

SetupTypeOK ==
    /\ manifest \in Manifest \cup {NoRun}
    /\ declared \subseteq Prefix \X Nat
    /\ pc \in [Setup -> {"none", "declaring", "storing", "done", "failed",
                        "raised"}]
    /\ held \in [Process -> Manifest \cup {NoRun}]
    /\ \A p \in Setup : pc[p] = "done" <=> held[p] # NoRun

Init ==
    /\ manifest = NoRun
    /\ declared = {}
    /\ pc = [p \in Setup |-> "none"]
    /\ held = [p \in Process |-> NoRun]

-----------------------------------------------------------------------------
(* setup_run_queues *)

Go(p, from, to) == pc[p] = from /\ pc' = [pc EXCEPT ![p] = to]

\* get_manifest, unless overwrite is set: the run must not exist yet.
LookUp(p) ==
    /\ Go(p, "none", IF manifest = NoRun \/ p \in Overwriting
                     THEN "declaring" ELSE "failed")
    /\ UNCHANGED <<manifest, declared, held>>

\* declare_durable_queue, in the order of the stages.
DeclareQueue(p) ==
    /\ pc[p] = "declaring"
    /\ \E q \in QueuesOf(ManifestOf(p)) \ declared : declared' = declared \cup {q}
    /\ UNCHANGED <<manifest, pc, held>>

\* Mutant: the manifest is stored while queues are still to be declared.
StoreEarly(p) ==
    /\ Go(p, "declaring", "storing")
    /\ UNCHANGED <<manifest, declared, held>>

\* All the queues exist; declaring one again has no effect.
AllDeclared(p) ==
    /\ QueuesOf(ManifestOf(p)) \subseteq declared
    /\ Go(p, "declaring", "storing")
    /\ UNCHANGED <<manifest, declared, held>>

\* Mutant: the setup relies on what it looked up.
StoreUnchecked(p) ==
    /\ Go(p, "storing", "done")
    /\ manifest' = ManifestOf(p)
    /\ held' = [held EXCEPT ![p] = ManifestOf(p)]
    /\ UNCHANGED declared

\* create_run: replace_one, or insert_one under the unique index on run_id.
CreateRun(p) ==
    /\ IF p \in Overwriting \/ manifest = NoRun
       THEN /\ Go(p, "storing", "done")
            /\ manifest' = ManifestOf(p)
            /\ held' = [held EXCEPT ![p] = ManifestOf(p)]
       ELSE /\ Go(p, "storing", "failed")
            /\ UNCHANGED <<manifest, held>>
    /\ UNCHANGED declared

\* Mutant: an error after the insert fails a setup that has stored its run.
FailLate(p) ==
    /\ pc[p] \in {"declaring", "storing", "done"}
    /\ pc' = [pc EXCEPT ![p] = "failed"]
    /\ UNCHANGED <<manifest, declared, held>>

\* The broker or the store raises, or the process is killed; the queues stay.
Fail(p) ==
    /\ pc[p] \in {"declaring", "storing"}
    /\ pc' = [pc EXCEPT ![p] = "failed"]
    /\ UNCHANGED <<manifest, declared, held>>

\* The same with the manifest written: the answer of the store is lost, or
\* the process is killed before create_run returns.
StoreThenRaise(p) ==
    /\ p \in Overwriting \/ manifest = NoRun
    /\ Go(p, "storing", "raised")
    /\ manifest' = ManifestOf(p)
    /\ UNCHANGED <<declared, held>>

-----------------------------------------------------------------------------
(* Processes that join the run *)

\* attach_run; without a run, or with another definition, it raises.  The
\* prefix is that of the stored manifest.
AttachRun(p) ==
    /\ held[p] = NoRun /\ manifest # NoRun
    /\ manifest.pipeline = Definition[p]
    /\ held' = [held EXCEPT ![p] = manifest]
    /\ UNCHANGED <<manifest, declared, pc>>

GetManifest(p) ==
    /\ held[p] = NoRun /\ manifest # NoRun
    /\ held' = [held EXCEPT ![p] = manifest]
    /\ UNCHANGED <<manifest, declared, pc>>

-----------------------------------------------------------------------------

Next ==
    \/ \E p \in Setup : \/ LookUp(p) \/ DeclareQueue(p) \/ AllDeclared(p)
                        \/ CreateRun(p) \/ StoreThenRaise(p) \/ Fail(p)
    \/ \E p \in Attached : AttachRun(p)
    \/ \E p \in Reader : GetManifest(p)

Spec == Init /\ [][Next]_vars

-----------------------------------------------------------------------------
(* Properties *)

(***************************************************************************)
(* Whoever works from a manifest finds all the queues it names: workers    *)
(* consume and seeds publish without declaring stage queues themselves,    *)
(* and a queue that is missing ends a consumer and swallows a publish.     *)
(***************************************************************************)
HeldQueuesExist ==
    \A p \in Process : held[p] # NoRun => QueuesOf(held[p]) \subseteq declared

(***************************************************************************)
(* All processes of a run work from one manifest, the stored one, however  *)
(* many setups with different definitions and prefixes race for the        *)
(* run_id or fail on the way, until a setup overwrites the run.            *)
(***************************************************************************)
RunIsShared ==
    (\A p \in Overwriting : pc[p] \notin {"done", "raised"})
        => \A p \in Process : held[p] \in {NoRun, manifest}
=============================================================================

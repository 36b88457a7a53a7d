--------------------------- MODULE RunSetupProofs ----------------------------
(***************************************************************************)
(* The properties of RunSetup, for any number of setups, definitions and   *)
(* joining processes.                                                      *)
(***************************************************************************)
EXTENDS RunSetup, TLAPS

LEMMA SetupTypeStep ==
    ASSUME SetupTypeOK, [Next]_vars
    PROVE  SetupTypeOK'
<1> USE SetupAssumption DEF SetupTypeOK, Process, Go, Manifest, ManifestOf
<1>1. ASSUME NEW p \in Setup, LookUp(p)
      PROVE  SetupTypeOK'
  BY <1>1 DEF LookUp
<1>2. ASSUME NEW p \in Setup, DeclareQueue(p)
      PROVE  SetupTypeOK'
  BY <1>2 DEF DeclareQueue, QueuesOf
<1>3. ASSUME NEW p \in Setup, AllDeclared(p)
      PROVE  SetupTypeOK'
  BY <1>3 DEF AllDeclared
<1>4. ASSUME NEW p \in Setup, CreateRun(p)
      PROVE  SetupTypeOK'
  BY <1>4 DEF CreateRun
<1>5. ASSUME NEW p \in Setup, Fail(p)
      PROVE  SetupTypeOK'
  BY <1>5 DEF Fail
<1>6. ASSUME NEW p \in Attached, AttachRun(p)
      PROVE  SetupTypeOK'
  BY <1>6 DEF AttachRun
<1>7. ASSUME NEW p \in Reader, GetManifest(p)
      PROVE  SetupTypeOK'
  BY <1>7 DEF GetManifest
<1>8. ASSUME NEW p \in Setup, StoreThenRaise(p)
      PROVE  SetupTypeOK'
  BY <1>8 DEF StoreThenRaise
<1>9. CASE UNCHANGED vars
  BY <1>9 DEF vars
<1>10. QED
  BY <1>1, <1>2, <1>3, <1>4, <1>5, <1>6, <1>7, <1>8, <1>9 DEF Next

(***************************************************************************)
(* Every reachable state of a setup is well-typed; a setup that is done    *)
(* has the manifest it stored in its hands (setup_run_queues returns it).  *)
(***************************************************************************)
THEOREM SetupTypeCorrect == Spec => []SetupTypeOK
<1>1. Init => SetupTypeOK
  BY SetupAssumption DEF Init, SetupTypeOK, Process
<1>2. SetupTypeOK /\ [Next]_vars => SetupTypeOK'
  BY SetupTypeStep
<1>3. QED
  BY <1>1, <1>2, PTL DEF Spec

-----------------------------------------------------------------------------
(* Queues *)

StoredQueuesExist == manifest # NoRun => QueuesOf(manifest) \subseteq declared

StoringQueuesExist ==
    \A p \in Setup : pc[p] = "storing" => QueuesOf(ManifestOf(p)) \subseteq declared

QueueInv == StoredQueuesExist /\ StoringQueuesExist /\ HeldQueuesExist

LEMMA QueueStep ==
    ASSUME SetupTypeOK, QueueInv, [Next]_vars
    PROVE  QueueInv'
<1> USE SetupAssumption
        DEF SetupTypeOK, QueueInv, StoredQueuesExist, StoringQueuesExist,
            HeldQueuesExist, Process, Go, Manifest, ManifestOf
<1>1. ASSUME NEW p \in Setup, LookUp(p)
      PROVE  QueueInv'
  BY <1>1 DEF LookUp
<1>2. ASSUME NEW p \in Setup, DeclareQueue(p)
      PROVE  QueueInv'
  <2>1. declared \subseteq declared'
    BY <1>2 DEF DeclareQueue
  <2>2. QED
    BY <1>2, <2>1 DEF DeclareQueue
<1>3. ASSUME NEW p \in Setup, AllDeclared(p)
      PROVE  QueueInv'
  BY <1>3 DEF AllDeclared
<1>4. ASSUME NEW p \in Setup, CreateRun(p)
      PROVE  QueueInv'
  BY <1>4 DEF CreateRun
<1>5. ASSUME NEW p \in Setup, Fail(p)
      PROVE  QueueInv'
  BY <1>5 DEF Fail
<1>6. ASSUME NEW p \in Attached, AttachRun(p)
      PROVE  QueueInv'
  BY <1>6 DEF AttachRun
<1>7. ASSUME NEW p \in Reader, GetManifest(p)
      PROVE  QueueInv'
  BY <1>7 DEF GetManifest
<1>8. ASSUME NEW p \in Setup, StoreThenRaise(p)
      PROVE  QueueInv'
  BY <1>8 DEF StoreThenRaise
<1>9. CASE UNCHANGED vars
  BY <1>9 DEF vars
<1>10. QED
  BY <1>1, <1>2, <1>3, <1>4, <1>5, <1>6, <1>7, <1>8, <1>9 DEF Next

(***************************************************************************)
(* Whatever fails, races or overwrites, a process that works from a        *)
(* manifest of the run finds its queues.                                   *)
(***************************************************************************)
THEOREM QueuesAreDeclaredFirst == Spec => []HeldQueuesExist
<1>1. Init => QueueInv
  BY DEF Init, QueueInv, StoredQueuesExist, StoringQueuesExist, HeldQueuesExist
<1>2. SetupTypeOK /\ QueueInv /\ [Next]_vars => QueueInv'
  BY QueueStep
<1>3. QueueInv => HeldQueuesExist
  BY DEF QueueInv
<1>4. QED
  BY <1>1, <1>2, <1>3, SetupTypeCorrect, PTL DEF Spec

-----------------------------------------------------------------------------
(* One manifest per run *)

LEMMA SharedStep ==
    ASSUME SetupTypeOK, RunIsShared, [Next]_vars
    PROVE  RunIsShared'
<1> USE SetupAssumption DEF SetupTypeOK, RunIsShared, Process, Go, Manifest, ManifestOf
<1>1. ASSUME NEW p \in Setup, LookUp(p)
      PROVE  RunIsShared'
  BY <1>1 DEF LookUp
<1>2. ASSUME NEW p \in Setup, DeclareQueue(p)
      PROVE  RunIsShared'
  BY <1>2 DEF DeclareQueue
<1>3. ASSUME NEW p \in Setup, AllDeclared(p)
      PROVE  RunIsShared'
  BY <1>3 DEF AllDeclared
<1>4. ASSUME NEW p \in Setup, CreateRun(p)
      PROVE  RunIsShared'
  <2>1. CASE p \in Overwriting
    BY <1>4, <2>1 DEF CreateRun
  <2>2. CASE p \notin Overwriting /\ manifest = NoRun
    BY <1>4, <2>2 DEF CreateRun
  <2>3. CASE p \notin Overwriting /\ manifest # NoRun
    BY <1>4, <2>3 DEF CreateRun
  <2>4. QED
    BY <2>1, <2>2, <2>3
<1>5. ASSUME NEW p \in Setup, Fail(p)
      PROVE  RunIsShared'
  BY <1>5 DEF Fail
<1>6. ASSUME NEW p \in Attached, AttachRun(p)
      PROVE  RunIsShared'
  BY <1>6 DEF AttachRun
<1>7. ASSUME NEW p \in Reader, GetManifest(p)
      PROVE  RunIsShared'
  BY <1>7 DEF GetManifest
<1>8. ASSUME NEW p \in Setup, StoreThenRaise(p)
      PROVE  RunIsShared'
  BY <1>8 DEF StoreThenRaise
<1>9. CASE UNCHANGED vars
  BY <1>9 DEF vars
<1>10. QED
  BY <1>1, <1>2, <1>3, <1>4, <1>5, <1>6, <1>7, <1>8, <1>9 DEF Next

(***************************************************************************)
(* However many setups race for a run_id, all processes work from one      *)
(* manifest until a setup overwrites the run.                              *)
(***************************************************************************)
THEOREM RunsAreShared == Spec => []RunIsShared
<1>1. Init => RunIsShared
  BY DEF Init, RunIsShared
<1>2. SetupTypeOK /\ RunIsShared /\ [Next]_vars => RunIsShared'
  BY SharedStep
<1>3. QED
  BY <1>1, <1>2, SetupTypeCorrect, PTL DEF Spec
=============================================================================

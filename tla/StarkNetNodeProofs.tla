------------------------- MODULE StarkNetNodeProofs -------------------------
(***************************************************************************)
(* Proofs about StarkNetNode: the builder, start and the tasks it spawns   *)
(* keep every variable in its type.                                        *)
(***************************************************************************)
EXTENDS StarkNetNode, TLAPS

\* tokio::spawn keeps the task and token maps typed.
LEMMA SpawnType ==
    ASSUME NodeTypeOK, NEW t \in Tasks, Spawn(t)
    PROVE  /\ task' \in [Tasks -> {"none", "running"} \cup Done]
           /\ token' \in [Tasks -> BOOLEAN]
BY DEF Spawn, NodeTypeOK

(***************************************************************************)
(* NodeTypeOK is not inductive: with_datadir and the other setters update  *)
(* one field of the builder, which is a Builders record only because      *)
(* StarkNetNodeBuilder::new made it one before pc became "configure".     *)
(***************************************************************************)
NodeIInv == NodeTypeOK /\ (pc = "configure" => builder \in Builders)

\* A step of the node keeps NodeIInv.
LEMMA NodeIInvStep == NodeIInv /\ [Next]_vars => NodeIInv'
<1> SUFFICES ASSUME NodeIInv, [Next]_vars PROVE NodeIInv'
  OBVIOUS
<1>. USE DEF NodeIInv, NodeTypeOK
<1>1. CASE BuilderNew
  BY <1>1 DEF BuilderNew, Builders, BuilderErrors
<1>2. CASE WithDatadir \/ WithPollInterval \/ WithRequestObserver
  <2>1. pc = "configure" /\ builder \in Builders
    BY <1>2 DEF WithDatadir, WithPollInterval, WithRequestObserver
  <2>. QED
    BY <1>2, <2>1 DEF WithDatadir, WithPollInterval, WithRequestObserver,
       Builders
<1>3. CASE Build
  BY <1>3 DEF Build, BuilderErrors
<1>4. CASE EnsureTables
  BY <1>4 DEF EnsureTables
<1>5. CASE SpawnIngestion \/ SpawnHealer \/ SpawnServer
  <2>1. \E t \in Tasks : Spawn(t)
    BY <1>5 DEF SpawnIngestion, SpawnHealer, SpawnServer, Tasks
  <2>. QED
    BY <1>5, <2>1, SpawnType DEF SpawnIngestion, SpawnHealer, SpawnServer
<1>6. CASE Select
  BY <1>6 DEF Select
<1>7. CASE \E t \in Tasks : TaskEnds(t)
  BY <1>7 DEF TaskEnds, Done
<1>8. CASE Cancel
  BY <1>8 DEF Cancel
<1>9. CASE UNCHANGED vars
  BY <1>9 DEF vars
<1>. QED
  BY <1>1, <1>2, <1>3, <1>4, <1>5, <1>6, <1>7, <1>8, <1>9 DEF Next

(***************************************************************************)
(* Every reachable state of the node is well typed (NodeTypeOK is checked  *)
(* by run node_shutdown): the builder, start's steps and the tasks' ends  *)
(* leave every variable in its type.                                       *)
(***************************************************************************)
THEOREM NodeTypeCorrect == Spec => []NodeTypeOK
<1>1. Init => NodeIInv
  BY DEF Init, NodeIInv, NodeTypeOK, NoBuilder
<1>2. NodeIInv => NodeTypeOK
  BY DEF NodeIInv
<1>. QED
  BY <1>1, <1>2, NodeIInvStep, PTL DEF Spec

=============================================================================

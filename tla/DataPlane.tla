----------------------------- MODULE DataPlane -----------------------------
(***************************************************************************)
(* The two controllers together.  A Deployment rolls the services out on   *)
(* one NodeSet.  The Deployment controller reads the NodeSet's SetupReady  *)
(* condition, services and configHash; the NodeSet controller reads the    *)
(* Deployment's conditions and hashes.  Neither sees the other's writes    *)
(* before the informer caches, which one manager keeps for both of them    *)
(* (main.go), have caught up.                                              *)
(*                                                                         *)
(* Deployment and NodeSet are instantiated so that each one's environment  *)
(* is the other: what Deployment calls nodeSet is the cached NodeSet, and  *)
(* what NodeSet calls deployment and seen is the Deployment's status and   *)
(* its cached copy.  They are instantiated through the modules of their    *)
(* proofs, whose lemmas DataPlaneProofs uses.                              *)
(***************************************************************************)
EXTENDS Naturals, Sequences, FiniteSets, Conditions

CONSTANTS
  d, n,           \* the Deployment and the NodeSet
  Services,       \* the services
  ServiceList,    \* spec.services of the NodeSet
  Specs,          \* the specs of the NodeSet, which stand for their hashes
  NoHash,         \* an empty hash
  Unrecorded,     \* an entry that is missing in a map of hashes
  ServiceStates, InputViews, BackoffLimit, MaxEdits, MaxFaults

ASSUME DataPlaneAssumption ==
  /\ ServiceList \in Seq(Services)
  /\ "NodeSetDeploymentReady" \notin Services
  /\ NoHash \notin Specs /\ Unrecorded \notin Specs \cup {NoHash}
  /\ ServiceStates \subseteq {"missing", "nosource", "noca", "ok"}
  /\ BackoffLimit \in Nat /\ MaxEdits \in Nat /\ MaxFaults \in Nat

VARIABLES
  \* The Deployment, its executions and the worker that reconciles it.
  status, aee, service, cached, aeeCache, queue,
  pc, me, before, cur, snap, ni, si, errs, requeue, again,
  \* The NodeSet, its inventory and the worker that reconciles it.
  object, inventory, input, objectCache, queued, nsPc, nsRead, nsCur, nsAgain,
  \* Shared by both.
  faults,
  \* What happened, for the properties.
  inventorySpec,  \* the spec that the inventory was generated from
  ran             \* the specs whose inventory each execution may have used

deploymentVars == <<status, aee, service, cached, aeeCache, queue,
                    pc, me, before, cur, snap, ni, si, errs, requeue, again>>
nodeSetVars == <<object, inventory, input, objectCache, queued,
                 nsPc, nsRead, nsCur, nsAgain>>
history == <<inventorySpec, ran>>
vars == <<deploymentVars, nodeSetVars, faults, history>>

-----------------------------------------------------------------------------
(* What each controller sees of the other *)

\* The NodeSet in the cache, as the Deployment controller reads it.
NodeSetView(obj) ==
  [found |-> TRUE,
   setupReady |-> IsTrue(obj.status.conds["SetupReady"]),
   services |-> ServiceList,
   configHash |-> obj.status.configHash]

\* The NodeSets the Deployment controller reads: one that is set up has announced
\* the hash of a spec.
SeenNodeSets ==
  {v \in [found : {TRUE}, setupReady : BOOLEAN,
          services : {ServiceList}, configHash : Specs \cup {NoHash}] :
     v.setupReady => v.configHash # NoHash}

RecordedHash(st) ==
  IF st.nodeSetHashes[n] = Unrecorded THEN NoHash ELSE st.nodeSetHashes[n]

\* A Deployment's status, as the NodeSet controller reads it.
DeploymentView(st) ==
  [exists |-> TRUE,
   cond |-> st.nsConds[n]["NodeSetDeploymentReady"],
   hash |-> RecordedHash(st),
   at |-> IF st.conds["DeploymentReady"] = "Absent" THEN 0 ELSE 1]

D == INSTANCE DeploymentSafetyProofs WITH
       Deployments <- {d}, NodeSets <- {n},
       SpecNodeSets <- [x \in {d} |-> <<n>>],
       ServicesOverride <- [x \in {d} |-> << >>],
       OverrideSet <- {}, GlobalServices <- {}, TLSServices <- {},
       CertMountServices <- {}, CertsFrom <- [s \in Services |-> s],
       TLSNodeSets <- {}, ConfigHashes <- Specs \cup {NoHash},
       NodeSetViews <- SeenNodeSets,
       NoHash <- Unrecorded, ConditionType <- [s \in Services |-> s],
       NamePrefix <- [s \in Services |-> s], NameParts <- 3,
       certs <- {},
       nodeSet <- [x \in {n} |-> NodeSetView(objectCache)]

N == INSTANCE NodeSetSafetyProofs WITH
       Deployments <- {d}, Listed <- {d}, Shared <- {},
       PreProvisioned <- TRUE, BaremetalHosts <- FALSE,
       Failures <- {"Warning", "Error", "Backoff"}, MaxMoves <- 0,
       nodeSet <- object, cached <- objectCache, moves <- 0,
       deployment <- [x \in {d} |-> DeploymentView(status[x])],
       seen <- [x \in {d} |-> DeploymentView(cached[x])],
       pc <- nsPc, read <- nsRead, cur <- nsCur, again <- nsAgain

ASSUME InputAssumption == InputViews \subseteq [N!StepNames -> N!InputStates]

-----------------------------------------------------------------------------

Init ==
  /\ \E s \in Specs :
       object = [spec |-> s, generation |-> 1, status |-> N!EmptyStatus]
  /\ objectCache = object
  /\ inventory = 0
  /\ input \in InputViews
  /\ queued = TRUE
  /\ nsPc = "idle" /\ nsRead = N!NoNodeSet /\ nsCur = N!EmptyStatus /\ nsAgain = FALSE
  /\ D!Init
  /\ inventorySpec = NoHash
  /\ ran = [x \in D!ExecutionNames |-> {}]

\* An execution mounts the inventory from its creation until its job ends.
Record ==
  /\ inventorySpec' = IF inventory' # inventory THEN nsRead.spec ELSE inventorySpec
  /\ ran' = [x \in D!ExecutionNames |->
               ran[x] \cup (IF aee'[x].job \in {"Active", "Failed"}
                            THEN {inventorySpec'} \ {NoHash} ELSE {})]

\* A step of one side; the other side's objects stay as they are.
OfDeployment(A) == UNCHANGED nodeSetVars /\ A /\ Record
OfNodeSet(A) == UNCHANGED deploymentVars /\ A /\ Record

DeploymentReconcile == OfDeployment(D!Reconcile)
DeploymentRequest == OfDeployment(D!Request(d))
JobStep(x) == OfDeployment(D!JobStep(x))
SyncAEE(x) == OfDeployment(D!SyncAEE(x))

NodeSetReconcile == OfNodeSet(N!Reconcile)
NodeSetFault ==
  OfNodeSet(N!CheckDeploymentError \/ N!InventoryError \/ N!PatchInstanceError)
SyncNodeSet == OfNodeSet(N!SyncNodeSet)
InputChange == OfNodeSet(N!InputChange)
Edit == OfNodeSet(N!Edit)

\* Defect: the Deployment is a request for itself only.
SyncDeploymentUnmapped ==
  /\ UNCHANGED nodeSetVars
  /\ D!SyncStatus(d)
  /\ Record

\* The watch of the Deployments serves both controllers: the Deployment is a
\* request for itself and for the NodeSet it names.
SyncDeployment ==
  /\ UNCHANGED <<object, inventory, input, objectCache, nsPc, nsRead, nsCur, nsAgain>>
  /\ D!SyncStatus(d)
  /\ queued' = TRUE
  /\ Record

\* Both controllers live in one process.  Its caches are filled before they
\* start, which is the same as to fill them just before the crash.
Crash ==
  /\ objectCache = object
  /\ UNCHANGED objectCache
  /\ D!Crash
  /\ N!Crash
  /\ Record

Next ==
  \/ DeploymentRequest \/ DeploymentReconcile
  \/ \E x \in D!ExecutionNames : JobStep(x) \/ SyncAEE(x)
  \/ NodeSetReconcile \/ NodeSetFault
  \/ SyncNodeSet \/ SyncDeployment
  \/ InputChange \/ Edit
  \/ Crash

Spec == Init /\ [][Next]_vars

\* Both workers keep working, watches deliver, and a job that can move does.
Fairness ==
  /\ WF_vars(DeploymentReconcile) /\ WF_vars(DeploymentRequest)
  /\ WF_vars(NodeSetReconcile)
  /\ WF_vars(SyncNodeSet) /\ WF_vars(SyncDeployment)
  /\ \A x \in D!ExecutionNames : WF_vars(SyncAEE(x)) /\ WF_vars(JobStep(x))

FairSpec == Spec /\ Fairness

-----------------------------------------------------------------------------
(* Each controller is an environment the other one was built for *)

(***************************************************************************)
(* The composition implements Deployment among the NodeSets of             *)
(* SeenNodeSets: the NodeSet controller never lets the Deployment          *)
(* controller see a NodeSet that is set up and has announced no hash,      *)
(* although the hash is recorded only when it differs from the deployed    *)
(* one and goes through merge patches from stale copies.  So a Deployment  *)
(* that starts has a hash to record, and all that is shown of Deployment   *)
(* holds here.  (The count of the faults, which is common to both, is left *)
(* out.)                                                                   *)
(***************************************************************************)
ImplementsDeployment ==
  D!Init /\ [][UNCHANGED <<D!store, queue, D!worker>> \/ D!Next]_vars

(***************************************************************************)
(* The composition takes only steps that NodeSet allows: what the          *)
(* Deployment controller does to a Deployment's status (its patches, its   *)
(* resets, a hash that is lost because setHashes failed) is among the      *)
(* moves NodeSet was checked against.                                      *)
(***************************************************************************)
ImplementsNodeSet ==
  [][\/ UNCHANGED <<nodeSetVars, N!env, N!caches>>
     \/ N!Reconcile \/ N!Faults \/ N!Watches \/ N!Edit \/ N!Environment]_vars

-----------------------------------------------------------------------------
(* Safety across the controllers *)

Executed == \A i \in DOMAIN ServiceList : D!Done(d, n, ServiceList[i])

(***************************************************************************)
(* A NodeSet that reports DeploymentReady has had every service of its     *)
(* list executed, although the report passes through two status patches,   *)
(* two caches and a reset of the conditions in every reconcile.            *)
(***************************************************************************)
ReadyMeansExecuted ==
  IsTrue(object.status.conds["DeploymentReady"]) => Executed

(***************************************************************************)
(* No Ansible execution is created before an inventory exists: the         *)
(* SetupReady condition that lets the Deployment start is never True       *)
(* without one, although Reconcile skips the inventory when a Deployment   *)
(* runs or failed.                                                         *)
(***************************************************************************)
InventoryBeforeExecution ==
  inventory = 0 => \A x \in D!ExecutionNames : ~D!Exists(aee[x])

-----------------------------------------------------------------------------
(* Liveness across the controllers *)

Undisturbed == \A k \in DOMAIN N!Steps : input[N!Steps[k]] = "ready"

GaveUp == \E x \in D!ExecutionNames : aee[x].job = "Backoff"

(***************************************************************************)
(* Once the inputs stay in place, and unless an execution gives up, the    *)
(* NodeSet ends up reporting DeploymentReady and the hash that the         *)
(* Deployment recorded: neither controller waits for the other for ever.   *)
(***************************************************************************)
DeploymentReachesNodeSet ==
  <>[]Undisturbed =>
    \/ <>GaveUp
    \/ <>[](/\ IsTrue(object.status.conds["DeploymentReady"])
            /\ object.status.deployedConfigHash = RecordedHash(status[d]))

-----------------------------------------------------------------------------
(* What the documentation says and the code does not do *)

(***************************************************************************)
(* "DeployedConfigHash - holds the hash of the NodeTemplate and Node       *)
(* sections of the struct that was last deployed": when it is the hash of  *)
(* the current spec, so that nothing appears to be left to deploy, the     *)
(* executions had the inventory of that spec at least for a while.         *)
(***************************************************************************)
DeployedHashWasDeployed ==
  object.status.deployedConfigHash = object.spec =>
    \A i \in DOMAIN ServiceList :
      object.spec \in ran[D!ExecutionName(ServiceList[i], d, n)]

=============================================================================

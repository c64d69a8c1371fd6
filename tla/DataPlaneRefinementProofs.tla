--------------------- MODULE DataPlaneRefinementProofs ---------------------
(***************************************************************************)
(* The proof that the Deployment controller is an environment which the    *)
(* specification of the NodeSet controller allows for, for every list of   *)
(* services, every set of specs and inputs and every bound.                *)
(***************************************************************************)
EXTENDS DataPlaneProofs

-----------------------------------------------------------------------------
(* What the Deployment reports, and the hash it may record *)

LEMMA Single == D!SingleNodeSet
BY DEF D!SingleNodeSet

LEMMA ReportsFacts ==
  /\ D!Init => D!ReportInv
  /\ D!TypeInv /\ D!SafeInv /\ D!ReportInv /\ [D!Next]_(D!vars) => D!ReportInv'
<1>1. D!Init => D!ReportInv
  BY DeploymentConstants, DataPlaneAssumption, D!ReportInvInit
<1>2. D!TypeInv /\ D!SafeInv /\ D!ReportInv /\ [D!Next]_(D!vars) => D!ReportInv'
  BY Single, DeploymentConstants, DataPlaneAssumption, D!ReportInvNext
<1> QED BY <1>1, <1>2

LEMMA ReportsKept ==
  Types /\ D!SafeInv /\ D!ReportInv /\ [Next]_vars => D!ReportInv'
<1> SUFFICES ASSUME Types, D!SafeInv, D!ReportInv, [Next]_vars PROVE D!ReportInv'
  OBVIOUS
<1>1. CASE D!Next
  BY <1>1, ReportsFacts DEF Types
<1>2. CASE UNCHANGED deploymentVars
  BY <1>2 DEF deploymentVars, D!ReportInv, D!StoredReports, D!WorkReports, D!ReportShape,
              D!Reported, D!OwnReady
<1> QED BY <1>1, <1>2, StepKinds
        DEF DeploymentStep, NodeSetStep, BothStep, D!Next, vars

\* A hash of a spec, and of the only one there was before the first edit.
Recorded(h) == h \in Specs /\ (object.generation = 1 => h = object.spec)

SnapRecorded == D!Recording => Recorded(snap[n].configHash)

\* A NodeSet that is set up has a hash.
LEMMA SetUpRecorded ==
  ASSUME Types, D!EnsureNodeSets
  PROVE  Recorded(snap'[n].configHash)
<1>1. me = d /\ objectCache \in N!StoredNodeSet
  BY DEF Types, D!TypeInv, D!TypeOK, N!TypeInv, N!TypeOK
<1>2. n \in D!Ran([x \in {d} |-> <<n>>][me])
  BY <1>1 DEF D!Ran
<1>3. [x \in {n} |-> NodeSetView(objectCache)][n].setupReady
  BY <1>2 DEF D!EnsureNodeSets, D!NodeSetsReady
<1>4. N!IsTrue(objectCache.status.conds["SetupReady"])
  BY <1>3 DEF NodeSetView, IsTrue, N!IsTrue
<1>5. /\ objectCache.status.configHash # NoHash
      /\ object.generation = 1 => objectCache.status.configHash = object.spec
  BY <1>4 DEF Types, N!HashInv, N!HashFirst, N!FirstHash
<1>6. objectCache.status.configHash \in Specs
  BY <1>1, <1>5 DEF N!StoredNodeSet, N!Statuses, N!StatusesWith
<1>7. snap'[n].configHash = objectCache.status.configHash
  BY DEF D!EnsureNodeSets, NodeSetView
<1> QED BY <1>5, <1>6, <1>7 DEF Recorded

LEMMA SnapKept == Types /\ SnapRecorded /\ [Next]_vars => SnapRecorded'
<1> SUFFICES ASSUME Types, SnapRecorded, [Next]_vars, D!Recording'
             PROVE  Recorded(snap[n].configHash)'
  BY DEF SnapRecorded
<1>1. CASE D!Next /\ UNCHANGED object
  <2>1. D!EnsureNodeSets \/ (D!Recording /\ UNCHANGED snap)
    BY <1>1, DeploymentConstants, DataPlaneAssumption, D!RecordingSteps DEF Types
  <2>2. Recorded(snap'[n].configHash)
    BY <2>1, SetUpRecorded DEF SnapRecorded
  <2> QED BY <1>1, <2>2 DEF Recorded
<1>2. CASE UNCHANGED deploymentVars
  <2>1. Recorded(snap[n].configHash) /\ UNCHANGED snap
    BY <1>2 DEF SnapRecorded, D!Recording, deploymentVars
  <2>2. \/ object'.spec = object.spec /\ object'.generation = object.generation
        \/ object'.generation > 1
    <3>1. CASE UNCHANGED object
      BY <3>1
    <3>2. CASE N!PatchInstance
      BY <3>2 DEF N!PatchInstance, Types, N!TypeInv, N!TypeOK, N!StoredNodeSet
    <3>3. CASE N!Next /\ ~N!PatchInstance
      BY <3>3, NodeSetConstants, N!SpecKept DEF Types
    <3> QED BY <3>1, <3>2, <3>3, StepKinds
            DEF DeploymentStep, NodeSetStep, BothStep, N!Crash, N!InputChange, nodeSetSide,
                vars, nodeSetVars
  <2> QED BY <2>1, <2>2 DEF Recorded
<1> QED BY <1>1, <1>2, StepKinds
        DEF DeploymentStep, NodeSetStep, BothStep, D!Next, N!Crash, nodeSetSide, vars

-----------------------------------------------------------------------------
(* The times of a single Deployment *)

\* The latest change is the only one, so a change now may have the same time.
LEMMA SameSecond == Types => 1 \in N!Now
<1> SUFFICES ASSUME Types PROVE 1 \in N!Now
  OBVIOUS
<1> DEFINE f == [x \in {d} |-> DeploymentView(status[x])]
<1>1. f[d].at \in {0, 1}
  BY DEF DeploymentView
<1>2. {f[x].at : x \in {d}} = {f[d].at}
  OBVIOUS
<1> HIDE DEF f
<1>3. CASE f[d].at = 0
  <2>1. N!Latest = 0
    BY <1>3 DEF N!Latest, f
  <2> QED BY <2>1 DEF N!Now
<1>4. CASE f[d].at = 1
  <2>1. N!Latest = 1
    BY <1>2, <1>4 DEF N!Latest, f
  <2> QED BY <2>1 DEF N!Now
<1> QED BY <1>1, <1>3, <1>4

\* The rank of the only time is that time.
LEMMA SingleRank ==
  ASSUME NEW v \in N!DeploymentState, v.at = 1
  PROVE  N!Compress([x \in {d} |-> v]) = [x \in {d} |-> v]
<1>1. {[x \in {d} |-> v][e].at :
         e \in {x \in {d} : 0 < [y \in {d} |-> v][x].at
                            /\ [y \in {d} |-> v][x].at <= [y \in {d} |-> v][d].at}} = {1}
  OBVIOUS
<1>2. N!Cardinality({1}) = 1
  BY NodeSetConstants, N!FS_Singleton
<1>3. [[x \in {d} |-> v][d] EXCEPT !.at = 1] = v
  BY DEF N!DeploymentState
<1> QED BY <1>1, <1>2, <1>3 DEF N!Compress

-----------------------------------------------------------------------------
(* The steps of the composition as steps of NodeSet *)

Invisible == UNCHANGED <<nodeSetVars, N!env, N!caches>>

NodeSetAllows ==
  N!Reconcile \/ N!Faults \/ N!Watches \/ N!Edit \/ N!Environment

\* A patch of the Deployment's status: the report of a success with the hash
\* that was read, another report, or nothing that the NodeSet controller reads.
LEMMA PatchIsMove ==
  ASSUME Types, D!SafeInv, D!ReportInv, SnapRecorded, D!PatchInstance,
         UNCHANGED nodeSetVars
  PROVE  Invisible \/ NodeSetAllows
<1> DEFINE old == DeploymentView(status[d])
           new == DeploymentView(status'[d])
<1>1. /\ me = d /\ status[d] \in D!Status /\ status'[d] \in D!Status
      /\ UNCHANGED <<cached, faults>>
  <2>1. D!TypeInv /\ [D!Next]_(D!vars)
    BY DEF Types, D!Next, D!Reconcile
  <2>2. D!TypeInv'
    BY <2>1, DeploymentTypes
  <2> QED BY <2>1, <2>2 DEF D!TypeInv, D!TypeOK, D!PatchInstance, D!NoFault
<1>2. /\ D!ReportShape(status'[me], me) /\ D!Reported(status'[me])
      /\ D!OwnReady(status'[me], me) # D!OwnReady(status[me], me)
           => D!OwnReady(status'[me], me) # "Absent"
      /\ D!OwnReady(status'[me], me) = D!OwnReady(status[me], me)
           => D!IsTrue(D!OwnReady(status'[me], me)) \/ D!Reported(status[me])
      /\ \A m \in {n} :
           status'[me].nodeSetHashes[m] # status[me].nodeSetHashes[m] =>
             /\ D!IsTrue(D!OwnReady(status'[me], me)) /\ cur.deployed
             /\ status'[me].nodeSetHashes[m] = snap[m].configHash
  BY Single, DeploymentConstants, DataPlaneAssumption, D!PatchReports DEF Types
<1>3. /\ old \in N!DeploymentState /\ new \in N!DeploymentState
      /\ old.cond = D!OwnReady(status[d], d) /\ new.cond = D!OwnReady(status'[d], d)
      /\ old.exists /\ new.exists /\ new.at = 1
      /\ D!Reported(status[d]) => old.at = 1
      /\ old.hash = RecordedHash(status[d]) /\ new.hash = RecordedHash(status'[d])
  BY <1>1, <1>2, ViewTypes DEF D!OwnReady, D!NodeSetReady, DeploymentView, D!Reported
<1>4. new.hash # old.hash => new.cond = "True" /\ Recorded(new.hash)
  <2>1. SUFFICES ASSUME new.hash # old.hash PROVE new.cond = "True" /\ Recorded(new.hash)
    OBVIOUS
  <2>2. status'[d].nodeSetHashes[n] # status[d].nodeSetHashes[n]
    BY <1>3, <2>1 DEF RecordedHash
  <2>3. /\ D!IsTrue(D!OwnReady(status'[d], d)) /\ cur.deployed
        /\ status'[d].nodeSetHashes[n] = snap[n].configHash
    BY <1>1, <1>2, <2>2
  <2>4. Recorded(snap[n].configHash)
    BY <2>3 DEF SnapRecorded, D!Recording
  <2>5. new.hash = snap[n].configHash
    BY <1>3, <2>3, <2>4, DataPlaneAssumption DEF RecordedHash, Recorded
  <2> QED BY <1>3, <2>3, <2>4, <2>5 DEF D!IsTrue
<1>5. new.cond # old.cond => new.cond # "Absent"
  BY <1>1, <1>2, <1>3
<1>6. new.cond = old.cond /\ new.cond # "True" => old.at = 1
  BY <1>1, <1>2, <1>3 DEF D!IsTrue
<1>7. /\ [x \in {d} |-> DeploymentView(status[x])] = [x \in {d} |-> old]
      /\ [x \in {d} |-> DeploymentView(status[x])]' = [x \in {d} |-> new]
      /\ UNCHANGED [x \in {d} |-> DeploymentView(cached[x])]
  BY <1>1
<1> HIDE DEF old, new
<1>8. N!Compress([x \in {d} |-> new]) = [x \in {d} |-> new]
  BY <1>3, SingleRank
<1>9. 1 \in N!Now
  BY SameSecond
<1>10. UNCHANGED <<object, inventory, input, queued, N!worker, faults>> /\ UNCHANGED N!caches
  BY <1>1, <1>7 DEF nodeSetVars, N!worker, N!caches
<1>11. CASE new.cond = "True"
  <2>1. new.hash \in N!Recordable \cup {old.hash}
    BY <1>4 DEF Recorded, N!Recordable
  <2>2. [x \in {d} |-> new] =
          [[x \in {d} |-> old] EXCEPT ![d].cond = "True", ![d].hash = new.hash, ![d].at = 1]
    BY <1>3, <1>11 DEF N!DeploymentState
  <2>3. [x \in {d} |-> DeploymentView(status[x])]' =
          N!Compress([[x \in {d} |-> DeploymentView(status[x])] EXCEPT
                        ![d].cond = "True", ![d].hash = new.hash, ![d].at = 1])
    BY <1>7, <1>8, <2>2
  <2>4. /\ [x \in {d} |-> DeploymentView(status[x])][d].exists
        /\ new.hash \in N!Recordable \cup {[x \in {d} |-> DeploymentView(status[x])][d].hash}
    BY <1>3, <2>1 DEF old
  <2>5. N!DeploymentCompletes(d)
    BY <1>9, <1>10, <2>3, <2>4 DEF N!DeploymentCompletes
  <2> QED BY <2>5 DEF NodeSetAllows, N!Environment, N!DeploymentMoves
<1>12. CASE new.cond # "True" /\ new.cond # old.cond
  <2>1. new.cond \in {"Unknown", "Requested"} \cup {"Warning", "Error", "Backoff"}
    BY <1>3, <1>5, <1>12 DEF N!DeploymentState, N!Cond, N!FalseConds
  <2>2. [x \in {d} |-> new] =
          [[x \in {d} |-> old] EXCEPT ![d].cond = new.cond, ![d].at = 1]
    BY <1>3, <1>4, <1>12 DEF N!DeploymentState
  <2>3. [x \in {d} |-> DeploymentView(status[x])]' =
          N!Compress([[x \in {d} |-> DeploymentView(status[x])] EXCEPT
                        ![d].cond = new.cond, ![d].at = 1])
    BY <1>7, <1>8, <2>2
  <2>4. /\ [x \in {d} |-> DeploymentView(status[x])][d].exists
        /\ [x \in {d} |-> DeploymentView(status[x])][d].cond # new.cond
    BY <1>3, <1>12 DEF old
  <2> DEFINE view == [x \in {d} |-> DeploymentView(status[x])]
             Reports(c, t) == /\ c # view[d].cond
                              /\ view' = N!Compress([view EXCEPT ![d].cond = c, ![d].at = t])
  <2>5. Reports(new.cond, 1)
    BY <2>3, <2>4
  <2> HIDE DEF Reports
  <2>6. \E c \in {"Unknown", "Requested"} \cup {"Warning", "Error", "Backoff"}
                   \cup (IF d \in {} THEN {"True"} ELSE {}),
           t \in N!Now \cup ({view[d].at} \ {0}) : Reports(c, t)
    BY <1>9, <2>1, <2>5
  <2>7. N!DeploymentReports(d)
    BY <1>10, <2>4, <2>6, Zenon DEF N!DeploymentReports, Reports
  <2> QED BY <2>7 DEF NodeSetAllows, N!Environment, N!DeploymentMoves
<1>13. CASE new.cond # "True" /\ new.cond = old.cond
  <2>1. new = old
    BY <1>3, <1>4, <1>6, <1>13 DEF N!DeploymentState
  <2> QED BY <1>7, <1>10, <2>1 DEF Invisible, N!env, nodeSetVars
<1> QED BY <1>11, <1>12, <1>13

\* The watch delivers a Deployment: a change of what the NodeSet controller
\* reads, or an event without one.
LEMMA SyncIsWatch ==
  ASSUME Types, SyncDeployment
  PROVE  Invisible \/ NodeSetAllows
<1> DEFINE old == DeploymentView(cached[d])
           new == DeploymentView(status[d])
<1>1. /\ UNCHANGED <<object, inventory, input, objectCache, nsPc, nsRead, nsCur, nsAgain>>
      /\ queued' = TRUE /\ queued \in BOOLEAN /\ UNCHANGED <<status, faults>>
      /\ cached' = [cached EXCEPT ![d] = status[d]] /\ cached'[d] = status[d]
  BY DEF SyncDeployment, D!SyncStatus, Types, D!TypeInv, D!TypeOK, N!TypeInv, N!TypeOK
<1>2. /\ [x \in {d} |-> DeploymentView(cached[x])] = [x \in {d} |-> old]
      /\ [x \in {d} |-> DeploymentView(status[x])] = [x \in {d} |-> new]
      /\ [x \in {d} |-> DeploymentView(cached[x])]' = [x \in {d} |-> new]
      /\ UNCHANGED [x \in {d} |-> DeploymentView(status[x])]
  BY <1>1
<1> HIDE DEF old, new
<1>3. UNCHANGED <<object, inventory, input, N!env, objectCache, N!worker, faults>>
  BY <1>1, <1>2 DEF N!env, N!worker
<1>4. CASE new # old
  <2>1. /\ [x \in {d} |-> old] # [x \in {d} |-> new]
        /\ \E e \in {d} : [x \in {d} |-> old][e] # [x \in {d} |-> new][e]
    BY <1>4
  <2>2. N!SyncDeployments
    BY <1>1, <1>2, <1>3, <2>1 DEF N!SyncDeployments
  <2> QED BY <2>2 DEF NodeSetAllows, N!Watches
<1>5. CASE new = old /\ ~queued
  <2>1. N!DeploymentEvent
    BY <1>1, <1>2, <1>3, <1>5 DEF N!DeploymentEvent, N!caches
  <2> QED BY <2>1 DEF NodeSetAllows, N!Watches
<1>6. CASE new = old /\ queued
  BY <1>1, <1>2, <1>3, <1>6 DEF Invisible, nodeSetVars, N!caches
<1> QED BY <1>1, <1>4, <1>5, <1>6

\* Every other step of the Deployment controller is behind its status.
LEMMA OthersInvisible ==
  ASSUME Types, D!Next, ~D!PatchInstance, UNCHANGED nodeSetVars, UNCHANGED cached
  PROVE  Invisible
<1>1. UNCHANGED status
  BY D!StatusWrites, DeploymentConstants, DataPlaneAssumption
<1> QED BY <1>1 DEF Invisible, nodeSetVars, N!env, N!caches

LEMMA DeploymentAllowed ==
  ASSUME Types, D!SafeInv, D!ReportInv, SnapRecorded, UNCHANGED nodeSetVars,
         \/ D!Reconcile \/ D!Request(d)
         \/ \E x \in D!ExecutionNames : D!JobStep(x) \/ D!SyncAEE(x)
  PROVE  Invisible \/ NodeSetAllows
<1>1. D!Next
  BY DEF D!Next
<1>2. UNCHANGED cached
  BY DEF D!Reconcile, D!Request, D!AlreadyDeployed, D!Fetch, D!JobStep, D!JobSucceed,
     D!JobFail, D!JobRetry, D!Job, D!SyncAEE, D!NodeSetsNotReady, D!NodeSetGetError,
     D!EnsureNodeSets, D!TLSServiceMissing, D!EnsureTLSCertsError, D!EnsureTLSCerts,
     D!ConsistencyError, D!GetVersionError, D!BeginDeploy, D!NodeSetDone, D!ServiceError,
     D!ServiceReady, D!ServicePending, D!DeployService, D!DeployServiceError,
     D!ExecutionLookupError, D!ExecutionNotFound, D!ExecutionSucceeded, D!ExecutionInProgress, D!ExecutionFailed,
     D!DeploymentFailed, D!DeploymentWaits, D!DeploymentSucceeded, D!PatchInstance,
     D!PatchInstanceError, D!Return, D!LeaveNodeSet, D!loop, D!store
<1> QED BY <1>1, <1>2, PatchIsMove, OthersInvisible

LEMMA NodeSetSimulation ==
  ASSUME Types, D!SafeInv, D!ReportInv, SnapRecorded, [Next]_vars
  PROVE  Invisible \/ NodeSetAllows
<1>1. CASE DeploymentRequest \/ DeploymentReconcile
           \/ \E x \in D!ExecutionNames : JobStep(x) \/ SyncAEE(x)
  BY <1>1, DeploymentAllowed
     DEF DeploymentRequest, DeploymentReconcile, JobStep, SyncAEE, OfDeployment
<1>2. CASE NodeSetReconcile \/ NodeSetFault \/ SyncNodeSet \/ InputChange \/ Edit
  BY <1>2 DEF NodeSetReconcile, NodeSetFault, SyncNodeSet, InputChange, Edit, OfNodeSet,
              NodeSetAllows, N!Faults, N!Watches, N!Environment
<1>3. CASE SyncDeployment
  BY <1>3, SyncIsWatch
<1>4. CASE Crash
  BY <1>4 DEF Crash, NodeSetAllows, N!Faults
<1>5. CASE UNCHANGED vars
  BY <1>5 DEF vars, deploymentVars, Invisible, nodeSetVars, N!env, N!caches
<1> QED BY <1>1, <1>2, <1>3, <1>4, <1>5 DEF Next

(***************************************************************************)
(* For every list of services: what the Deployment controller does is, for *)
(* the NodeSet controller, either invisible or a move of the Deployment    *)
(* that its specification allows for.  A success is reported only for the  *)
(* whole Deployment, and with a hash that the NodeSet once announced.      *)
(***************************************************************************)
THEOREM DeploymentIsEnvironment == Spec => ImplementsNodeSet
<1> DEFINE IInv == Types /\ D!SafeInv /\ D!ReportInv /\ SnapRecorded
<1>1. Init => IInv
  <2> SUFFICES ASSUME Init PROVE IInv
    OBVIOUS
  <2>1. Types /\ D!SafeInv /\ D!ReportInv
    BY TypesInit, ReportsFacts, DeploymentConstants, DistinctConditions,
       DataPlaneAssumption, D!SafeInvInit DEF Init
  <2>2. SnapRecorded
    BY DEF Init, D!Init, SnapRecorded, D!Recording, D!EmptyStatus
  <2> QED BY <2>1, <2>2
<1>2. IInv /\ [Next]_vars => IInv'
  BY TypesNext, SafeNext, ReportsKept, SnapKept
<1>3. IInv /\ [Next]_vars =>
        [\/ UNCHANGED <<nodeSetVars, N!env, N!caches>>
         \/ N!Reconcile \/ N!Faults \/ N!Watches \/ N!Edit \/ N!Environment]_vars
  BY NodeSetSimulation DEF Invisible, NodeSetAllows
<1> QED BY <1>1, <1>2, <1>3, PTL DEF Spec, ImplementsNodeSet

=============================================================================

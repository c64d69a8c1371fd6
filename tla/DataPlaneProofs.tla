-------------------------- MODULE DataPlaneProofs --------------------------
(***************************************************************************)
(* Proofs about the two controllers together, for every list of services,  *)
(* every set of specs and inputs and every bound.  What is proved of each  *)
(* controller alone is used for its instance in DataPlane.                 *)
(***************************************************************************)
EXTENDS DataPlane, TLAPS

-----------------------------------------------------------------------------
(* The instances satisfy the assumptions of their modules *)

LEMMA DeploymentConstants ==
  /\ [x \in {d} |-> <<n>>] \in [{d} -> Seq({n})]
  /\ \A e \in {d} : Len([x \in {d} |-> <<n>>][e]) >= 1
  /\ [x \in {d} |-> << >>] \in [{d} -> Seq(Services)]
  /\ \A e \in {d} : [x \in {d} |-> << >>][e] # << >> => e \in {}
  /\ \A v \in SeenNodeSets :
       v \in [found : BOOLEAN, setupReady : BOOLEAN,
              services : Seq(Services), configHash : Specs \cup {NoHash}]
  /\ DOMAIN [s \in Services |-> s] = Services
  /\ D!NodeSetReady \notin D!ServiceConds
  /\ Unrecorded \notin Specs \cup {NoHash}
  /\ [s \in Services |-> s] \in [Services -> Services]
  /\ 3 \in 1..3
  /\ ServiceStates \subseteq {"missing", "nosource", "noca", "ok"}
  /\ BackoffLimit \in Nat /\ MaxFaults \in Nat
<1>1. D!NodeSetReady \notin D!ServiceConds
  BY DataPlaneAssumption DEF D!NodeSetReady, D!ServiceConds
<1>2. \A v \in SeenNodeSets :
        v \in [found : BOOLEAN, setupReady : BOOLEAN,
               services : Seq(Services), configHash : Specs \cup {NoHash}]
  BY DataPlaneAssumption DEF SeenNodeSets
<1> QED BY <1>1, <1>2, DataPlaneAssumption

LEMMA DistinctConditions == D!DistinctConditionTypes
BY DEF D!DistinctConditionTypes

LEMMA NodeSetConstants ==
  /\ N!IsFiniteSet({d}) /\ N!Cardinality({d}) = 1
  /\ InputViews \subseteq [N!StepNames -> N!InputStates]
  /\ NoHash \notin Specs
  /\ MaxEdits \in Nat /\ MaxFaults \in Nat
<1>1. N!IsFiniteSet({d})
  <2>1. <<d>> \in Seq({d}) /\ \A s \in {d} : \E i \in 1..Len(<<d>>) : <<d>>[i] = s
    OBVIOUS
  <2> QED BY <2>1 DEF N!IsFiniteSet
<1>2. N!Cardinality({d}) = 1
  BY <1>1, N!FS_Singleton, DataPlaneAssumption, InputAssumption
<1> QED BY <1>1, <1>2, DataPlaneAssumption, InputAssumption

-----------------------------------------------------------------------------
(* What is known of each controller alone *)

LEMMA DeploymentTypes == D!TypeInv /\ [D!Next]_(D!vars) => D!TypeInv'
BY DeploymentConstants, DataPlaneAssumption, D!TypeInvNext

LEMMA DeploymentSafe ==
  D!TypeInv /\ D!SafeInv /\ [D!Next]_(D!vars) => D!SafeInv'
BY DeploymentConstants, DistinctConditions, DataPlaneAssumption, D!SafeInvNext

LEMMA NodeSetTypes == N!TypeInv /\ [N!Next]_(N!vars) => N!TypeInv'
BY NodeSetConstants, N!TypeInvNext

LEMMA NodeSetFacts ==
  ASSUME N!TypeInv, NEW q \in N!Orders
  PROVE  /\ N!IsTrue(N!Verdict(q)) =>
              \E e \in {d} : N!IsTrue([x \in {d} |-> DeploymentView(cached[x])][e].cond)
         /\ ~N!GeneratesInventory(q) =>
              \E e \in {d} : N!IsFalse([x \in {d} |-> DeploymentView(cached[x])][e].cond)
<1>1. N!IsTrue(N!Verdict(q)) =>
        \E e \in {d} : N!IsTrue([x \in {d} |-> DeploymentView(cached[x])][e].cond)
  BY NodeSetConstants, N!VerdictSound DEF N!Decides
<1>2. ~N!GeneratesInventory(q) =>
        \E e \in {d} : N!IsFalse([x \in {d} |-> DeploymentView(cached[x])][e].cond)
  BY NodeSetConstants, N!InventorySkipped
<1> QED BY <1>1, <1>2

LEMMA DeploymentDone ==
  ASSUME D!TypeInv, [D!Next]_(D!vars)
  PROVE  D!DoneStep
BY DeploymentConstants, DataPlaneAssumption, D!DoneStays

-----------------------------------------------------------------------------
(* The steps of the composition *)

\* The variables of the NodeSet controller that a Deployment's step leaves alone.
nodeSetSide == <<object, inventory, input, objectCache, nsPc, nsRead, nsCur, nsAgain>>

DeploymentStep == D!Next /\ UNCHANGED nodeSetSide /\ queued' \in {queued, TRUE}

NodeSetStep == (N!Next \/ N!InputChange) /\ UNCHANGED deploymentVars

BothStep == D!Crash /\ N!Crash /\ UNCHANGED objectCache

LEMMA StepKinds ==
  ASSUME [Next]_vars
  PROVE  DeploymentStep \/ NodeSetStep \/ BothStep \/ UNCHANGED vars
<1>1. CASE DeploymentRequest \/ DeploymentReconcile
  <2>1. D!Next
    BY <1>1 DEF DeploymentRequest, DeploymentReconcile, OfDeployment, D!Next
  <2> QED BY <1>1, <2>1 DEF DeploymentRequest, DeploymentReconcile, OfDeployment,
                            nodeSetVars, DeploymentStep, nodeSetSide
<1>2. CASE \E x \in D!ExecutionNames : JobStep(x) \/ SyncAEE(x)
  <2>1. D!Next
    BY <1>2 DEF JobStep, SyncAEE, OfDeployment, D!Next
  <2> QED BY <1>2, <2>1 DEF JobStep, SyncAEE, OfDeployment, nodeSetVars,
                            DeploymentStep, nodeSetSide
<1>3. CASE SyncDeployment
  <2>1. D!Next
    BY <1>3 DEF SyncDeployment, D!Next
  <2> QED BY <1>3, <2>1 DEF SyncDeployment, DeploymentStep, nodeSetSide
<1>4. CASE NodeSetReconcile \/ NodeSetFault \/ SyncNodeSet \/ InputChange \/ Edit
  <2>1. N!Next \/ N!InputChange
    BY <1>4 DEF NodeSetReconcile, NodeSetFault, SyncNodeSet, InputChange, Edit,
                OfNodeSet, N!Next, N!Faults, N!Watches
  <2> QED BY <1>4, <2>1 DEF NodeSetReconcile, NodeSetFault, SyncNodeSet, InputChange,
                            Edit, OfNodeSet, NodeSetStep
<1>5. CASE Crash
  BY <1>5 DEF Crash, BothStep
<1> QED BY <1>1, <1>2, <1>3, <1>4, <1>5 DEF Next

-----------------------------------------------------------------------------
(* Types *)

\* A NodeSet as the Deployment controller may read it, and the other way round.
LEMMA ViewTypes ==
  /\ \A obj \in N!StoredNodeSet :
       N!HashFirst(obj.status) => NodeSetView(obj) \in SeenNodeSets
  /\ \A st \in D!Status :
       /\ DeploymentView(st) \in N!DeploymentState
       /\ DeploymentView(st).exists
       /\ DeploymentView(st).cond = st.nsConds[n]["NodeSetDeploymentReady"]
<1>1. ASSUME NEW obj \in N!StoredNodeSet, N!HashFirst(obj.status)
      PROVE  NodeSetView(obj) \in SeenNodeSets
  <2>1. obj.status.configHash \in Specs \cup {NoHash}
    BY DEF N!StoredNodeSet, N!Statuses, N!StatusesWith
  <2>2. IsTrue(obj.status.conds["SetupReady"]) => obj.status.configHash # NoHash
    BY <1>1 DEF N!HashFirst, N!IsTrue, IsTrue
  <2>3. IsTrue(obj.status.conds["SetupReady"]) \in BOOLEAN
    BY DEF IsTrue
  <2> HIDE DEF IsTrue
  <2> QED BY <2>1, <2>2, <2>3 DEF NodeSetView, SeenNodeSets
<1>2. ASSUME NEW st \in D!Status
      PROVE  /\ DeploymentView(st) \in N!DeploymentState
             /\ DeploymentView(st).exists
             /\ DeploymentView(st).cond = st.nsConds[n]["NodeSetDeploymentReady"]
  <2>1. st.nsConds[n]["NodeSetDeploymentReady"] \in N!Cond
    BY DEF D!Status, D!NSCondTypes, D!NodeSetReady, D!Cond, D!FalseConds,
           N!Cond, N!FalseConds
  <2>2. RecordedHash(st) \in Specs \cup {NoHash}
    BY DEF RecordedHash, D!Status
  <2>3. (IF st.conds["DeploymentReady"] = "Absent" THEN 0 ELSE 1) \in 0..N!Cardinality({d})
    BY NodeSetConstants
  <2> QED BY <2>1, <2>2, <2>3 DEF DeploymentView, N!DeploymentState
<1> QED BY <1>1, <1>2

LEMMA DeploymentFrame ==
  ASSUME D!TypeInv, N!TypeInv', N!HashInv', UNCHANGED deploymentVars
  PROVE  D!TypeInv'
<1>1. /\ objectCache' \in N!StoredNodeSet /\ faults' \in 0..MaxFaults
      /\ N!HashFirst(objectCache'.status)
  BY DEF N!TypeInv, N!TypeOK, N!HashInv, N!HashFirst
<1>2. [x \in {n} |-> NodeSetView(objectCache)]' \in [{n} -> SeenNodeSets]
  BY <1>1, ViewTypes
<1>3. D!TypeOK'
  BY <1>1, <1>2 DEF D!TypeInv, D!TypeOK, deploymentVars
<1>4. (D!CacheBehind /\ D!RetriesLeft /\ D!InLoop)'
  BY DEF D!TypeInv, D!CacheBehind, D!RetriesLeft, D!InLoop, D!Exists, D!AtService,
         D!ServicesAt, D!NodeSetAt, deploymentVars
<1> QED BY <1>3, <1>4 DEF D!TypeInv

LEMMA NodeSetFrame ==
  ASSUME N!TypeInv, D!TypeInv', UNCHANGED nodeSetSide, queued' \in BOOLEAN
  PROVE  N!TypeInv'
<1>1. /\ status' \in [{d} -> D!Status] /\ cached' \in [{d} -> D!Status]
      /\ faults' \in 0..MaxFaults
  BY DEF D!TypeInv, D!TypeOK
<1>2. \A x \in {d} : /\ DeploymentView(status'[x]) \in N!DeploymentState
                     /\ DeploymentView(cached'[x]) \in N!DeploymentState
                     /\ DeploymentView(status'[x]).exists
                     /\ DeploymentView(cached'[x]).exists
  BY <1>1, ViewTypes
<1>3. /\ [x \in {d} |-> DeploymentView(status[x])]' \in [{d} -> N!DeploymentState]
      /\ [x \in {d} |-> DeploymentView(cached[x])]' \in [{d} -> N!DeploymentState]
  BY <1>2
<1>4. N!TypeOK'
  BY <1>1, <1>3 DEF N!TypeInv, N!TypeOK, nodeSetSide
<1>5. N!NothingLeft'
  BY <1>2 DEF N!NothingLeft
<1>6. N!ReadStored'
  BY DEF N!TypeInv, N!ReadStored, nodeSetSide
<1> QED BY <1>4, <1>5, <1>6 DEF N!TypeInv

Types == D!TypeInv /\ N!TypeInv /\ N!HashInv

LEMMA HashesKept == N!TypeInv /\ N!HashInv /\ [Next]_vars => N!HashInv'
<1> SUFFICES ASSUME N!TypeInv, N!HashInv, [Next]_vars PROVE N!HashInv'
  OBVIOUS
<1>1. CASE N!Next
  BY <1>1, NodeSetConstants, N!HashInvNext
<1>2. CASE UNCHANGED <<object, objectCache, nsPc, nsRead, nsCur>>
  BY <1>2 DEF N!HashInv, N!HashFirst, N!HashBehind, N!FirstHash
<1> QED BY <1>1, <1>2, StepKinds
        DEF DeploymentStep, NodeSetStep, BothStep, N!Next, N!Faults, N!InputChange, N!caches,
            N!worker, nodeSetSide, vars, nodeSetVars

LEMMA TypesInit == Init => Types
<1> SUFFICES ASSUME Init PROVE Types
  OBVIOUS
<1>1. D!TypeInv
  BY DeploymentConstants, DataPlaneAssumption, D!TypeInvInit DEF Init
<1>2. PICK s \in Specs :
        object = [spec |-> s, generation |-> 1, status |-> N!EmptyStatus]
  BY DEF Init
<1>3. N!EmptyStatus \in N!Statuses /\ N!EmptyStatus \in N!StatusesWith(N!Cond)
  BY NodeSetConstants, N!EmptyTypes
<1>4. object \in N!StoredNodeSet /\ objectCache = object
  BY <1>2, <1>3, NodeSetConstants DEF N!StoredNodeSet, Init
<1>5. \A x \in {d} : /\ DeploymentView(status[x]) \in N!DeploymentState
                     /\ DeploymentView(cached[x]) \in N!DeploymentState
                     /\ DeploymentView(status[x]).exists
                     /\ DeploymentView(cached[x]).exists
  BY <1>1, ViewTypes DEF D!TypeInv, D!TypeOK
<1>6. N!TypeOK
  <2>1. /\ [x \in {d} |-> DeploymentView(status[x])] \in [{d} -> N!DeploymentState]
        /\ [x \in {d} |-> DeploymentView(cached[x])] \in [{d} -> N!DeploymentState]
    BY <1>5
  <2>2. 0 \in 0..(MaxEdits + 1) /\ 0 \in 0..0
    BY NodeSetConstants
  <2>3. faults \in 0..MaxFaults
    BY <1>1 DEF D!TypeInv, D!TypeOK
  <2> QED BY <1>3, <1>4, <2>1, <2>2, <2>3 DEF Init, N!TypeOK
<1>7. N!NothingLeft
  BY <1>5 DEF N!NothingLeft
<1>8. N!ReadStored
  BY DEF Init, N!ReadStored
<1>9. N!HashInv
  BY NodeSetConstants, N!HashInvEmpty DEF Init
<1> QED BY <1>1, <1>6, <1>7, <1>8, <1>9 DEF Types, N!TypeInv

LEMMA InputChangeTypes ==
  ASSUME N!TypeInv, N!InputChange, UNCHANGED deploymentVars
  PROVE  N!TypeInv'
<1>1. /\ input' \in InputViews /\ queued' \in BOOLEAN
      /\ UNCHANGED <<object, inventory, objectCache, nsPc, nsRead, nsCur, nsAgain, faults>>
  BY DEF N!TypeInv, N!TypeOK, N!InputChange, N!caches, N!worker
<1>2. N!TypeOK'
  BY <1>1 DEF N!TypeInv, N!TypeOK, deploymentVars
<1>3. N!NothingLeft' /\ N!ReadStored'
  BY <1>1 DEF N!TypeInv, N!NothingLeft, N!ReadStored, deploymentVars
<1> QED BY <1>2, <1>3 DEF N!TypeInv

LEMMA TypesNext == Types /\ [Next]_vars => Types'
<1> SUFFICES ASSUME Types, [Next]_vars PROVE Types'
  OBVIOUS
<1>0. N!HashInv'
  BY HashesKept DEF Types
<1>1. CASE DeploymentStep
  <2>1. D!TypeInv'
    BY <1>1, DeploymentTypes DEF DeploymentStep, Types
  <2>2. queued' \in BOOLEAN
    BY <1>1 DEF DeploymentStep, Types, N!TypeInv, N!TypeOK
  <2>3. N!TypeInv'
    BY <1>1, <2>1, <2>2, NodeSetFrame DEF DeploymentStep, Types
  <2> QED BY <1>0, <2>1, <2>3 DEF Types
<1>2. CASE NodeSetStep
  <2>1. N!TypeInv'
    BY <1>2, NodeSetTypes, InputChangeTypes DEF NodeSetStep, Types
  <2>2. D!TypeInv'
    BY <1>0, <1>2, <2>1, DeploymentFrame DEF NodeSetStep, Types
  <2> QED BY <1>0, <2>1, <2>2 DEF Types
<1>3. CASE BothStep
  <2>1. D!Next /\ N!Next
    BY <1>3 DEF BothStep, D!Next, N!Next, N!Faults
  <2> QED BY <1>0, <2>1, DeploymentTypes, NodeSetTypes DEF Types
<1>4. CASE UNCHANGED vars
  <2>1. UNCHANGED N!vars
    BY <1>4 DEF vars, deploymentVars, nodeSetVars, N!vars, N!env, N!caches, N!worker
  <2>2. N!TypeInv'
    BY <2>1, NodeSetTypes DEF Types
  <2>3. D!TypeInv'
    BY <1>0, <1>4, <2>2, DeploymentFrame DEF Types, vars
  <2> QED BY <1>0, <2>2, <2>3 DEF Types
<1> QED BY <1>1, <1>2, <1>3, <1>4, StepKinds

-----------------------------------------------------------------------------
(* What a Deployment's status claims has happened *)

LEMMA DoneKept ==
  ASSUME Types, [Next]_vars
  PROVE  D!DoneStep
<1>1. CASE D!Next
  BY <1>1, DeploymentDone DEF Types
<1>2. CASE UNCHANGED aee
  BY <1>2 DEF D!DoneStep, D!Done, D!WithLabel, D!Exists
<1> QED BY <1>1, <1>2, StepKinds
        DEF DeploymentStep, NodeSetStep, BothStep, D!Next, vars, deploymentVars

LEMMA DeploymentSafeFrame ==
  ASSUME D!TypeInv, D!SafeInv, D!DoneStep, UNCHANGED deploymentVars
  PROVE  D!SafeInv'
<1>1. UNCHANGED <<D!worker, status>>
  BY DEF deploymentVars, D!worker
<1> QED BY <1>1, DeploymentConstants, DataPlaneAssumption, D!FrameSafe

LEMMA SafeNext == Types /\ D!SafeInv /\ [Next]_vars => D!SafeInv'
<1> SUFFICES ASSUME Types, D!SafeInv, [Next]_vars PROVE D!SafeInv'
  OBVIOUS
<1>1. CASE D!Next
  BY <1>1, DeploymentSafe DEF Types
<1>2. CASE UNCHANGED deploymentVars
  BY <1>2, DoneKept, DeploymentSafeFrame DEF Types
<1> QED BY <1>1, <1>2, StepKinds
        DEF DeploymentStep, NodeSetStep, BothStep, D!Next, vars

-----------------------------------------------------------------------------
(* The report of a success on its way from the Deployment to the NodeSet *)

NodeSetCond(st) == st.nsConds[n]["NodeSetDeploymentReady"]

\* Wherever the success is reported, every service has been executed.
ReportsTrue ==
  /\ NodeSetCond(status[d]) = "True" => Executed
  /\ NodeSetCond(cached[d]) = "True" => Executed
  /\ nsCur.conds["DeploymentReady"] = "True" => Executed
  /\ object.status.conds["DeploymentReady"] = "True" => Executed

LEMMA ExecutedStays ==
  ASSUME D!DoneStep, Executed
  PROVE  Executed'
<1>1. \A i \in DOMAIN ServiceList : D!Done(d, n, ServiceList[i])'
  BY DEF Executed, D!DoneStep
<1> QED BY <1>1 DEF Executed

\* What the NodeSet's condition in the status of the Deployment may become.
LEMMA StatusReports ==
  ASSUME D!TypeInv, [D!Next]_(D!vars)
  PROVE  /\ \/ NodeSetCond(status'[d]) = NodeSetCond(status[d])
            \/ D!PatchInstance /\ NodeSetCond(status'[d]) = NodeSetCond(cur)
         /\ \/ NodeSetCond(cached'[d]) = NodeSetCond(cached[d])
            \/ NodeSetCond(cached'[d]) = NodeSetCond(status[d])
<1>1. me = d
  BY DEF D!TypeInv, D!TypeOK
<1>2. \/ NodeSetCond(status'[d]) = NodeSetCond(status[d])
      \/ D!PatchInstance /\ NodeSetCond(status'[d]) = NodeSetCond(cur)
  <2>1. CASE ~D!PatchInstance
    BY <2>1, D!StatusWrites, DeploymentConstants, DataPlaneAssumption
  <2>2. CASE D!PatchInstance
    <3>1. \A m \in {n} : \/ status'[me].nsConds[m] = cur.nsConds[m]
                         \/ status'[me].nsConds[m] = status[me].nsConds[m]
      BY <2>2, D!PatchStep, DeploymentConstants, DataPlaneAssumption
    <3> QED BY <1>1, <2>2, <3>1 DEF NodeSetCond
  <2> QED BY <2>1, <2>2
<1>3. \A e \in {d} : cached'[e] = cached[e] \/ cached'[e] = status[e]
  BY D!CachedWrites, DeploymentConstants, DataPlaneAssumption
<1>4. \/ NodeSetCond(cached'[d]) = NodeSetCond(cached[d])
      \/ NodeSetCond(cached'[d]) = NodeSetCond(status[d])
  BY <1>3 DEF NodeSetCond
<1> QED BY <1>2, <1>4

\* The reconcile in progress says True only when its own list is done, and the
\* list is that of the NodeSet.
LEMMA CurExecuted ==
  ASSUME D!TypeInv, D!SafeInv, NodeSetCond(cur) = "True"
  PROVE  Executed
<1>1. /\ me = d
      /\ snap \in [{n} -> SeenNodeSets]
  BY DEF D!TypeInv, D!TypeOK
<1>2. snap[n].services = ServiceList
  BY <1>1 DEF SeenNodeSets
<1>3. D!NodeSetAt(1) = n /\ D!ServicesAt(1) = ServiceList /\ 1 \in D!Places
  BY <1>1, <1>2 DEF D!NodeSetAt, D!ServicesAt, D!Places
<1>4. D!ListDone(1)
  BY <1>3 DEF D!SafeInv, D!ReadyDone, NodeSetCond, D!NodeSetReady
<1>5. \A s \in D!Ran(ServiceList) : D!Done(d, n, s)
  BY <1>1, <1>3, <1>4 DEF D!ListDone
<1> QED BY <1>5 DEF Executed, D!Ran

LEMMA ReportsInit == Init => ReportsTrue
<1> SUFFICES ASSUME Init PROVE ReportsTrue
  OBVIOUS
<1>1. /\ status[d] = D!EmptyStatus /\ cached[d] = D!EmptyStatus
      /\ nsCur = N!EmptyStatus /\ object.status = N!EmptyStatus
  BY DEF Init, D!Init
<1>2. NodeSetCond(D!EmptyStatus) # "True"
  BY DEF NodeSetCond, D!EmptyStatus, D!NSCondTypes, D!NodeSetReady
<1>3. N!EmptyStatus.conds["DeploymentReady"] # "True"
  BY DEF N!EmptyStatus, N!NodeSetConds
<1> QED BY <1>1, <1>2, <1>3 DEF ReportsTrue

\* checkDeployment says True only when the cached Deployment does.
LEMMA CheckReports ==
  ASSUME Types, ReportsTrue, N!CheckDeployment,
         nsCur'.conds["DeploymentReady"] = "True"
  PROVE  Executed
<1>1. PICK q \in N!Orders :
        nsCur' = [N!Checked(q) EXCEPT !.conds["SetupReady"] = "True",
                                      !.conds["DeploymentReady"] = N!Verdict(q)]
  BY DEF N!CheckDeployment
<1>2. N!Checked(q) \in N!StatusesWith(N!Cond)
  BY NodeSetConstants, N!CheckedType DEF Types
<1>3. nsCur'.conds["DeploymentReady"] = N!Verdict(q)
  <2> HIDE DEF N!Checked, N!Verdict
  <2> QED BY <1>1, <1>2 DEF N!StatusesWith, N!NodeSetConds
<1>4. \E e \in {d} : N!IsTrue([x \in {d} |-> DeploymentView(cached[x])][e].cond)
  BY <1>3, NodeSetFacts DEF Types, N!IsTrue
<1>5. DeploymentView(cached[d]).cond = "True"
  BY <1>4 DEF N!IsTrue
<1>6. NodeSetCond(cached[d]) = "True"
  BY <1>5 DEF DeploymentView, NodeSetCond
<1> QED BY <1>6 DEF ReportsTrue

LEMMA ReportsNext == Types /\ D!SafeInv /\ ReportsTrue /\ [Next]_vars => ReportsTrue'
<1> SUFFICES ASSUME Types, D!SafeInv, ReportsTrue, [Next]_vars PROVE ReportsTrue'
  OBVIOUS
<1>0. Executed => Executed'
  BY DoneKept, ExecutedStays
<1>1. ASSUME D!Next
      PROVE  /\ NodeSetCond(status'[d]) = "True" => Executed
             /\ NodeSetCond(cached'[d]) = "True" => Executed
  <2>1. D!TypeInv
    BY DEF Types
  <2> QED BY <1>1, <2>1, StatusReports, CurExecuted DEF ReportsTrue
<1>2. ASSUME N!Next
      PROVE  /\ nsCur'.conds["DeploymentReady"] = "True" => Executed
             /\ object'.status.conds["DeploymentReady"] = "True" => Executed
  <2>0. N!TypeInv /\ "DeploymentReady" \in N!Decided
    BY DEF Types, N!Decided
  <2>1. ASSUME ~N!CheckDeployment, nsCur'.conds["DeploymentReady"] = "True"
        PROVE  nsCur.conds["DeploymentReady"] = "True"
    BY <1>2, <2>0, <2>1, NodeSetConstants, N!CheckedWrites DEF N!IsTrue
  <2>2. ASSUME object'.status.conds["DeploymentReady"] = "True"
        PROVE  \/ object.status.conds["DeploymentReady"] = "True"
               \/ nsCur.conds["DeploymentReady"] = "True"
    BY <1>2, <2>0, <2>2, NodeSetConstants, N!PatchWrites DEF N!IsTrue
  <2> QED BY <2>1, <2>2, CheckReports DEF ReportsTrue
<1>3. CASE DeploymentStep
  BY <1>0, <1>1, <1>3 DEF DeploymentStep, ReportsTrue, nodeSetSide
<1>4. CASE NodeSetStep
  <2>1. CASE N!Next
    BY <1>0, <1>2, <1>4, <2>1 DEF NodeSetStep, ReportsTrue, deploymentVars
  <2>2. CASE N!InputChange
    <3>1. UNCHANGED <<nsCur, object, status, cached>>
      BY <1>4, <2>2 DEF NodeSetStep, deploymentVars, N!InputChange, N!worker
    <3> QED BY <1>0, <3>1 DEF ReportsTrue
  <2> QED BY <1>4, <2>1, <2>2 DEF NodeSetStep
<1>5. CASE BothStep
  <2>1. D!Next /\ N!Next
    BY <1>5 DEF BothStep, D!Next, N!Next, N!Faults
  <2> QED BY <1>0, <1>1, <1>2, <2>1 DEF ReportsTrue
<1>6. CASE UNCHANGED vars
  BY <1>0, <1>6 DEF ReportsTrue, vars, deploymentVars, nodeSetVars
<1> QED BY <1>3, <1>4, <1>5, <1>6, StepKinds

(***************************************************************************)
(* For every list of services: a NodeSet that reports DeploymentReady has  *)
(* had every service of its list executed, although the report passes      *)
(* through two status patches, two caches and a reset of the conditions.   *)
(***************************************************************************)
THEOREM ReportsAreTrue == Spec => []ReadyMeansExecuted
<1> DEFINE IInv == Types /\ D!SafeInv /\ ReportsTrue
<1>1. Init => IInv
  <2>1. Init => D!SafeInv
    BY DeploymentConstants, DistinctConditions, DataPlaneAssumption, D!SafeInvInit DEF Init
  <2> QED BY <2>1, TypesInit, ReportsInit
<1>2. IInv /\ [Next]_vars => IInv'
  BY TypesNext, SafeNext, ReportsNext
<1>3. IInv => ReadyMeansExecuted
  BY DEF ReportsTrue, ReadyMeansExecuted, IsTrue
<1> QED BY <1>1, <1>2, <1>3, PTL DEF Spec

-----------------------------------------------------------------------------
(* No execution without an inventory *)

\* A Deployment that has not passed its NodeSets reports nothing.
Silent(st) == NodeSetCond(st) \in {"Absent", "Unknown"}

SetupReported(st) == st.conds["SetupReady"] = "True"

\* What the lack of an inventory means for both controllers.
NothingStarted ==
  /\ \A x \in D!ExecutionNames : ~D!Exists(aee[x])
  /\ D!Waiting
  /\ Silent(status[d]) /\ Silent(cached[d]) /\ Silent(cur)

NotSetUp ==
  /\ ~SetupReported(object.status)
  /\ ~SetupReported(objectCache.status)
  /\ ~SetupReported(nsCur)

InventoryInv == inventory = 0 => NothingStarted /\ NotSetUp

LEMMA InventoryInit == Init => InventoryInv
<1> SUFFICES ASSUME Init PROVE InventoryInv
  OBVIOUS
<1>1. /\ status[d] = D!EmptyStatus /\ cached[d] = D!EmptyStatus /\ cur = D!EmptyStatus
      /\ nsCur = N!EmptyStatus /\ object.status = N!EmptyStatus /\ objectCache = object
      /\ pc = "idle" /\ aee = [x \in D!ExecutionNames |-> D!NoAEE]
  BY DEF Init, D!Init
<1>2. Silent(D!EmptyStatus)
  BY DEF Silent, NodeSetCond, D!EmptyStatus, D!NSCondTypes, D!NodeSetReady
<1>3. ~SetupReported(N!EmptyStatus)
  BY DEF SetupReported, N!EmptyStatus, N!NodeSetConds
<1>4. \A x \in D!ExecutionNames : ~D!Exists(aee[x])
  BY <1>1 DEF D!Exists, D!NoAEE
<1> QED BY <1>1, <1>2, <1>3, <1>4 DEF InventoryInv, NothingStarted, NotSetUp, D!Waiting

\* The Deployment controller starts nothing while the NodeSet is not set up.
LEMMA StaysSilent ==
  ASSUME D!TypeInv, [D!Next]_(D!vars), NothingStarted, NotSetUp
  PROVE  NothingStarted'
<1>1. pc = "nodesets" => ~D!NodeSetsReady
  <2>1. me = d
    BY DEF D!TypeInv, D!TypeOK
  <2>2. n \in D!Ran([x \in {d} |-> <<n>>][me])
    BY <2>1 DEF D!Ran
  <2>3. ~[x \in {n} |-> NodeSetView(objectCache)][n].setupReady
    BY DEF NotSetUp, SetupReported, NodeSetView, IsTrue
  <2> QED BY <2>2, <2>3 DEF D!NodeSetsReady
<1>2. /\ D!Waiting'
      /\ \A m \in {n} : cur'.nsConds[m][D!NodeSetReady]
                          \in {cur.nsConds[m][D!NodeSetReady], "Unknown", "Absent"}
  <2>1. D!Waiting
    BY DEF NothingStarted
  <2> QED BY <1>1, <2>1, D!WaitingSteps, DeploymentConstants, DataPlaneAssumption
<1>3. Silent(cur)'
  BY <1>2 DEF Silent, NodeSetCond, D!NodeSetReady, NothingStarted
<1>4. Silent(status[d])' /\ Silent(cached[d])'
  BY StatusReports DEF Silent, NothingStarted
<1>5. \A x \in D!ExecutionNames : ~D!Exists(aee'[x])
  <2>1. SUFFICES ASSUME NEW x \in D!ExecutionNames, D!Exists(aee'[x])
                 PROVE  FALSE
    OBVIOUS
  <2>2. ~D!Exists(aee[x])
    BY DEF NothingStarted
  <2>3. D!DeployService
    BY <2>1, <2>2, D!Creations, DeploymentConstants, DataPlaneAssumption
  <2> QED BY <2>3 DEF D!DeployService, NothingStarted, D!Waiting
<1> QED BY <1>2, <1>3, <1>4, <1>5 DEF NothingStarted

\* The NodeSet controller does not report SetupReady before it has written the
\* inventory: it would leave the inventory alone only for a Deployment that
\* reports something.
LEMMA StaysNotSetUp ==
  ASSUME N!TypeInv, [N!Next]_(N!vars), NothingStarted, NotSetUp, inventory = 0, inventory' = 0
  PROVE  NotSetUp'
<1>1. ~N!CheckDeployment
  <2>1. SUFFICES ASSUME N!CheckDeployment PROVE FALSE
    OBVIOUS
  <2>2. PICK q \in N!Orders :
          IF N!GeneratesInventory(q) THEN inventory' = nsRead.generation
          ELSE UNCHANGED inventory
    BY <2>1 DEF N!CheckDeployment, N!GenerateNodeSetInventory
  <2>3. nsRead.generation # 0
    <3>1. nsRead \in N!StoredNodeSet
      BY <2>1 DEF N!CheckDeployment, N!TypeInv, N!ReadStored
    <3> QED BY <3>1, NodeSetConstants DEF N!StoredNodeSet
  <2>4. ~N!GeneratesInventory(q)
    <3> HIDE DEF N!GeneratesInventory
    <3> QED BY <2>2, <2>3
  <2>5. \E e \in {d} : N!IsFalse([x \in {d} |-> DeploymentView(cached[x])][e].cond)
    BY <2>4, NodeSetFacts
  <2>6. NodeSetCond(cached[d]) \in N!FalseConds
    BY <2>5 DEF DeploymentView, NodeSetCond, N!IsFalse
  <2> QED BY <2>6 DEF NothingStarted, Silent, N!FalseConds
<1>0. "SetupReady" \in N!Decided
  BY DEF N!Decided
<1>2. ~SetupReported(nsCur)'
  BY <1>0, <1>1, NodeSetConstants, N!CheckedWrites DEF N!IsTrue, NotSetUp, SetupReported
<1>3. ~SetupReported(object.status)'
  BY <1>0, NodeSetConstants, N!PatchWrites DEF N!IsTrue, NotSetUp, SetupReported
<1>4. objectCache' \in {objectCache, object}
  BY NodeSetConstants, N!CachedWrites
<1>5. ~SetupReported(objectCache.status)'
  BY <1>4 DEF NotSetUp, SetupReported
<1> QED BY <1>2, <1>3, <1>5 DEF NotSetUp

LEMMA InventoryNext == Types /\ InventoryInv /\ [Next]_vars => InventoryInv'
<1> SUFFICES ASSUME Types, InventoryInv, [Next]_vars, inventory' = 0
             PROVE  NothingStarted' /\ NotSetUp'
  BY DEF InventoryInv
<1>1. inventory = 0
  <2>1. CASE N!Next
    <3>1. inventory' # inventory => inventory' >= 1
      BY <2>1, NodeSetConstants, N!InventoryWrites DEF Types
    <3> QED BY <3>1
  <2>2. CASE UNCHANGED inventory
    BY <2>2
  <2> QED BY <2>1, <2>2, StepKinds
          DEF DeploymentStep, NodeSetStep, BothStep, N!Next, N!Faults, N!InputChange,
              nodeSetSide, vars, nodeSetVars
<1>2. D!TypeInv /\ N!TypeInv /\ NothingStarted /\ NotSetUp
  BY <1>1 DEF Types, InventoryInv
<1>3. CASE DeploymentStep
  BY <1>2, <1>3, StaysSilent DEF DeploymentStep, nodeSetSide, NotSetUp
<1>4. CASE NodeSetStep
  <2>1. NothingStarted'
    BY <1>2, <1>4 DEF NodeSetStep, deploymentVars, NothingStarted, D!Waiting
  <2>2. CASE N!Next
    BY <1>1, <1>2, <2>1, <2>2, StaysNotSetUp
  <2>3. CASE N!InputChange
    BY <1>2, <2>1, <2>3 DEF N!InputChange, N!caches, N!worker, NotSetUp
  <2> QED BY <1>4, <2>2, <2>3 DEF NodeSetStep
<1>5. CASE BothStep
  <2>1. D!Next /\ N!Next
    BY <1>5 DEF BothStep, D!Next, N!Next, N!Faults
  <2> QED BY <1>1, <1>2, <2>1, StaysSilent, StaysNotSetUp
<1>6. CASE UNCHANGED vars
  BY <1>2, <1>6 DEF vars, deploymentVars, nodeSetVars, NothingStarted, NotSetUp, D!Waiting
<1> QED BY <1>3, <1>4, <1>5, <1>6, StepKinds

(***************************************************************************)
(* For every list of services and every order of events: no Ansible        *)
(* execution is created before the NodeSet has an inventory.               *)
(***************************************************************************)
THEOREM InventoryComesFirst == Spec => []InventoryBeforeExecution
<1>1. Types /\ InventoryInv => InventoryBeforeExecution
  BY DEF InventoryInv, NothingStarted, InventoryBeforeExecution
<1> QED BY <1>1, TypesInit, TypesNext, InventoryInit, InventoryNext, PTL DEF Spec

-----------------------------------------------------------------------------
(* The NodeSet controller is an environment of the Deployment controller *)

\* Only the watch of the NodeSets changes what the Deployment controller reads.
LEMMA CacheKept ==
  ASSUME [Next]_vars, ~SyncNodeSet
  PROVE  UNCHANGED objectCache
<1>1. CASE NodeSetReconcile
  BY <1>1 DEF NodeSetReconcile, OfNodeSet, N!Reconcile, N!Fetch, N!SetupStops,
              N!SetupDone, N!CheckDeployment, N!PatchInstance, N!Return, N!caches
<1>2. CASE NodeSetFault
  BY <1>2 DEF NodeSetFault, OfNodeSet, N!CheckDeploymentError, N!InventoryError,
              N!PatchInstanceError, N!Return, N!caches
<1>3. CASE InputChange \/ Edit
  BY <1>3 DEF InputChange, Edit, OfNodeSet, N!InputChange, N!Edit, N!caches
<1> QED BY <1>1, <1>2, <1>3
        DEF Next, DeploymentRequest, DeploymentReconcile, JobStep, SyncAEE,
            SyncDeployment, Crash, OfDeployment, vars, nodeSetVars

\* The watch delivers a NodeSet: a change of the view, or none.
LEMMA SyncIsChange ==
  ASSUME N!TypeInv, N!HashInv, SyncNodeSet
  PROVE  UNCHANGED <<D!store, queue, D!worker>> \/ D!NodeSetChange(n)
<1>1. /\ objectCache' = object /\ UNCHANGED deploymentVars /\ UNCHANGED faults
  BY DEF SyncNodeSet, OfNodeSet, N!SyncNodeSet
<1> DEFINE old == NodeSetView(objectCache)
           new == NodeSetView(object)
<1>2. new \in SeenNodeSets
  BY ViewTypes DEF N!TypeInv, N!TypeOK, N!HashInv
<1>3. /\ [x \in {n} |-> NodeSetView(objectCache)] = [x \in {n} |-> old]
      /\ [x \in {n} |-> NodeSetView(objectCache)]' = [x \in {n} |-> new]
  BY <1>1
<1> HIDE DEF old, new
<1>4. CASE new = old
  BY <1>1, <1>3, <1>4 DEF D!store, D!env, D!worker, deploymentVars
<1>5. CASE new # old
  <2>1. /\ [x \in {n} |-> new] = [[x \in {n} |-> old] EXCEPT ![n] = new]
        /\ [x \in {n} |-> old][n] = old
    OBVIOUS
  <2> QED BY <1>1, <1>2, <1>3, <1>5, <2>1 DEF D!NodeSetChange, D!worker, deploymentVars
<1> QED BY <1>4, <1>5

(***************************************************************************)
(* For every list of services: what the NodeSet controller does is, for    *)
(* the Deployment controller, either invisible or a change to a NodeSet    *)
(* that its specification allows for.  A NodeSet that it sees set up has   *)
(* announced the hash of a spec: no reconcile ends without one, since the  *)
(* first finds no deployed hash and the later ones, from however stale a   *)
(* copy, never take it back.                                               *)
(***************************************************************************)
THEOREM NodeSetIsEnvironment == Spec => ImplementsDeployment
<1>1. ASSUME Types, [Next]_vars
      PROVE  UNCHANGED <<D!store, queue, D!worker>> \/ D!Next
  <2>1. CASE SyncNodeSet
    BY <1>1, <2>1, SyncIsChange DEF Types, D!Next
  <2>2. CASE UNCHANGED deploymentVars /\ ~SyncNodeSet
    <3>1. UNCHANGED objectCache
      BY <1>1, <2>2, CacheKept
    <3> QED BY <2>2, <3>1 DEF deploymentVars, D!store, D!env, D!worker
  <2> QED BY <1>1, <2>1, <2>2, StepKinds
          DEF DeploymentStep, NodeSetStep, BothStep, D!Next, vars
<1>2. Init => D!Init
  BY DEF Init
<1>3. Types /\ [Next]_vars => [UNCHANGED <<D!store, queue, D!worker>> \/ D!Next]_vars
  BY <1>1
<1> QED BY <1>2, <1>3, TypesInit, TypesNext, PTL DEF Spec, ImplementsDeployment

=============================================================================

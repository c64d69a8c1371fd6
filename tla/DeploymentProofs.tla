-------------------------- MODULE DeploymentProofs --------------------------
(***************************************************************************)
(* Proofs about Deployment for every number of Deployments, NodeSets and   *)
(* services, every service list and every bound.                           *)
(***************************************************************************)
EXTENDS Deployment, TLAPS

-----------------------------------------------------------------------------
(* The inductive invariant of the types *)

\* The cache never runs ahead of the store, and agrees with it on the labels
\* and on the jobs that have succeeded.
CacheBehind ==
  \A x \in ExecutionNames :
    Exists(aeeCache[x]) =>
      /\ Exists(aee[x])
      /\ aee[x].label = aeeCache[x].label
      /\ aeeCache[x].job = "Succeeded" => aee[x].job = "Succeeded"

\* A job that will be retried has retries left.
RetriesLeft ==
  \A x \in ExecutionNames :
    aee[x].job = "Failed" => aee[x].retries < BackoffLimit

\* The positions of the loops over NodeSets and services.
InLoop ==
  /\ ni >= 1 /\ si >= 1
  /\ pc \in {"deploy", "check"} => ni <= Len(SpecNodeSets[me])
  /\ pc = "check" => AtService
  /\ pc = "conclude" => ni = Len(SpecNodeSets[me]) + 1

TypeInv == TypeOK /\ CacheBehind /\ RetriesLeft /\ InLoop

LEMMA MirrorType ==
  ASSUME NEW S PROVE Mirror(S) \in Cond
BY DEF Mirror, Cond, FalseConds

LEMMA EmptyStatusType == EmptyStatus \in Status
BY DEF EmptyStatus, Status, Cond, FalseConds

LEMMA InitConditionsType ==
  ASSUME NEW d \in Deployments, NEW st \in Status
  PROVE  InitConditions(d, st) \in Status
BY DEF InitConditions, Status, Cond, FalseConds

LEMMA NameType ==
  ASSUME NEW s \in Services, NEW d \in Deployments, NEW n \in NodeSets
  PROVE  ExecutionName(s, d, n) \in ExecutionNames
<1> DEFINE l == <<s, d, n>>
<1>1. l \in Labels /\ l[1] = s /\ l[2] = d /\ l[3] = n
  BY DEF Labels
<1> HIDE DEF l
<1> QED BY <1>1 DEF ExecutionNames

LEMMA ServicesAtType ==
  ASSUME TypeOK, NEW i \in 1..Len(SpecNodeSets[me])
  PROVE  /\ NodeSetAt(i) \in NodeSets
         /\ ServicesAt(i) \in Seq(Services)
         /\ snap[NodeSetAt(i)].configHash \in ConfigHashes
<1>1. NodeSetAt(i) \in NodeSets
  BY SpecAssumption DEF TypeOK, NodeSetAt
<1>2. snap[NodeSetAt(i)] \in NodeSetViews
  BY <1>1 DEF TypeOK
<1>3. snap[NodeSetAt(i)].services \in Seq(Services)
      /\ snap[NodeSetAt(i)].configHash \in ConfigHashes
  BY <1>2, ViewAssumption
<1> QED BY <1>1, <1>3, SpecAssumption DEF ServicesAt, TypeOK

LEMMA ThisType ==
  ASSUME TypeInv, pc \in {"deploy", "check"}
  PROVE  /\ ThisNodeSet \in NodeSets
         /\ ThisConds \in [NSCondTypes -> Cond]
         /\ ServicesAt(ni) \in Seq(Services)
         /\ snap[ThisNodeSet].configHash \in ConfigHashes
         /\ AtService => /\ ThisService \in Services
                         /\ ThisLabel \in Labels
                         /\ ThisName \in ExecutionNames
                         /\ ConditionType[ThisService] \in NSCondTypes
                         /\ ConditionType[ThisService] # NodeSetReady
<1>1. ni \in 1..Len(SpecNodeSets[me])
  BY SpecAssumption DEF TypeInv, InLoop, TypeOK
<1>2. /\ ThisNodeSet \in NodeSets
      /\ ServicesAt(ni) \in Seq(Services)
      /\ snap[ThisNodeSet].configHash \in ConfigHashes
  BY <1>1, ServicesAtType DEF TypeInv, ThisNodeSet
<1>3. ThisConds \in [NSCondTypes -> Cond]
  BY <1>2 DEF TypeInv, TypeOK, Status, ThisConds
<1>4. ASSUME AtService
      PROVE  ThisService \in Services
  BY <1>2, <1>4 DEF AtService, ThisService, TypeInv, InLoop, TypeOK
<1>5. ASSUME AtService
      PROVE  ThisLabel \in Labels /\ ThisName \in ExecutionNames
  BY <1>2, <1>4, <1>5, NameType DEF ThisLabel, Labels, ThisName, TypeInv, TypeOK
<1>6. ASSUME AtService
      PROVE  /\ ConditionType[ThisService] \in NSCondTypes
             /\ ConditionType[ThisService] # NodeSetReady
  BY <1>4, <1>6, ConstantAssumption DEF NSCondTypes, ServiceConds
<1> QED BY <1>2, <1>3, <1>4, <1>5, <1>6

\* What is left of TypeOK when the store is unchanged.
WorkerTypeOK ==
  /\ queue \subseteq Deployments
  /\ pc \in {"idle", "nodesets", "prepare", "deploy", "check", "conclude", "patch"}
  /\ me \in Deployments
  /\ before \in Status
  /\ cur \in Status
  /\ snap \in [NodeSets -> NodeSetViews]
  /\ ni \in Nat /\ si \in Nat
  /\ errs \in {"none", "Warning", "Backoff"}
  /\ requeue \in BOOLEAN
  /\ again \in BOOLEAN
  /\ faults \in 0..MaxFaults

LEMMA StoreUnchanged ==
  ASSUME TypeInv, UNCHANGED store, WorkerTypeOK', InLoop'
  PROVE  TypeInv'
BY DEF TypeInv, TypeOK, CacheBehind, RetriesLeft, WorkerTypeOK, store, env, Exists

LEMMA FaultsType ==
  ASSUME TypeOK, Fault \/ NoFault
  PROVE  faults' \in 0..MaxFaults
BY ConstantAssumption DEF TypeOK, Fault, NoFault

LEMMA CurType ==
  ASSUME TypeOK
  PROVE  /\ \A c \in DeploymentConds, v \in Cond :
              [cur EXCEPT !.conds[c] = v] \in Status
         /\ \A n \in NodeSets, f \in [NSCondTypes -> Cond] :
              [cur EXCEPT !.nsConds[n] = f] \in Status
BY DEF TypeOK, Status

LEMMA ReturnType ==
  ASSUME TypeInv, pc \in {"nodesets", "prepare", "check", "conclude"}, cur' \in Status,
         Fault \/ NoFault, NEW b \in BOOLEAN, Return(b)
  PROVE  TypeInv'
<1>1. faults' \in 0..MaxFaults
  BY FaultsType DEF TypeInv
<1>2. WorkerTypeOK'
  BY <1>1 DEF TypeInv, TypeOK, WorkerTypeOK, Return, loop
<1>3. InLoop' /\ UNCHANGED store
  BY DEF TypeInv, InLoop, Return, loop
<1> QED BY <1>2, <1>3, StoreUnchanged

LEMMA LeaveNodeSetType ==
  ASSUME TypeInv, pc \in {"deploy", "check"},
         NEW conds \in [NSCondTypes -> Cond],
         NEW done \in BOOLEAN, NEW failed \in BOOLEAN,
         LeaveNodeSet(conds, done, failed), UNCHANGED store, Fault \/ NoFault
  PROVE  TypeInv'
<1> DEFINE ready == IF done THEN "True" ELSE Mirror({conds[t] : t \in NSCondTypes})
<1>1. ready \in Cond
  BY MirrorType DEF Cond
<1> HIDE DEF ready
<1>2. [conds EXCEPT ![NodeSetReady] = ready] \in [NSCondTypes -> Cond]
  BY <1>1
<1>3. cur' = [cur EXCEPT !.nsConds[ThisNodeSet] =
                           [conds EXCEPT ![NodeSetReady] = ready]]
  BY DEF LeaveNodeSet, ready
<1>4. cur' \in Status
  BY <1>2, <1>3, ThisType, CurType DEF TypeInv
<1>5. faults' \in 0..MaxFaults
  BY FaultsType DEF TypeInv
<1>6. Len(SpecNodeSets[me]) \in Nat
  BY SpecAssumption DEF TypeInv, TypeOK
<1>7. /\ requeue' \in BOOLEAN
      /\ errs' \in {"none", "Warning", "Backoff"}
      /\ ni' = ni + 1 /\ si' = 1
      /\ pc' = IF ni = Len(SpecNodeSets[me]) THEN "conclude" ELSE "deploy"
      /\ UNCHANGED <<me, before, snap, again, queue>>
  BY DEF LeaveNodeSet, loop, TypeInv, TypeOK
<1>8. WorkerTypeOK'
  BY <1>4, <1>5, <1>7 DEF TypeInv, TypeOK, WorkerTypeOK
<1>9. InLoop'
  BY <1>6, <1>7 DEF TypeInv, InLoop, TypeOK
<1> QED BY <1>8, <1>9, StoreUnchanged

LEMMA IdleType ==
  ASSUME TypeInv, Idle, Fault \/ NoFault
  PROVE  /\ me' \in Deployments
         /\ before' \in Status /\ cur' \in Status
         /\ snap' \in [NodeSets -> NodeSetViews]
         /\ pc' = "idle" /\ ni' = 1 /\ si' = 1
         /\ errs' = "none" /\ requeue' = FALSE /\ again' = FALSE
         /\ faults' \in 0..MaxFaults
         /\ InLoop'
<1>1. faults' \in 0..MaxFaults
  BY FaultsType DEF TypeInv
<1> QED BY <1>1, EmptyStatusType DEF Idle, TypeInv, TypeOK, InLoop

LEMMA PatchedType ==
  ASSUME NEW old \in Status, NEW new \in Status, NEW stored \in Status,
         NEW touched \in BOOLEAN
  PROVE  PatchedStatus(old, new, stored, touched) \in Status
BY DEF PatchedStatus, Merge, Status

LEMMA SetReadyType ==
  ASSUME NEW st \in Status
  PROVE  [st EXCEPT !.conds = SetReady(@)] \in Status
<1>1. Mirror({st.conds[c] : c \in DeploymentConds \ {"Ready"}}) \in Cond
  BY MirrorType
<1>2. SetReady(st.conds) \in [DeploymentConds -> Cond]
  BY <1>1 DEF SetReady, Status
<1> HIDE DEF SetReady
<1> QED BY <1>2 DEF Status

LEMMA SetHashesType ==
  ASSUME TypeInv, NEW st \in Status, NEW hashed \in SUBSET DeployedServices,
         NEW failed
  PROVE  SetHashes(st, hashed, failed) \in Status
<1>1. \A i \in DOMAIN SpecNodeSets[me] : ServicesAt(i) \in Seq(Services)
  BY ServicesAtType, SpecAssumption DEF TypeInv, TypeOK
<1>2. DeployedServices \subseteq Services
  BY <1>1 DEF DeployedServices, Ran
<1>3. \A n \in NodeSets : snap[n].configHash \in ConfigHashes
  BY ViewAssumption DEF TypeInv, TypeOK
<1> HIDE DEF DeployedServices
<1>4. [st EXCEPT !.hashed = @ \cup hashed] \in Status
  BY <1>2 DEF Status
<1>5. [n \in NodeSets |-> IF n \in Ran(SpecNodeSets[me])
                          THEN snap[n].configHash ELSE st.nodeSetHashes[n]]
        \in [NodeSets -> ConfigHashes \cup {NoHash}]
  BY <1>3 DEF Status
<1>6. [st EXCEPT !.hashed = @ \cup DeployedServices,
                 !.nodeSetHashes = [n \in NodeSets |->
                    IF n \in Ran(SpecNodeSets[me])
                    THEN snap[n].configHash ELSE @[n]]] \in Status
  BY <1>2, <1>5 DEF Status
<1> QED BY <1>4, <1>6 DEF SetHashes

LEMMA ExecutedType ==
  ASSUME TypeInv, pc = "deploy", AtService, CanExecute
  PROVE  /\ Executed \in [ExecutionNames -> AEE \cup {NoAEE}]
         /\ \A x \in ExecutionNames : Exists(aee[x]) =>
              /\ Exists(Executed[x])
              /\ Executed[x].label = aee[x].label
              /\ Executed[x].job = aee[x].job
              /\ Executed[x].retries = aee[x].retries
         /\ \A x \in ExecutionNames :
              ~Exists(aee[x]) => Executed[x] = NoAEE \/ Executed[x].job = "Active"
<1> DEFINE h == snap[ThisNodeSet].configHash
           new == [label |-> ThisLabel, job |-> "Active", spec |-> h, retries |-> 0]
<1>1. /\ ThisName \in ExecutionNames /\ ThisLabel \in Labels
      /\ h \in ConfigHashes
  BY ThisType
<1>2. new \in AEE
  BY <1>1, ConstantAssumption DEF AEE, JobStatus
<1>3. aee \in [ExecutionNames -> AEE \cup {NoAEE}] /\ CacheBehind
  BY DEF TypeInv, TypeOK
<1>4. CASE InCache
  <2>1. Executed = [aee EXCEPT ![ThisName].spec = h]
    BY <1>4 DEF Executed
  <2>2. aee[ThisName] \in AEE
    BY <1>1, <1>3, <1>4 DEF InCache, CacheBehind, Exists, NoAEE
  <2> HIDE DEF h
  <2>3. [aee[ThisName] EXCEPT !.spec = h] \in AEE
    BY <1>1, <2>2 DEF AEE
  <2>4. /\ Executed \in [ExecutionNames -> AEE \cup {NoAEE}]
        /\ \A x \in ExecutionNames :
             Executed[x] = IF x = ThisName THEN [aee[x] EXCEPT !.spec = h] ELSE aee[x]
    BY <1>1, <1>3, <2>1, <2>3
  <2>5. \A x \in ExecutionNames : ~Exists(aee[x]) => aee[x] = NoAEE
    BY <1>3 DEF Exists, AEE
  <2>6. Exists(aee[ThisName])
    BY <2>2 DEF Exists, AEE
  <2> QED BY <1>1, <2>2, <2>4, <2>5, <2>6 DEF Exists, AEE
<1>5. CASE ~InCache
  <2>1. ~Exists(aee[ThisName])
    BY <1>5 DEF CanExecute
  <2>2. Executed = [aee EXCEPT ![ThisName] = new]
    BY <1>5 DEF Executed
  <2>3. new.job = "Active"
    OBVIOUS
  <2> HIDE DEF new
  <2>4. \A x \in ExecutionNames : ~Exists(aee[x]) => aee[x] = NoAEE
    BY <1>3 DEF Exists, AEE
  <2> QED BY <1>1, <1>2, <1>3, <2>1, <2>2, <2>3, <2>4
<1> QED BY <1>4, <1>5

LEMMA TypeInvInit == Init => TypeInv
<1> SUFFICES ASSUME Init PROVE TypeInv
  OBVIOUS
<1>1. NoAEE.job = "Absent" /\ 0 \in 0..MaxFaults
  BY ConstantAssumption DEF NoAEE
<1>2. TypeOK
  BY <1>1, EmptyStatusType DEF Init, TypeOK
<1>3. CacheBehind /\ RetriesLeft
  BY <1>1 DEF Init, CacheBehind, RetriesLeft, Exists
<1> QED BY <1>2, <1>3 DEF Init, TypeInv, InLoop

\* A reconcile step before the loop over the NodeSets.
LEMMA PrepareType ==
  ASSUME TypeInv,
         \/ NodeSetsNotReady \/ NodeSetGetError \/ EnsureNodeSets
         \/ TLSServiceMissing \/ EnsureTLSCertsError \/ EnsureTLSCerts
         \/ ConsistencyError \/ GetVersionError \/ BeginDeploy
  PROVE  TypeInv'
<1> USE DEF TypeInv
<1>p. \A q \in Positions : /\ q[1] \in 1..Len(SpecNodeSets[me])
                           /\ NodeSetAt(q[1]) \in NodeSets
                           /\ CertPair(q) \in NodeSets \X Services
  <2> SUFFICES ASSUME NEW q \in Positions
               PROVE  /\ q[1] \in 1..Len(SpecNodeSets[me])
                      /\ NodeSetAt(q[1]) \in NodeSets
                      /\ CertPair(q) \in NodeSets \X Services
    OBVIOUS
  <2>0. PICK i \in DOMAIN SpecNodeSets[me] :
               q \in {<<i, j>> : j \in DOMAIN ServicesAt(i)}
    BY DEF Positions
  <2>1. PICK j \in DOMAIN ServicesAt(i) : q = <<i, j>>
    BY <2>0
  <2>2. i \in 1..Len(SpecNodeSets[me])
    BY <2>1, SpecAssumption DEF TypeOK
  <2>3. NodeSetAt(i) \in NodeSets /\ ServicesAt(i)[j] \in Services
    BY <2>1, <2>2, ServicesAtType
  <2> QED BY <2>1, <2>2, <2>3 DEF CertPair, ServiceAt
<1>c. /\ {"Ready", "DeploymentReady", "InputReady", "SetupReady"} = DeploymentConds
      /\ {"Error", "True", "Requested", "Unknown"} \subseteq Cond
  BY DEF DeploymentConds, Cond, FalseConds
<1>e. ASSUME NEW q \in Positions, TLSError(q) PROVE cur' \in Status
  <2> DEFINE where == NodeSetAt(q[1])
             f == [cur.nsConds[where] EXCEPT ![NodeSetReady] = "Error"]
             g == [cur.conds EXCEPT !["InputReady"] = "Error"]
  <2>1. where \in NodeSets
    BY <1>p, <1>e
  <2>2. cur \in Status
    BY DEF TypeOK
  <2>3. f \in [NSCondTypes -> Cond] /\ g \in [DeploymentConds -> Cond]
    BY <1>c, <2>1, <2>2 DEF Status
  <2>4. cur' = [cur EXCEPT !.conds = g, !.nsConds[where] = f]
    BY <1>e, <2>1, <2>2 DEF TLSError, Status
  <2> HIDE DEF f, g, where
  <2> QED BY <2>1, <2>2, <2>3, <2>4 DEF Status
<1>1. CASE NodeSetsNotReady
  <2>1. cur' \in Status
    BY <1>1 DEF NodeSetsNotReady, TypeOK
  <2> QED BY <1>1, <2>1, ReturnType DEF NodeSetsNotReady
<1>2. CASE NodeSetGetError
  <2>1. cur' \in Status
    BY <1>2, <1>c, CurType DEF NodeSetGetError
  <2> QED BY <1>2, <2>1, ReturnType DEF NodeSetGetError
<1>3. CASE EnsureNodeSets
  <2>1. WorkerTypeOK' /\ InLoop' /\ UNCHANGED store
    BY <1>3 DEF EnsureNodeSets, WorkerTypeOK, TypeOK, InLoop, NoFault
  <2> QED BY <2>1, StoreUnchanged
<1>4. CASE TLSServiceMissing
  <2>1. cur' \in Status
    BY <1>4, <1>e DEF TLSServiceMissing
  <2> QED BY <1>4, <2>1, ReturnType DEF TLSServiceMissing
<1>5. CASE EnsureTLSCertsError
  <2>1. cur' \in Status
    BY <1>5, <1>e DEF EnsureTLSCertsError
  <2> QED BY <1>5, <2>1, ReturnType DEF EnsureTLSCertsError
<1>6. CASE EnsureTLSCerts
  <2>1. certs' \subseteq NodeSets \X Services
    BY <1>6, <1>p DEF EnsureTLSCerts, TypeOK
  <2>2. TypeOK'
    BY <1>6, <2>1 DEF EnsureTLSCerts, TypeOK, loop, NoFault
  <2>3. CacheBehind' /\ RetriesLeft' /\ InLoop'
    BY <1>6 DEF EnsureTLSCerts, CacheBehind, RetriesLeft, InLoop, Exists, loop
  <2> QED BY <2>2, <2>3
<1>7. CASE ConsistencyError
  <2>1. cur' \in Status
    BY <1>7, <1>c DEF ConsistencyError, TypeOK, Status
  <2> QED BY <1>7, <2>1, ReturnType DEF ConsistencyError
<1>8. CASE GetVersionError
  <2>1. cur' \in Status
    BY <1>8, <1>c, CurType DEF GetVersionError
  <2> QED BY <1>8, <2>1, ReturnType DEF GetVersionError
<1>9. CASE BeginDeploy
  <2>1. cur' \in Status
    BY <1>9, <1>c DEF BeginDeploy, TypeOK, Status
  <2>2. WorkerTypeOK'
    BY <1>9, <2>1 DEF BeginDeploy, WorkerTypeOK, TypeOK, NoFault, loop
  <2>3. InLoop' /\ UNCHANGED store
    BY <1>9, SpecAssumption DEF BeginDeploy, InLoop, loop, TypeOK
  <2> QED BY <2>2, <2>3, StoreUnchanged
<1> QED BY <1>1, <1>2, <1>3, <1>4, <1>5, <1>6, <1>7, <1>8, <1>9

\* A reconcile step of the loops over NodeSets and services.
LEMMA LoopType ==
  ASSUME TypeInv,
         \/ NodeSetDone \/ ServiceError \/ ServiceReady \/ ServicePending
         \/ DeployService \/ DeployServiceError
         \/ ExecutionNotFound \/ ExecutionLookupError \/ ExecutionSucceeded
         \/ ExecutionInProgress \/ ExecutionFailed
  PROVE  TypeInv'
<1> USE DEF TypeInv
<1>t. /\ pc \in {"deploy", "check"}
      /\ ThisConds \in [NSCondTypes -> Cond]
      /\ ThisNodeSet \in NodeSets
      /\ ServicesAt(ni) \in Seq(Services)
      /\ pc = "check" => AtService
  <2>1. pc \in {"deploy", "check"}
    BY DEF NodeSetDone, ServiceError, ServiceReady, ServicePending, DeployService,
           DeployServiceError, ExecutionNotFound, ExecutionLookupError, ExecutionSucceeded,
           ExecutionInProgress, ExecutionFailed
  <2> QED BY <2>1, ThisType DEF InLoop
<1>w. ASSUME AtService, NEW c \in Cond
      PROVE  WithCond(c) \in [NSCondTypes -> Cond]
  BY <1>t, <1>w DEF WithCond
<1>c. {"Error", "True", "Requested", "Warning", "Backoff"} \subseteq Cond
  BY DEF Cond, FalseConds
<1>1. CASE NodeSetDone
  BY <1>1, <1>t, LeaveNodeSetType DEF NodeSetDone
<1>2. CASE ServiceError
  <2>1. WithCond("Error") \in [NSCondTypes -> Cond]
    BY <1>2, <1>w, <1>c DEF ServiceError
  <2> QED BY <1>2, <1>t, <2>1, LeaveNodeSetType DEF ServiceError
<1>3. CASE ServiceReady
  <2>1. WorkerTypeOK' /\ UNCHANGED store
    BY <1>3 DEF ServiceReady, WorkerTypeOK, TypeOK, loop, NoFault
  <2>2. InLoop'
    BY <1>3 DEF ServiceReady, InLoop, loop, TypeOK
  <2> QED BY <2>1, <2>2, StoreUnchanged
<1>4. CASE ServicePending
  <2>1. WorkerTypeOK' /\ UNCHANGED store
    BY <1>4 DEF ServicePending, WorkerTypeOK, TypeOK, loop, NoFault
  <2>2. InLoop'
    BY <1>4 DEF ServicePending, InLoop, AtService, ServicesAt, NodeSetAt, loop
  <2> QED BY <2>1, <2>2, StoreUnchanged
<1>5. CASE DeployService
  <2>1. /\ Executed \in [ExecutionNames -> AEE \cup {NoAEE}]
        /\ \A x \in ExecutionNames : Exists(aee[x]) =>
             /\ Exists(Executed[x])
             /\ Executed[x].label = aee[x].label
             /\ Executed[x].job = aee[x].job
             /\ Executed[x].retries = aee[x].retries
        /\ \A x \in ExecutionNames :
             ~Exists(aee[x]) => Executed[x] = NoAEE \/ Executed[x].job = "Active"
    BY <1>5, ExecutedType DEF DeployService
  <2>2. aee' = Executed
    BY <1>5 DEF DeployService
  <2> HIDE DEF Executed
  <2>3. TypeOK'
    BY <1>5, <2>1, <2>2 DEF DeployService, TypeOK, loop, env, NoFault
  <2>4. CacheBehind'
    BY <1>5, <2>1, <2>2 DEF DeployService, CacheBehind
  <2>5. RetriesLeft'
    BY <1>5, <2>1, <2>2 DEF RetriesLeft, NoAEE, Exists
  <2>6. InLoop'
    BY <1>5 DEF DeployService, InLoop, AtService, ServicesAt, NodeSetAt, loop
  <2> QED BY <2>3, <2>4, <2>5, <2>6
<1>6. CASE DeployServiceError
  BY <1>6, <1>t, LeaveNodeSetType DEF DeployServiceError
<1>7. CASE ExecutionNotFound
  BY <1>7, <1>t, LeaveNodeSetType DEF ExecutionNotFound
<1>8. CASE ExecutionSucceeded
  <2>1. WithCond("True") \in [NSCondTypes -> Cond]
    BY <1>8, <1>t, <1>w, <1>c DEF ExecutionSucceeded
  <2>2. cur' \in Status
    BY <1>8, <1>t, <2>1, CurType DEF ExecutionSucceeded
  <2>3. WorkerTypeOK' /\ UNCHANGED store
    BY <1>8, <2>2 DEF ExecutionSucceeded, WorkerTypeOK, TypeOK, loop, NoFault
  <2>4. InLoop'
    BY <1>8 DEF ExecutionSucceeded, InLoop, loop, TypeOK
  <2> QED BY <2>3, <2>4, StoreUnchanged
<1>9. CASE ExecutionInProgress
  <2>1. WithCond("Requested") \in [NSCondTypes -> Cond]
    BY <1>9, <1>t, <1>w, <1>c DEF ExecutionInProgress
  <2> QED BY <1>9, <1>t, <2>1, LeaveNodeSetType DEF ExecutionInProgress
<1>10. CASE ExecutionFailed
  <2>1. PICK r \in {"Warning", "Backoff"} : LeaveNodeSet(WithCond(r), FALSE, TRUE)
    BY <1>10 DEF ExecutionFailed
  <2>2. WithCond(r) \in [NSCondTypes -> Cond]
    BY <1>10, <1>t, <1>w, <1>c DEF ExecutionFailed
  <2> QED BY <1>10, <1>t, <2>1, <2>2, LeaveNodeSetType DEF ExecutionFailed
<1>11. CASE ExecutionLookupError
  <2>1. WithCond("Error") \in [NSCondTypes -> Cond]
    BY <1>11, <1>t, <1>w, <1>c DEF ExecutionLookupError
  <2>2. cur' \in Status
    BY <1>11, <1>t, <2>1, CurType DEF ExecutionLookupError, TypeOK
  <2> QED BY <1>11, <2>2, ReturnType DEF ExecutionLookupError
<1> QED BY <1>1, <1>2, <1>3, <1>4, <1>5, <1>6, <1>7, <1>8, <1>9, <1>10, <1>11

\* The outcome of a reconcile and the patch of the status.
LEMMA OutcomeType ==
  ASSUME TypeInv,
         \/ DeploymentFailed \/ DeploymentWaits \/ DeploymentSucceeded
         \/ PatchInstance \/ PatchInstanceError
  PROVE  TypeInv'
<1> USE DEF TypeInv
<1>c. {"True", "Warning", "Backoff"} \subseteq Cond /\ "DeploymentReady" \in DeploymentConds
  BY DEF Cond, FalseConds, DeploymentConds
<1>1. CASE DeploymentFailed
  <2>1. cur' \in Status
    BY <1>1, <1>c, CurType DEF DeploymentFailed, TypeOK
  <2> QED BY <1>1, <2>1, ReturnType DEF DeploymentFailed
<1>2. CASE DeploymentWaits
  <2>1. cur' \in Status
    BY <1>2 DEF DeploymentWaits, TypeOK
  <2> QED BY <1>2, <2>1, ReturnType DEF DeploymentWaits
<1>3. CASE DeploymentSucceeded
  <2> DEFINE st == [cur EXCEPT !.conds["DeploymentReady"] = "True", !.deployed = TRUE]
  <2>1. st \in Status
    BY <1>c DEF TypeOK, Status
  <2> HIDE DEF st
  <2>2. PICK hashed \in SUBSET DeployedServices, failed \in BOOLEAN :
          cur' = SetHashes(st, hashed, failed) /\ (Fault \/ NoFault)
    BY <1>3 DEF DeploymentSucceeded, st
  <2>3. cur' \in Status
    BY <2>1, <2>2, SetHashesType
  <2> QED BY <1>3, <2>2, <2>3, ReturnType DEF DeploymentSucceeded
<1>4. CASE PatchInstance
  <2> DEFINE new == [cur EXCEPT !.conds = SetReady(@)]
  <2>1. new \in Status
    BY SetReadyType DEF TypeOK
  <2> HIDE DEF new
  <2>2. PICK touched \in BOOLEAN :
          status' = [status EXCEPT ![me] =
                       PatchedStatus(before, new, status[me], touched)]
    BY <1>4 DEF PatchInstance, new
  <2>3. PatchedStatus(before, new, status[me], touched) \in Status
    BY <2>1, PatchedType DEF TypeOK
  <2>4. status' \in [Deployments -> Status]
    BY <2>2, <2>3 DEF TypeOK
  <2>5. queue' \subseteq Deployments
    BY <1>4 DEF PatchInstance, TypeOK
  <2>i. /\ me' \in Deployments
        /\ before' \in Status /\ cur' \in Status
        /\ snap' \in [NodeSets -> NodeSetViews]
        /\ pc' = "idle" /\ ni' = 1 /\ si' = 1
        /\ errs' = "none" /\ requeue' = FALSE /\ again' = FALSE
        /\ faults' \in 0..MaxFaults
        /\ InLoop'
    BY <1>4, IdleType DEF PatchInstance
  <2>u. UNCHANGED <<cached, aee, aeeCache, certs, nodeSet, service>>
    BY <1>4 DEF PatchInstance, env
  <2>6. TypeOK' /\ InLoop'
    BY <2>4, <2>5, <2>i, <2>u DEF TypeOK
  <2>7. CacheBehind' /\ RetriesLeft'
    BY <1>4 DEF PatchInstance, CacheBehind, RetriesLeft, Exists
  <2> QED BY <2>6, <2>7
<1>5. CASE PatchInstanceError
  <2>1. queue' \subseteq Deployments
    BY <1>5 DEF PatchInstanceError, TypeOK
  <2>2. WorkerTypeOK' /\ InLoop' /\ UNCHANGED store
    BY <1>5, <2>1, IdleType DEF PatchInstanceError, WorkerTypeOK
  <2> QED BY <2>2, StoreUnchanged
<1> QED BY <1>1, <1>2, <1>3, <1>4, <1>5

LEMMA OtherType ==
  ASSUME TypeInv,
         \/ \E d \in Deployments : Request(d) \/ SyncStatus(d)
         \/ Crash
         \/ \E x \in ExecutionNames : JobStep(x) \/ SyncAEE(x)
         \/ \E n \in NodeSets : NodeSetChange(n)
         \/ \E s \in Services : ServiceChange(s)
  PROVE  TypeInv'
<1> USE DEF TypeInv
<1>1. ASSUME NEW d \in Deployments, AlreadyDeployed(d) PROVE TypeInv'
  <2>1. WorkerTypeOK' /\ InLoop' /\ UNCHANGED store
    BY <1>1 DEF AlreadyDeployed, WorkerTypeOK, TypeOK, InLoop, AtService, ServicesAt,
                NodeSetAt, worker, NoFault
  <2> QED BY <2>1, StoreUnchanged
<1>2. ASSUME NEW d \in Deployments, Fetch(d) PROVE TypeInv'
  <2>1. cached[d] \in Status
    BY DEF TypeOK
  <2>2. cur' \in Status
    BY <1>2, <2>1, InitConditionsType DEF Fetch
  <2>3. faults' \in 0..MaxFaults
    BY <1>2, FaultsType DEF Fetch
  <2>4. WorkerTypeOK' /\ InLoop' /\ UNCHANGED store
    BY <1>2, <2>1, <2>2, <2>3 DEF Fetch, WorkerTypeOK, TypeOK, InLoop
  <2> QED BY <2>4, StoreUnchanged
<1>3. ASSUME NEW d \in Deployments, SyncStatus(d) PROVE TypeInv'
  <2>1. TypeOK'
    BY <1>3 DEF SyncStatus, TypeOK, env, worker
  <2>2. CacheBehind' /\ RetriesLeft' /\ InLoop'
    BY <1>3 DEF SyncStatus, CacheBehind, RetriesLeft, InLoop, Exists, AtService,
                ServicesAt, NodeSetAt, worker
  <2> QED BY <2>1, <2>2
<1>4. CASE Crash
  <2>1. /\ me' \in Deployments
        /\ before' \in Status /\ cur' \in Status
        /\ snap' \in [NodeSets -> NodeSetViews]
        /\ pc' = "idle" /\ ni' = 1 /\ si' = 1
        /\ errs' = "none" /\ requeue' = FALSE /\ again' = FALSE
        /\ faults' \in 0..MaxFaults
        /\ InLoop'
    BY <1>4, IdleType DEF Crash
  <2>2. /\ queue' = Deployments /\ cached' = status /\ aeeCache' = aee
        /\ UNCHANGED <<status, aee, certs, nodeSet, service>>
    BY <1>4 DEF Crash, env
  <2>3. TypeOK'
    BY <2>1, <2>2 DEF TypeOK
  <2>4. CacheBehind' /\ RetriesLeft'
    BY <2>2 DEF CacheBehind, RetriesLeft, Exists
  <2> QED BY <2>1, <2>3, <2>4
<1>5. ASSUME NEW x \in ExecutionNames, JobStep(x) PROVE TypeInv'
  <2>1. /\ aee[x].job \in {"Active", "Failed"}
        /\ UNCHANGED <<status, cached, aeeCache, env, queue, worker, faults>>
    BY <1>5 DEF JobStep, JobSucceed, JobFail, JobRetry, Job
  <2>2. aee[x] \in AEE
    BY <2>1 DEF TypeOK, NoAEE
  <2>r. aee[x].retries \in 0..BackoffLimit /\ BackoffLimit \in Nat
    BY <2>2, ConstantAssumption DEF AEE
  <2> DEFINE Becomes(to, r) == aee' = [aee EXCEPT ![x].job = to, ![x].retries = r]
  <2>3. \E to \in JobStatus \ {"Absent"}, r \in 0..BackoffLimit :
          Becomes(to, r) /\ (to = "Failed" => r < BackoffLimit)
    <3>1. CASE JobSucceed(x)
      <4>1. Becomes("Succeeded", aee[x].retries)
        BY <3>1 DEF JobSucceed, Job
      <4> HIDE DEF Becomes
      <4> QED BY <2>r, <4>1 DEF JobStatus
    <3>2. CASE JobFail(x)
      <4>1. Becomes(IF aee[x].retries < BackoffLimit THEN "Failed" ELSE "Backoff",
                    aee[x].retries)
        BY <3>2 DEF JobFail, Job
      <4> HIDE DEF Becomes
      <4> QED BY <2>r, <4>1 DEF JobStatus
    <3>3. CASE JobRetry(x)
      <4>1. aee[x].retries + 1 \in 0..BackoffLimit
        BY <2>r, <3>3 DEF JobRetry, Job, RetriesLeft
      <4>2. Becomes("Active", aee[x].retries + 1)
        BY <3>3 DEF JobRetry, Job
      <4> HIDE DEF Becomes
      <4> QED BY <4>1, <4>2 DEF JobStatus
    <3> QED BY <1>5, <3>1, <3>2, <3>3 DEF JobStep
  <2>p. PICK to \in JobStatus \ {"Absent"}, r \in 0..BackoffLimit :
          Becomes(to, r) /\ (to = "Failed" => r < BackoffLimit)
    BY <2>3
  <2>4. [aee[x] EXCEPT !.job = to, !.retries = r] \in AEE
    BY <2>2, <2>p DEF AEE
  <2>5. aee' = [aee EXCEPT ![x] = [aee[x] EXCEPT !.job = to, !.retries = r]]
    BY <2>p DEF TypeOK
  <2>6. aee' \in [ExecutionNames -> AEE \cup {NoAEE}]
    BY <2>4, <2>5 DEF TypeOK
  <2>7. TypeOK'
    BY <2>1, <2>6 DEF TypeOK, env, worker
  <2>8. CacheBehind'
    <3>1. SUFFICES ASSUME NEW y \in ExecutionNames, Exists(aeeCache[y])
                   PROVE  /\ Exists(aee'[y])
                          /\ aee'[y].label = aeeCache[y].label
                          /\ aeeCache[y].job = "Succeeded" => aee'[y].job = "Succeeded"
      BY <2>1 DEF CacheBehind
    <3>2. CASE y # x
      BY <2>5, <3>1, <3>2 DEF CacheBehind, TypeOK
    <3>3. CASE y = x
      <4>1. aee'[y] = [aee[x] EXCEPT !.job = to, !.retries = r]
        BY <2>5, <3>3 DEF TypeOK
      <4>2. aee'[y].label = aee[x].label /\ aee'[y].job = to
        BY <2>2, <4>1 DEF AEE
      <4> QED BY <2>1, <2>p, <3>1, <3>3, <4>2 DEF CacheBehind, Exists
    <3> QED BY <3>2, <3>3
  <2>9. RetriesLeft'
    BY <2>2, <2>p, <2>5 DEF RetriesLeft, AEE, TypeOK
  <2>10. InLoop'
    BY <2>1 DEF InLoop, AtService, ServicesAt, NodeSetAt, worker
  <2> QED BY <2>7, <2>8, <2>9, <2>10
<1>6. ASSUME NEW x \in ExecutionNames, SyncAEE(x) PROVE TypeInv'
  <2>1. aee[x] \in AEE
    <3>1. aee[x] = NoAEE => aeeCache[x] = NoAEE
      BY DEF TypeOK, CacheBehind, Exists, NoAEE, AEE
    <3> QED BY <1>6, <3>1 DEF SyncAEE, TypeOK
  <2>2. aee[x].label[2] \in Deployments
    BY <2>1 DEF AEE, Labels
  <2>3. TypeOK'
    BY <1>6, <2>2 DEF SyncAEE, TypeOK, env, worker
  <2>4. CacheBehind'
    BY <1>6 DEF SyncAEE, CacheBehind, TypeOK, Exists
  <2>5. RetriesLeft' /\ InLoop'
    BY <1>6 DEF SyncAEE, RetriesLeft, InLoop, AtService, ServicesAt, NodeSetAt, worker
  <2> QED BY <2>3, <2>4, <2>5
<1>7. ASSUME NEW n \in NodeSets, NodeSetChange(n) PROVE TypeInv'
  <2>1. TypeOK'
    BY <1>7 DEF NodeSetChange, TypeOK, worker
  <2>2. CacheBehind' /\ RetriesLeft' /\ InLoop'
    BY <1>7 DEF NodeSetChange, CacheBehind, RetriesLeft, InLoop, Exists, AtService,
                ServicesAt, NodeSetAt, worker
  <2> QED BY <2>1, <2>2
<1>8. ASSUME NEW s \in Services, ServiceChange(s) PROVE TypeInv'
  <2>1. TypeOK'
    BY <1>8 DEF ServiceChange, TypeOK, worker
  <2>2. CacheBehind' /\ RetriesLeft' /\ InLoop'
    BY <1>8 DEF ServiceChange, CacheBehind, RetriesLeft, InLoop, Exists, AtService,
                ServicesAt, NodeSetAt, worker
  <2> QED BY <2>1, <2>2
<1> QED BY <1>1, <1>2, <1>3, <1>4, <1>5, <1>6, <1>7, <1>8 DEF Request

LEMMA StutterType ==
  ASSUME TypeInv, UNCHANGED vars
  PROVE  TypeInv'
BY DEF TypeInv, TypeOK, CacheBehind, RetriesLeft, InLoop, Exists, AtService,
       ServicesAt, NodeSetAt, vars, store, env, worker

LEMMA TypeInvNext == TypeInv /\ [Next]_vars => TypeInv'
<1> SUFFICES ASSUME TypeInv, [Next]_vars PROVE TypeInv'
  OBVIOUS
<1>1. CASE Reconcile
  BY <1>1, PrepareType, LoopType, OutcomeType DEF Reconcile
<1>2. CASE Next /\ ~Reconcile
  BY <1>2, OtherType DEF Next
<1>3. CASE UNCHANGED vars
  BY <1>3, StutterType
<1> QED BY <1>1, <1>2, <1>3

(***************************************************************************)
(* The variables keep their types, whatever the users, the jobs and the    *)
(* faults do: in particular the store and the cache hold complete          *)
(* executions, and only Deployments are reconciled.                        *)
(***************************************************************************)
THEOREM TypeCorrect == Spec => []TypeOK
<1>1. Spec => []TypeInv
  BY TypeInvInit, TypeInvNext, PTL DEF Spec
<1>2. TypeInv => TypeOK
  BY DEF TypeInv
<1> QED BY <1>1, <1>2, PTL

=============================================================================

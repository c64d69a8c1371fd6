----------------------- MODULE DeploymentSafetyProofs -----------------------
(***************************************************************************)
(* Proofs that a Deployment tells the truth: what its conditions and       *)
(* status.deployed claim has happened, and services run in order.          *)
(***************************************************************************)
EXTENDS DeploymentProofs

-----------------------------------------------------------------------------
(* The inductive invariant *)

\* The j-th service of the i-th NodeSet has succeeded.
DoneAt(i, j) == Done(me, NodeSetAt(i), ServicesAt(i)[j])

\* Every service of the i-th NodeSet of the Deployment in work has succeeded.
ListDone(i) == \A s \in Ran(ServicesAt(i)) : Done(me, NodeSetAt(i), s)

Places == 1..Len(SpecNodeSets[me])

\* A service condition that is True in st belongs to a service that succeeded.
CondsDone(st, d) ==
  \A n \in NodeSets, s \in Services :
    st.nsConds[n][ConditionType[s]] = "True" => Done(d, n, s)

CurSound == CondsDone(cur, me)

\* The loop over the services has passed only services that succeeded.
PassedDone ==
  pc \in {"deploy", "check"} =>
    \A j \in 1..(si - 1) : DoneAt(ni, j)

\* While no NodeSet asked for a requeue, all those passed are done.
LoopDone ==
  pc \in {"deploy", "check", "conclude"} /\ ~requeue =>
    \A i \in 1..(ni - 1) : ListDone(i)

\* A NodeSet condition that is True belongs to a NodeSet that is done.
ReadyDone ==
  \A i \in Places :
    cur.nsConds[NodeSetAt(i)][NodeSetReady] = "True" => ListDone(i)

\* The conditions of the NodeSets exist during a reconcile, and none is True
\* before the loop begins.
ReadyInit ==
  /\ pc # "idle" =>
       \A i \in Places : cur.nsConds[NodeSetAt(i)][NodeSetReady] # "Absent"
  /\ pc \in {"nodesets", "prepare"} =>
       \A n \in NodeSets : cur.nsConds[n][NodeSetReady] # "True"

\* deployed is set in memory only at the end, when everything is done, and
\* no reconcile gets there from a status that was deployed.
DeployedDone ==
  /\ cur.deployed => pc = "patch" /\ AllDone
  /\ ~before.deployed

SafeInv ==
  /\ ServiceConditionSound
  /\ CurSound /\ PassedDone /\ LoopDone /\ ReadyDone /\ ReadyInit /\ DeployedDone

-----------------------------------------------------------------------------
(* What has succeeded stays so *)

DoneStep == \A d, n, s : Done(d, n, s) => Done(d, n, s)'

\* Only DeployService and the jobs write an execution.
LEMMA ExecutionWrites ==
  ASSUME [Next]_vars
  PROVE  UNCHANGED aee \/ DeployService \/ \E y \in ExecutionNames : JobStep(y)
BY DEF Next, Request, AlreadyDeployed, Fetch, SyncStatus, Reconcile, Crash, SyncAEE,
   NodeSetChange, ServiceChange, NodeSetsNotReady, NodeSetGetError, EnsureNodeSets,
   TLSServiceMissing, EnsureTLSCertsError, EnsureTLSCerts, ConsistencyError,
   GetVersionError, BeginDeploy, NodeSetDone, ServiceError, ServiceReady,
   ServicePending, DeployServiceError, ExecutionNotFound, ExecutionLookupError, ExecutionSucceeded,
   ExecutionInProgress, ExecutionFailed, DeploymentFailed, DeploymentWaits,
   DeploymentSucceeded, PatchInstance, PatchInstanceError, Return, store, vars

LEMMA SucceededStays ==
  ASSUME TypeInv, [Next]_vars, NEW x \in ExecutionNames, aee[x].job = "Succeeded"
  PROVE  aee'[x].label = aee[x].label /\ aee'[x].job = "Succeeded"
<1>t. aee \in [ExecutionNames -> AEE \cup {NoAEE}] /\ Exists(aee[x])
  BY DEF TypeInv, TypeOK, Exists
<1>1. CASE UNCHANGED aee
  BY <1>1
<1>2. CASE DeployService
  <2>1. /\ Executed[x].label = aee[x].label
        /\ Executed[x].job = aee[x].job
    BY <1>2, <1>t, ExecutedType DEF DeployService
  <2> QED BY <1>2, <2>1 DEF DeployService
<1>3. ASSUME NEW y \in ExecutionNames, JobStep(y)
      PROVE  aee'[x].label = aee[x].label /\ aee'[x].job = "Succeeded"
  <2>1. y # x /\ \E to, r : aee' = [aee EXCEPT ![y].job = to, ![y].retries = r]
    BY <1>3 DEF JobStep, JobSucceed, JobFail, JobRetry, Job
  <2> QED BY <1>t, <2>1
<1> QED BY <1>1, <1>2, <1>3, ExecutionWrites

LEMMA DoneStays ==
  ASSUME TypeInv, [Next]_vars
  PROVE  DoneStep
<1> SUFFICES ASSUME NEW d, NEW n, NEW s, Done(d, n, s)
             PROVE  Done(d, n, s)'
  BY DEF DoneStep
<1>1. PICK x \in ExecutionNames :
        aee[x].label = <<s, d, n>> /\ aee[x].job = "Succeeded"
  BY DEF Done, WithLabel
<1>2. aee'[x].label = <<s, d, n>> /\ aee'[x].job = "Succeeded"
  BY <1>1, SucceededStays
<1> QED BY <1>2 DEF Done, WithLabel, Exists

-----------------------------------------------------------------------------
(* How the parts of the invariant carry over to the next state *)

\* A place and the list of its NodeSet depend on the reconcile's reads only.
LEMMA SamePlace ==
  ASSUME UNCHANGED <<me, snap>>, NEW i
  PROVE  /\ NodeSetAt(i)' = NodeSetAt(i)
         /\ ServicesAt(i)' = ServicesAt(i)
BY DEF NodeSetAt, ServicesAt

LEMMA PlaceType ==
  ASSUME TypeInv, NEW i \in Places
  PROVE  /\ NodeSetAt(i) \in NodeSets
         /\ ServicesAt(i) \in Seq(Services)
         /\ Ran(ServicesAt(i)) \subseteq Services
<1>1. NodeSetAt(i) \in NodeSets /\ ServicesAt(i) \in Seq(Services)
  BY ServicesAtType DEF TypeInv, Places
<1> QED BY <1>1 DEF Ran

LEMMA ListStays ==
  ASSUME TypeInv, DoneStep, UNCHANGED <<me, snap>>, NEW i \in Places, ListDone(i)
  PROVE  ListDone(i)'
<1>1. SUFFICES ASSUME NEW s \in Ran(ServicesAt(i))
               PROVE  Done(me, NodeSetAt(i), s)'
  BY SamePlace DEF ListDone, Ran
<1>3. Done(me, NodeSetAt(i), s)
  BY <1>1 DEF ListDone
<1> HIDE DEF Done, NodeSetAt
<1>4. \A d, n : Done(d, n, s) => Done(d, n, s)'
  BY DEF DoneStep
<1> QED BY <1>3, <1>4, SamePlace DEF Done, WithLabel

LEMMA DoneAtStays ==
  ASSUME DoneStep, UNCHANGED <<me, snap, ni>>, NEW j, DoneAt(ni, j)
  PROVE  DoneAt(ni, j)'
<1>1. PICK d, n, s : d = me /\ n = NodeSetAt(ni) /\ s = ServicesAt(ni)[j]
  OBVIOUS
<1>2. Done(d, n, s)
  BY <1>1 DEF DoneAt
<1>3. Done(d, n, s)'
  BY <1>2 DEF DoneStep
<1>4. me' = d /\ NodeSetAt(ni)' = n /\ (ServicesAt(ni)[j])' = s
  BY <1>1 DEF NodeSetAt, ServicesAt
<1> QED BY <1>3, <1>4 DEF DoneAt, Done, WithLabel

LEMMA StatusStays ==
  ASSUME TypeInv, DoneStep, ServiceConditionSound, UNCHANGED status
  PROVE  ServiceConditionSound'
BY DEF ServiceConditionSound, DoneStep

\* No condition becomes True, and none disappears.
NoNewTrue ==
  \A n \in NodeSets, t \in NSCondTypes :
    /\ cur'.nsConds[n][t] = "True" => cur.nsConds[n][t] = "True"
    /\ cur.nsConds[n][t] # "Absent" => cur'.nsConds[n][t] # "Absent"

LEMMA CurStays ==
  ASSUME TypeInv, DoneStep, CurSound, NoNewTrue, UNCHANGED me
  PROVE  CurSound'
<1>1. SUFFICES ASSUME NEW n \in NodeSets, NEW s \in Services,
                      cur'.nsConds[n][ConditionType[s]] = "True"
               PROVE  Done(me, n, s)'
  BY DEF CurSound, CondsDone
<1>2. ConditionType[s] \in NSCondTypes
  BY DEF NSCondTypes, ServiceConds
<1>3. Done(me, n, s)
  BY <1>1, <1>2 DEF NoNewTrue, CurSound, CondsDone
<1>4. \A d : Done(d, n, s) => Done(d, n, s)'
  BY DEF DoneStep
<1> QED BY <1>3, <1>4 DEF Done, WithLabel

LEMMA ReadyStays ==
  ASSUME TypeInv, DoneStep, ReadyDone, NoNewTrue, UNCHANGED <<me, snap>>
  PROVE  ReadyDone'
<1>1. SUFFICES ASSUME NEW i \in Places,
                      cur'.nsConds[NodeSetAt(i)][NodeSetReady] = "True"
               PROVE  ListDone(i)'
  BY SamePlace DEF ReadyDone, Places
<1>2. NodeSetAt(i) \in NodeSets /\ NodeSetReady \in NSCondTypes
  BY PlaceType DEF NSCondTypes
<1>3. ListDone(i)
  BY <1>1, <1>2 DEF NoNewTrue, ReadyDone
<1> QED BY <1>3, ListStays

LEMMA AllDoneStays ==
  ASSUME TypeInv, DoneStep, UNCHANGED <<me, snap>>, AllDone
  PROVE  AllDone'
<1>1. DOMAIN SpecNodeSets[me] = Places
  BY SpecAssumption DEF Places, TypeInv, TypeOK
<1>2. \A i \in Places : ListDone(i)
  BY <1>1 DEF AllDone, ListDone
<1>3. \A i \in Places : ListDone(i)'
  BY <1>2, ListStays
<1> QED BY <1>1, <1>3 DEF AllDone, ListDone

\* A reconcile that returns, its conditions no better than before.
LEMMA ReturnSafe ==
  ASSUME TypeInv, SafeInv, DoneStep, NoNewTrue,
         pc # "idle", pc' = "patch",
         UNCHANGED <<me, snap, before, status>>,
         cur'.deployed => AllDone
  PROVE  SafeInv'
<1>1. ServiceConditionSound' /\ CurSound' /\ ReadyDone'
  BY StatusStays, CurStays, ReadyStays DEF SafeInv
<1>2. PassedDone' /\ LoopDone'
  BY DEF PassedDone, LoopDone
<1>3. ReadyInit'
  <2>1. SUFFICES ASSUME NEW i \in Places
                 PROVE  cur'.nsConds[NodeSetAt(i)][NodeSetReady] # "Absent"
    BY SamePlace DEF ReadyInit, Places
  <2>2. NodeSetAt(i) \in NodeSets /\ NodeSetReady \in NSCondTypes
    BY PlaceType DEF NSCondTypes
  <2> QED BY <2>2 DEF SafeInv, ReadyInit, NoNewTrue
<1>4. DeployedDone'
  BY AllDoneStays DEF SafeInv, DeployedDone
<1> QED BY <1>1, <1>2, <1>3, <1>4 DEF SafeInv

\* A step of the environment, which leaves the worker and the status alone.
LEMMA FrameSafe ==
  ASSUME TypeInv, SafeInv, DoneStep, UNCHANGED <<worker, status>>
  PROVE  SafeInv'
<1>u. UNCHANGED <<pc, me, before, cur, snap, ni, si, requeue>>
  BY DEF worker
<1>n. NoNewTrue
  BY <1>u DEF NoNewTrue
<1>1. ServiceConditionSound' /\ CurSound' /\ ReadyDone'
  BY <1>u, <1>n, StatusStays, CurStays, ReadyStays DEF SafeInv
<1>2. ReadyInit'
  BY <1>u, SamePlace DEF SafeInv, ReadyInit, Places
<1>3. DeployedDone'
  BY <1>u, AllDoneStays DEF SafeInv, DeployedDone
<1>4. LoopDone'
  <2>1. SUFFICES ASSUME pc \in {"deploy", "check", "conclude"}, ~requeue,
                        NEW i \in 1..(ni - 1)
                 PROVE  ListDone(i)'
    BY <1>u DEF LoopDone
  <2>2. i \in Places /\ ListDone(i)
    BY <2>1, SpecAssumption DEF SafeInv, LoopDone, Places, TypeInv, InLoop, TypeOK
  <2> QED BY <1>u, <2>2, ListStays
<1>5. PassedDone'
  <2>1. SUFFICES ASSUME pc \in {"deploy", "check"}, NEW j \in 1..(si - 1)
                 PROVE  DoneAt(ni, j)'
    BY <1>u DEF PassedDone
  <2>2. DoneAt(ni, j)
    BY <2>1 DEF SafeInv, PassedDone
  <2> QED BY <1>u, <2>2, DoneAtStays
<1> QED BY <1>1, <1>2, <1>3, <1>4, <1>5 DEF SafeInv

\* A step after which the worker is idle.
LEMMA IdleSafe ==
  ASSUME TypeInv, Idle, ServiceConditionSound'
  PROVE  SafeInv'
<1>1. pc' = "idle" /\ cur' = EmptyStatus /\ before' = EmptyStatus /\ me' = me
  BY DEF Idle
<1>2. ~EmptyStatus.deployed
  BY DEF EmptyStatus
<1>3. \A n \in NodeSets, t \in NSCondTypes : EmptyStatus.nsConds[n][t] # "True"
  BY DEF EmptyStatus
<1> HIDE DEF EmptyStatus
<1>4. CurSound'
  BY <1>1, <1>3 DEF CurSound, CondsDone, NSCondTypes, ServiceConds
<1>5. ReadyDone'
  <2>1. \A i \in Places : NodeSetAt(i)' \in NodeSets
    BY <1>1, PlaceType DEF NodeSetAt
  <2> QED BY <1>1, <1>3, <2>1 DEF ReadyDone, Places, NSCondTypes
<1>6. PassedDone' /\ LoopDone' /\ ReadyInit' /\ DeployedDone'
  BY <1>1, <1>2 DEF PassedDone, LoopDone, ReadyInit, DeployedDone
<1> QED BY <1>4, <1>5, <1>6 DEF SafeInv

LEMMA MirrorTrue ==
  ASSUME NEW S, NEW c \in S, c \in Cond, c # "Absent"
  PROVE  /\ Mirror(S) = "True" => c = "True"
         /\ Mirror(S) # "Absent"
BY DEF Mirror, Cond, FalseConds

\* Deploy returns for the current NodeSet with the conditions conds.
LEMMA LeaveSafe ==
  ASSUME TypeInv, SafeInv, DoneStep, pc \in {"deploy", "check"},
         NEW conds \in [NSCondTypes -> Cond],
         NEW done \in BOOLEAN, NEW failed \in BOOLEAN,
         LeaveNodeSet(conds, done, failed), UNCHANGED status,
         \A t \in NSCondTypes : conds[t] = "True" => ThisConds[t] = "True",
         conds[NodeSetReady] = ThisConds[NodeSetReady],
         done => ListDone(ni)
  PROVE  SafeInv'
<1> DEFINE ready == IF done THEN "True" ELSE Mirror({conds[t] : t \in NSCondTypes})
<1>p. ni \in Places /\ ThisNodeSet = NodeSetAt(ni) /\ ThisNodeSet \in NodeSets
  BY ThisType, SpecAssumption
     DEF TypeInv, InLoop, TypeOK, Places, ThisNodeSet
<1>t. /\ NodeSetReady \in NSCondTypes
      /\ \A s \in Services : /\ ConditionType[s] \in NSCondTypes
                             /\ ConditionType[s] # NodeSetReady
  BY ConstantAssumption DEF NSCondTypes, ServiceConds
<1>a. ThisConds[NodeSetReady] # "Absent"
  BY <1>p DEF SafeInv, ReadyInit, ThisConds
<1>b. ready = "True" => ListDone(ni)
  <2>1. CASE done
    BY <2>1
  <2>2. CASE ~done
    <3>1. ready = "True" => conds[NodeSetReady] = "True"
      BY <1>a, <1>t, <2>2, MirrorTrue
    <3> HIDE DEF ready
    <3> QED BY <1>p, <3>1 DEF SafeInv, ReadyDone, ThisConds
  <2> QED BY <2>1, <2>2
<1>c. ready # "Absent"
  BY <1>a, <1>t, MirrorTrue
<1>u. /\ cur' = [cur EXCEPT !.nsConds[ThisNodeSet] =
                              [conds EXCEPT ![NodeSetReady] = ready]]
      /\ requeue' = (requeue \/ ~done)
      /\ ni' = ni + 1 /\ si' = 1
      /\ pc' \in {"conclude", "deploy"}
      /\ UNCHANGED <<me, before, snap>>
  BY DEF LeaveNodeSet, loop
<1> HIDE DEF ready
<1>v. /\ cur'.deployed = cur.deployed
      /\ \A n \in NodeSets, t \in NSCondTypes :
           cur'.nsConds[n][t] = IF n # ThisNodeSet THEN cur.nsConds[n][t]
                                ELSE IF t = NodeSetReady THEN ready
                                ELSE conds[t]
  BY <1>p, <1>u DEF TypeInv, TypeOK, Status
<1>1. ServiceConditionSound'
  BY StatusStays DEF SafeInv
<1>2. CurSound'
  <2>1. SUFFICES ASSUME NEW n \in NodeSets, NEW s \in Services,
                        cur'.nsConds[n][ConditionType[s]] = "True"
                 PROVE  Done(me, n, s)'
    BY DEF CurSound, CondsDone
  <2>2. cur.nsConds[n][ConditionType[s]] = "True"
    BY <1>t, <1>v, <2>1 DEF ThisConds
  <2>3. PICK d : d = me
    OBVIOUS
  <2>4. Done(d, n, s)
    BY <2>2, <2>3 DEF SafeInv, CurSound, CondsDone
  <2>5. Done(d, n, s)'
    BY <2>4 DEF DoneStep
  <2> QED BY <1>u, <2>3, <2>5 DEF Done, WithLabel
<1>3. ReadyDone'
  <2>1. SUFFICES ASSUME NEW i \in Places,
                        cur'.nsConds[NodeSetAt(i)][NodeSetReady] = "True"
                 PROVE  ListDone(i)'
    BY <1>u, SamePlace DEF ReadyDone, Places
  <2>2. NodeSetAt(i) \in NodeSets
    BY PlaceType
  <2>3. CASE NodeSetAt(i) # ThisNodeSet
    BY <1>t, <1>u, <1>v, <2>1, <2>2, <2>3, ListStays DEF SafeInv, ReadyDone
  <2>4. CASE NodeSetAt(i) = ThisNodeSet
    <3>1. ListDone(ni)
      BY <1>b, <1>t, <1>v, <2>1, <2>2, <2>4
    <3>2. ListDone(i)
      BY <1>p, <2>4, <3>1 DEF ListDone, ServicesAt
    <3> QED BY <1>u, <3>2, ListStays
  <2> QED BY <2>3, <2>4
<1>4. PassedDone'
  BY <1>u DEF PassedDone
<1>5. LoopDone'
  <2>a. ni' - 1 = ni
    BY <1>u DEF TypeInv, TypeOK
  <2>b. ~requeue' => ~requeue /\ done
    BY <1>u
  <2>1. SUFFICES ASSUME ~requeue, done, NEW i \in 1..ni
                 PROVE  ListDone(i)'
    BY <2>a, <2>b DEF LoopDone
  <2>2. i \in Places
    BY <1>p, SpecAssumption DEF Places, TypeInv, TypeOK
  <2>3. ListDone(i)
    <3>1. CASE i = ni
      BY <2>1, <3>1
    <3>2. CASE i # ni
      <4>1. i \in 1..(ni - 1)
        BY <3>2 DEF TypeInv, TypeOK
      <4> QED BY <2>1, <4>1 DEF SafeInv, LoopDone
    <3> QED BY <3>1, <3>2
  <2> QED BY <1>u, <2>2, <2>3, ListStays
<1>6. ReadyInit'
  <2>1. SUFFICES ASSUME NEW i \in Places
                 PROVE  cur'.nsConds[NodeSetAt(i)][NodeSetReady] # "Absent"
    BY <1>u, SamePlace DEF ReadyInit, Places
  <2>2. NodeSetAt(i) \in NodeSets
    BY PlaceType
  <2> QED BY <1>c, <1>t, <1>v, <2>2 DEF SafeInv, ReadyInit
<1>7. DeployedDone'
  BY <1>u, <1>v DEF SafeInv, DeployedDone
<1> QED BY <1>1, <1>2, <1>3, <1>4, <1>5, <1>6, <1>7 DEF SafeInv

-----------------------------------------------------------------------------
(* The invariant is inductive *)

LEMMA SafeInvInit == Init => SafeInv
<1> SUFFICES ASSUME Init PROVE SafeInv
  OBVIOUS
<1>1. /\ pc = "idle" /\ cur = EmptyStatus /\ before = EmptyStatus
      /\ status = [d \in Deployments |-> EmptyStatus]
  BY DEF Init
<1>2. /\ ~EmptyStatus.deployed
      /\ \A n \in NodeSets, t \in NSCondTypes : EmptyStatus.nsConds[n][t] # "True"
  BY DEF EmptyStatus
<1> HIDE DEF EmptyStatus
<1>3. \A s \in Services : ConditionType[s] \in NSCondTypes
  BY DEF NSCondTypes, ServiceConds
<1>4. ServiceConditionSound /\ CurSound
  BY <1>1, <1>2, <1>3 DEF ServiceConditionSound, CurSound, CondsDone
<1>5. ReadyDone
  BY <1>1, <1>2, TypeInvInit, PlaceType DEF ReadyDone, NSCondTypes
<1>6. PassedDone /\ LoopDone /\ ReadyInit /\ DeployedDone
  BY <1>1, <1>2 DEF PassedDone, LoopDone, ReadyInit, DeployedDone
<1> QED BY <1>4, <1>5, <1>6 DEF SafeInv

\* A reconcile step before the loop over the NodeSets.
LEMMA PrepareSafe ==
  ASSUME TypeInv, SafeInv, DoneStep,
         \/ NodeSetsNotReady \/ NodeSetGetError \/ EnsureNodeSets
         \/ TLSServiceMissing \/ EnsureTLSCertsError \/ EnsureTLSCerts
         \/ ConsistencyError \/ GetVersionError \/ BeginDeploy
  PROVE  SafeInv'
<1>c. cur \in Status
  BY DEF TypeInv, TypeOK
<1>d. pc # "patch" => ~cur.deployed
  BY DEF SafeInv, DeployedDone
\* The steps that return and change no NodeSet condition.
<1>r. ASSUME cur'.nsConds = cur.nsConds, cur'.deployed = cur.deployed,
             pc \in {"nodesets", "prepare"}, pc' = "patch",
             UNCHANGED <<me, snap, before, status>>
      PROVE  SafeInv'
  <2>1. NoNewTrue
    BY <1>r DEF NoNewTrue
  <2> QED BY <1>d, <1>r, <2>1, ReturnSafe
<1>1. CASE NodeSetsNotReady
  BY <1>1, <1>r DEF NodeSetsNotReady, Return, loop, store
<1>2. CASE NodeSetGetError
  <2>1. cur'.nsConds = cur.nsConds /\ cur'.deployed = cur.deployed
    BY <1>2, <1>c DEF NodeSetGetError, Status
  <2> QED BY <1>2, <1>r, <2>1 DEF NodeSetGetError, Return, loop, store
<1>3. CASE EnsureNodeSets
  <2>u. /\ pc = "nodesets" /\ pc' = "prepare"
        /\ UNCHANGED <<me, before, cur, status>>
    BY <1>3 DEF EnsureNodeSets, store
  <2>n. NoNewTrue
    BY <2>u DEF NoNewTrue
  <2>t. \A n \in NodeSets : cur.nsConds[n][NodeSetReady] # "True"
    BY <2>u DEF SafeInv, ReadyInit
  <2>1. ServiceConditionSound' /\ CurSound'
    BY <2>u, <2>n, StatusStays, CurStays DEF SafeInv
  <2>2. ReadyDone' /\ ReadyInit'
    BY <2>t, <2>u, PlaceType DEF SafeInv, ReadyDone, ReadyInit, Places, NodeSetAt
  <2>3. PassedDone' /\ LoopDone' /\ DeployedDone'
    BY <2>u DEF SafeInv, PassedDone, LoopDone, DeployedDone
  <2> QED BY <2>1, <2>2, <2>3 DEF SafeInv
\* The steps that set the condition of a NodeSet to Error.
<1>e. ASSUME NEW q \in Positions, TLSError(q)
      PROVE  NoNewTrue /\ cur'.deployed = cur.deployed
  <2>0. PICK i \in DOMAIN SpecNodeSets[me] :
               q \in {<<i, j>> : j \in DOMAIN ServicesAt(i)}
    BY DEF Positions
  <2>1. q[1] \in Places
    BY <2>0, SpecAssumption DEF Places, TypeInv, TypeOK
  <2> DEFINE where == NodeSetAt(q[1])
  <2>2. where \in NodeSets
    BY <2>1, PlaceType
  <2>3. cur' = [cur EXCEPT !.conds["InputReady"] = "Error",
                           !.nsConds[where][NodeSetReady] = "Error"]
    BY <1>e DEF TLSError
  <2> HIDE DEF where
  <2> QED BY <1>c, <2>2, <2>3 DEF NoNewTrue, Status
<1>4. CASE TLSServiceMissing
  <2>1. NoNewTrue /\ cur'.deployed = cur.deployed
    BY <1>4, <1>e DEF TLSServiceMissing
  <2> QED BY <1>4, <1>d, <2>1, ReturnSafe DEF TLSServiceMissing, Return, loop, store
<1>5. CASE EnsureTLSCertsError
  <2>1. NoNewTrue /\ cur'.deployed = cur.deployed
    BY <1>5, <1>e DEF EnsureTLSCertsError
  <2> QED BY <1>5, <1>d, <2>1, ReturnSafe DEF EnsureTLSCertsError, Return, loop, store
<1>6. CASE EnsureTLSCerts
  BY <1>6, <1>r DEF EnsureTLSCerts, loop
<1>7. CASE ConsistencyError
  <2>1. cur'.nsConds = cur.nsConds /\ cur'.deployed = cur.deployed
    BY <1>7, <1>c DEF ConsistencyError, Status
  <2> QED BY <1>7, <1>r, <2>1 DEF ConsistencyError, Return, loop, store
<1>8. CASE GetVersionError
  <2>1. cur'.nsConds = cur.nsConds /\ cur'.deployed = cur.deployed
    BY <1>8, <1>c DEF GetVersionError, Status
  <2> QED BY <1>8, <1>r, <2>1 DEF GetVersionError, Return, loop, store
<1>9. CASE BeginDeploy
  <2>u. /\ pc = "prepare" /\ pc' = "deploy" /\ ni' = 1 /\ si' = 1
        /\ UNCHANGED <<me, before, snap, status>>
    BY <1>9 DEF BeginDeploy, loop, store
  <2>v. cur'.nsConds = cur.nsConds /\ cur'.deployed = cur.deployed
    BY <1>9, <1>c DEF BeginDeploy, Status
  <2>n. NoNewTrue
    BY <2>v DEF NoNewTrue
  <2>1. ServiceConditionSound' /\ CurSound' /\ ReadyDone'
    BY <2>u, <2>n, StatusStays, CurStays, ReadyStays DEF SafeInv
  <2>2. ReadyInit'
    BY <2>u, <2>v, SamePlace DEF SafeInv, ReadyInit, Places
  <2>3. PassedDone' /\ LoopDone' /\ DeployedDone'
    BY <2>u, <2>v DEF SafeInv, PassedDone, LoopDone, DeployedDone
  <2> QED BY <2>1, <2>2, <2>3 DEF SafeInv
<1> QED BY <1>1, <1>2, <1>3, <1>4, <1>5, <1>6, <1>7, <1>8, <1>9

\* A step within the list of the current NodeSet; it goes past a service only
\* when that service has succeeded.
LEMMA WithinListSafe ==
  ASSUME TypeInv, SafeInv, DoneStep, CurSound',
         pc \in {"deploy", "check"}, pc' \in {"deploy", "check"},
         UNCHANGED <<me, before, snap, ni, requeue, status>>,
         si' = si \/ (si' = si + 1 /\ DoneAt(ni, si)),
         cur'.deployed = cur.deployed,
         \A n \in NodeSets :
           cur'.nsConds[n][NodeSetReady] = cur.nsConds[n][NodeSetReady]
  PROVE  SafeInv'
<1>1. ServiceConditionSound'
  BY StatusStays DEF SafeInv
<1>2. ReadyDone' /\ ReadyInit'
  <2>1. \A i \in Places : /\ NodeSetAt(i) \in NodeSets
                          /\ NodeSetAt(i)' = NodeSetAt(i)
    BY PlaceType, SamePlace
  <2>2. ReadyInit'
    BY <2>1 DEF SafeInv, ReadyInit, Places
  <2>3. ReadyDone'
    BY <2>1, ListStays DEF SafeInv, ReadyDone, Places
  <2> QED BY <2>2, <2>3
<1>3. LoopDone'
  <2>1. SUFFICES ASSUME ~requeue, NEW i \in 1..(ni - 1)
                 PROVE  ListDone(i)'
    BY DEF LoopDone
  <2>2. i \in Places /\ ListDone(i)
    BY <2>1, SpecAssumption DEF SafeInv, LoopDone, Places, TypeInv, InLoop, TypeOK
  <2> QED BY <2>2, ListStays
<1>4. PassedDone'
  <2>1. SUFFICES ASSUME NEW j \in 1..(si' - 1)
                 PROVE  DoneAt(ni, j)'
    BY DEF PassedDone
  <2>2. j \in 1..(si - 1) \/ (j = si /\ DoneAt(ni, si))
    BY <2>1 DEF TypeInv, TypeOK
  <2>3. DoneAt(ni, j)
    BY <2>2 DEF SafeInv, PassedDone
  <2> QED BY <2>3, DoneAtStays
<1>5. DeployedDone'
  BY DEF SafeInv, DeployedDone
<1> QED BY <1>1, <1>2, <1>3, <1>4, <1>5 DEF SafeInv

\* A reconcile step of the loops over NodeSets and services.
LEMMA LoopSafe ==
  ASSUME TypeInv, SafeInv, DoneStep, DistinctConditionTypes,
         \/ NodeSetDone \/ ServiceError \/ ServiceReady \/ ServicePending
         \/ DeployService \/ DeployServiceError
         \/ ExecutionNotFound \/ ExecutionLookupError \/ ExecutionSucceeded
         \/ ExecutionInProgress \/ ExecutionFailed
  PROVE  SafeInv'
<1>p. pc \in {"deploy", "check"}
  BY DEF NodeSetDone, ServiceError, ServiceReady, ServicePending, DeployService,
     DeployServiceError, ExecutionNotFound, ExecutionLookupError, ExecutionSucceeded,
     ExecutionInProgress, ExecutionFailed
<1>t. /\ ThisNodeSet \in NodeSets
      /\ ThisConds \in [NSCondTypes -> Cond]
      /\ ServicesAt(ni) \in Seq(Services)
      /\ AtService => /\ ThisService \in Services
                      /\ ConditionType[ThisService] \in NSCondTypes
                      /\ ConditionType[ThisService] # NodeSetReady
  BY <1>p, ThisType
<1>s. pc = "check" => AtService
  BY DEF TypeInv, InLoop
\* Deploy returns without the condition of the current service being True.
<1>l. ASSUME AtService, NEW c \in Cond, c # "True", NEW failed \in BOOLEAN,
             LeaveNodeSet(WithCond(c), FALSE, failed), UNCHANGED status
      PROVE  SafeInv'
  <2>1. /\ WithCond(c) \in [NSCondTypes -> Cond]
        /\ \A t \in NSCondTypes : WithCond(c)[t] = "True" => ThisConds[t] = "True"
        /\ WithCond(c)[NodeSetReady] = ThisConds[NodeSetReady]
    BY <1>l, <1>t DEF WithCond, NSCondTypes
  <2> QED BY <1>l, <1>p, <2>1, LeaveSafe
<1>k. ASSUME NEW failed \in BOOLEAN,
             LeaveNodeSet(ThisConds, FALSE, failed), UNCHANGED status
      PROVE  SafeInv'
  BY <1>k, <1>p, <1>t, LeaveSafe
<1>c. {"Error", "Requested", "Warning", "Backoff"} \subseteq Cond \ {"True"}
  BY DEF Cond, FalseConds
<1>1. CASE NodeSetDone
  <2>1. ListDone(ni)
    <3>1. SUFFICES ASSUME NEW j \in 1..Len(ServicesAt(ni))
                   PROVE  DoneAt(ni, j)
      BY <1>t DEF ListDone, Ran, DoneAt
    <3>2. pc = "deploy" /\ si > Len(ServicesAt(ni))
      BY <1>1 DEF NodeSetDone
    <3>3. j \in 1..(si - 1)
      BY <1>t, <3>2 DEF TypeInv, TypeOK
    <3> QED BY <3>2, <3>3 DEF SafeInv, PassedDone
  <2> QED BY <1>1, <1>p, <1>t, <2>1, LeaveSafe DEF NodeSetDone, store
<1>2. CASE ServiceError
  BY <1>2, <1>c, <1>l DEF ServiceError, store
<1>3. CASE ServiceReady
  <2>1. Done(me, ThisNodeSet, ThisService)
    BY <1>3, <1>t DEF ServiceReady, IsTrue, ThisCond, ThisConds, SafeInv, CurSound, CondsDone
  <2>2. DoneAt(ni, si)
    BY <2>1 DEF DoneAt, ThisNodeSet, ThisService
  <2>3. /\ UNCHANGED <<pc, me, before, snap, cur, ni, requeue, status>>
        /\ si' = si + 1
    BY <1>3 DEF ServiceReady, loop, store
  <2>4. CurSound'
    BY <2>3, CurStays DEF NoNewTrue, SafeInv
  <2> QED BY <1>p, <2>2, <2>3, <2>4, WithinListSafe
<1>4. CASE ServicePending
  <2>1. /\ UNCHANGED <<me, before, snap, cur, ni, si, requeue, status>>
        /\ pc' = "check"
    BY <1>4 DEF ServicePending, loop, store
  <2>2. CurSound'
    BY <2>1, CurStays DEF NoNewTrue, SafeInv
  <2> QED BY <1>p, <2>1, <2>2, WithinListSafe
<1>5. CASE DeployService
  <2>1. /\ UNCHANGED <<me, before, snap, cur, ni, si, requeue, status>>
        /\ pc' = "check"
    BY <1>5 DEF DeployService, loop
  <2>2. CurSound'
    BY <2>1, CurStays DEF NoNewTrue, SafeInv
  <2> QED BY <1>p, <2>1, <2>2, WithinListSafe
<1>6. CASE DeployServiceError
  BY <1>6, <1>k DEF DeployServiceError, store
<1>7. CASE ExecutionNotFound
  BY <1>7, <1>k DEF ExecutionNotFound, store
<1>8. CASE ExecutionSucceeded
  <2>1. PICK x \in ExecutionNames :
          /\ Exists(aeeCache[x]) /\ aeeCache[x].label = ThisLabel
          /\ aeeCache[x].job = "Succeeded"
    BY <1>8 DEF ExecutionSucceeded, FoundJob, Found, WithLabel
  <2>2. Exists(aee[x]) /\ aee[x].label = ThisLabel /\ aee[x].job = "Succeeded"
    BY <2>1 DEF TypeInv, CacheBehind
  <2>3. Done(me, ThisNodeSet, ThisService)
    BY <2>2 DEF Done, WithLabel, ThisLabel
  <2>4. DoneAt(ni, si)
    BY <2>3 DEF DoneAt, ThisNodeSet, ThisService
  <2>5. /\ UNCHANGED <<me, before, snap, ni, requeue, status>>
        /\ si' = si + 1 /\ pc' = "deploy"
        /\ cur' = [cur EXCEPT !.nsConds[ThisNodeSet] = WithCond("True")]
        /\ AtService
    BY <1>8, <1>s DEF ExecutionSucceeded, loop, store
  <2>6. /\ cur'.deployed = cur.deployed
        /\ \A n \in NodeSets, t \in NSCondTypes :
             cur'.nsConds[n][t] =
               IF n = ThisNodeSet /\ t = ConditionType[ThisService] THEN "True"
               ELSE cur.nsConds[n][t]
    BY <1>t, <2>5 DEF WithCond, ThisConds, TypeInv, TypeOK, Status
  <2>7. CurSound'
    <3>1. SUFFICES ASSUME NEW n \in NodeSets, NEW s \in Services,
                          cur'.nsConds[n][ConditionType[s]] = "True"
                   PROVE  Done(me, n, s)'
      BY DEF CurSound, CondsDone
    <3>2. ConditionType[s] \in NSCondTypes
      BY DEF NSCondTypes, ServiceConds
    <3>3. Done(me, n, s)
      <4>1. CASE n = ThisNodeSet /\ ConditionType[s] = ConditionType[ThisService]
        BY <1>t, <2>3, <2>5, <4>1 DEF DistinctConditionTypes
      <4>2. CASE ~(n = ThisNodeSet /\ ConditionType[s] = ConditionType[ThisService])
        BY <2>6, <3>1, <3>2, <4>2 DEF SafeInv, CurSound, CondsDone
      <4> QED BY <4>1, <4>2
    <3>4. \A d : Done(d, n, s) => Done(d, n, s)'
      BY DEF DoneStep
    <3> QED BY <2>5, <3>3, <3>4 DEF Done, WithLabel
  <2>8. \A n \in NodeSets :
          cur'.nsConds[n][NodeSetReady] = cur.nsConds[n][NodeSetReady]
    BY <1>t, <2>5, <2>6 DEF NSCondTypes
  <2> QED BY <1>p, <2>4, <2>5, <2>6, <2>7, <2>8, WithinListSafe
<1>9. CASE ExecutionInProgress
  BY <1>9, <1>c, <1>l, <1>s DEF ExecutionInProgress, store
<1>10. CASE ExecutionFailed
  <2>1. PICK r \in {"Warning", "Backoff"} : LeaveNodeSet(WithCond(r), FALSE, TRUE)
    BY <1>10 DEF ExecutionFailed
  <2> QED BY <1>10, <1>c, <1>l, <1>s, <2>1 DEF ExecutionFailed, store
<1>11. CASE ExecutionLookupError
  <2>1. /\ AtService /\ pc' = "patch" /\ UNCHANGED <<me, snap, before, status>>
        /\ \/ cur' = cur
           \/ cur' = [cur EXCEPT !.nsConds[ThisNodeSet] = WithCond("Error")]
    BY <1>11, <1>s DEF ExecutionLookupError, Return, loop, store
  <2>2. /\ WithCond("Error") \in [NSCondTypes -> Cond]
        /\ \A t \in NSCondTypes :
             WithCond("Error")[t] = "Error" \/ WithCond("Error")[t] = ThisConds[t]
    BY <1>c, <1>t, <2>1 DEF WithCond
  <2> HIDE DEF WithCond
  <2>3. /\ cur'.deployed = cur.deployed
        /\ \A n \in NodeSets :
             \/ cur'.nsConds[n] = cur.nsConds[n]
             \/ n = ThisNodeSet /\ cur'.nsConds[n] = WithCond("Error")
    <3>1. cur \in Status
      BY DEF TypeInv, TypeOK
    <3>2. CASE cur' = cur
      BY <3>2
    <3>3. CASE cur' = [cur EXCEPT !.nsConds[ThisNodeSet] = WithCond("Error")]
      BY <1>t, <3>1, <3>3 DEF Status
    <3> QED BY <2>1, <3>2, <3>3
  <2>4. NoNewTrue
    BY <2>2, <2>3 DEF NoNewTrue, ThisConds
  <2>5. ~cur.deployed
    BY <1>p DEF SafeInv, DeployedDone
  <2> QED BY <1>p, <2>1, <2>3, <2>4, <2>5, ReturnSafe
<1> QED BY <1>1, <1>2, <1>3, <1>4, <1>5, <1>6, <1>7, <1>8, <1>9, <1>10, <1>11

\* What PatchInstance writes, and where.
LEMMA PatchStep ==
  ASSUME TypeInv, PatchInstance
  PROVE  /\ \A d \in Deployments : d # me => status'[d] = status[d]
         /\ status'[me].deployed =
              Merge(before.deployed, cur.deployed, status[me].deployed)
         /\ \A n \in NodeSets : \/ status'[me].nsConds[n] = cur.nsConds[n]
                                \/ status'[me].nsConds[n] = status[me].nsConds[n]
<1> DEFINE new == [cur EXCEPT !.conds = SetReady(@)]
<1>1. new.deployed = cur.deployed /\ new.nsConds = cur.nsConds
  BY DEF TypeInv, TypeOK, Status
<1> HIDE DEF new
<1>2. PICK touched \in BOOLEAN :
        status' = [status EXCEPT ![me] =
                     PatchedStatus(before, new, status[me], touched)]
  BY DEF PatchInstance, new
<1>3. /\ \A d \in Deployments : d # me => status'[d] = status[d]
      /\ status'[me] = PatchedStatus(before, new, status[me], touched)
  BY <1>2 DEF TypeInv, TypeOK
<1>4. status'[me].deployed =
        Merge(before.deployed, cur.deployed, status[me].deployed)
  BY <1>1, <1>3 DEF PatchedStatus
<1>5. \A n \in NodeSets : \/ status'[me].nsConds[n] = cur.nsConds[n]
                          \/ status'[me].nsConds[n] = status[me].nsConds[n]
  BY <1>1, <1>3 DEF PatchedStatus, Merge
<1> QED BY <1>3, <1>4, <1>5

\* The outcome of a reconcile and the patch of the status.
LEMMA OutcomeSafe ==
  ASSUME TypeInv, SafeInv, DoneStep,
         \/ DeploymentFailed \/ DeploymentWaits \/ DeploymentSucceeded
         \/ PatchInstance \/ PatchInstanceError
  PROVE  SafeInv'
<1>c. cur \in Status
  BY DEF TypeInv, TypeOK
<1>r. ASSUME cur'.nsConds = cur.nsConds, cur'.deployed => AllDone,
             pc = "conclude", pc' = "patch",
             UNCHANGED <<me, snap, before, status>>
      PROVE  SafeInv'
  <2>1. NoNewTrue
    BY <1>r DEF NoNewTrue
  <2> QED BY <1>r, <2>1, ReturnSafe
<1>d. pc = "conclude" => ~cur.deployed
  BY DEF SafeInv, DeployedDone
<1>1. CASE DeploymentFailed
  <2>1. cur'.nsConds = cur.nsConds /\ cur'.deployed = cur.deployed
    BY <1>1, <1>c DEF DeploymentFailed, Status
  <2> QED BY <1>1, <1>d, <1>r, <2>1 DEF DeploymentFailed, Return, loop, store
<1>2. CASE DeploymentWaits
  BY <1>2, <1>d, <1>r DEF DeploymentWaits, Return, loop, store
<1>3. CASE DeploymentSucceeded
  <2>1. cur'.nsConds = cur.nsConds
    BY <1>3, <1>c DEF DeploymentSucceeded, SetHashes, Status
  <2>2. AllDone
    <3>1. \A i \in 1..(ni - 1) : ListDone(i)
      BY <1>3 DEF DeploymentSucceeded, SafeInv, LoopDone
    <3>2. ni - 1 = Len(SpecNodeSets[me]) /\ DOMAIN SpecNodeSets[me] = Places
      BY <1>3, SpecAssumption DEF DeploymentSucceeded, TypeInv, InLoop, TypeOK, Places
    <3> QED BY <3>1, <3>2 DEF AllDone, ListDone, Places
  <2> QED BY <1>3, <1>r, <2>1, <2>2 DEF DeploymentSucceeded, Return, loop, store
<1>4. CASE PatchInstance
  <2>1. ServiceConditionSound'
    <3>1. SUFFICES ASSUME NEW d \in Deployments, NEW n \in NodeSets, NEW s \in Services,
                          status'[d].nsConds[n][ConditionType[s]] = "True"
                   PROVE  Done(d, n, s)'
      BY DEF ServiceConditionSound
    <3>2. CASE d # me
      BY <1>4, <3>1, <3>2, PatchStep DEF SafeInv, ServiceConditionSound, DoneStep
    <3>3. CASE d = me
      <4>1. Done(d, n, s)
        BY <1>4, <3>1, <3>3, PatchStep
           DEF SafeInv, ServiceConditionSound, CurSound, CondsDone
      <4> QED BY <4>1 DEF DoneStep
    <3> QED BY <3>2, <3>3
  <2> QED BY <1>4, <2>1, IdleSafe DEF PatchInstance
<1>5. CASE PatchInstanceError
  <2>1. ServiceConditionSound'
    BY <1>5, StatusStays DEF PatchInstanceError, store, SafeInv
  <2> QED BY <1>5, <2>1, IdleSafe DEF PatchInstanceError
<1> QED BY <1>1, <1>2, <1>3, <1>4, <1>5

LEMMA OtherSafe ==
  ASSUME TypeInv, SafeInv, DoneStep,
         \/ \E d \in Deployments : Request(d) \/ SyncStatus(d)
         \/ Crash
         \/ \E x \in ExecutionNames : JobStep(x) \/ SyncAEE(x)
         \/ \E n \in NodeSets : NodeSetChange(n)
         \/ \E s \in Services : ServiceChange(s)
  PROVE  SafeInv'
<1>1. ASSUME NEW d \in Deployments, Fetch(d) PROVE SafeInv'
  <2> DEFINE new == InitConditions(d, cached[d])
  <2>u. /\ pc' = "nodesets" /\ me' = d /\ before' = cached[d] /\ cur' = new
        /\ ~cached[d].deployed /\ UNCHANGED <<snap, status>>
    BY <1>1 DEF Fetch, store
  <2>1. cached[d] \in Status
    BY DEF TypeInv, TypeOK
  <2>2. /\ ~new.deployed
        /\ \A n \in NodeSets, t \in NSCondTypes :
             new.nsConds[n][t] = IF n \in Ran(SpecNodeSets[d]) /\ t = NodeSetReady
                                 THEN "Unknown" ELSE "Absent"
    BY <2>1 DEF InitConditions, Status
  <2> HIDE DEF new
  <2>3. \A i \in 1..Len(SpecNodeSets[d]) :
          /\ SpecNodeSets[d][i] \in NodeSets
          /\ SpecNodeSets[d][i] \in Ran(SpecNodeSets[d])
    BY SpecAssumption DEF Ran
  <2>4. /\ NodeSetReady \in NSCondTypes
        /\ \A s \in Services : ConditionType[s] \in NSCondTypes
    BY DEF NSCondTypes, ServiceConds
  <2>5. ServiceConditionSound' /\ CurSound'
    BY <2>2, <2>4, <2>u, StatusStays DEF SafeInv, CurSound, CondsDone
  <2>6. ReadyDone' /\ ReadyInit'
    BY <2>2, <2>3, <2>4, <2>u DEF ReadyDone, ReadyInit, Places, NodeSetAt
  <2>7. PassedDone' /\ LoopDone' /\ DeployedDone'
    BY <2>2, <2>u DEF PassedDone, LoopDone, DeployedDone
  <2> QED BY <2>5, <2>6, <2>7 DEF SafeInv
<1>2. CASE Crash
  <2>1. ServiceConditionSound'
    BY <1>2, StatusStays DEF Crash, SafeInv
  <2> QED BY <1>2, <2>1, IdleSafe DEF Crash
<1>3. CASE \/ \E d \in Deployments : AlreadyDeployed(d) \/ SyncStatus(d)
           \/ \E x \in ExecutionNames : JobStep(x) \/ SyncAEE(x)
           \/ \E n \in NodeSets : NodeSetChange(n)
           \/ \E s \in Services : ServiceChange(s)
  <2>1. UNCHANGED <<worker, status>>
    BY <1>3 DEF AlreadyDeployed, SyncStatus, JobStep, JobSucceed, JobFail, JobRetry, Job,
                SyncAEE, NodeSetChange, ServiceChange, store
  <2> QED BY <2>1, FrameSafe
<1> QED BY <1>1, <1>2, <1>3 DEF Request

LEMMA SafeInvNext ==
  ASSUME DistinctConditionTypes
  PROVE  TypeInv /\ SafeInv /\ [Next]_vars => SafeInv'
<1> SUFFICES ASSUME TypeInv, SafeInv, [Next]_vars PROVE SafeInv'
  OBVIOUS
<1>d. DoneStep
  BY DoneStays
<1>1. CASE Reconcile
  BY <1>1, <1>d, PrepareSafe, LoopSafe, OutcomeSafe DEF Reconcile
<1>2. CASE Next /\ ~Reconcile
  BY <1>2, <1>d, OtherSafe DEF Next
<1>3. CASE UNCHANGED vars
  BY <1>3, <1>d, FrameSafe DEF vars, store
<1> QED BY <1>1, <1>2, <1>3

LEMMA SafeInvariant ==
  ASSUME DistinctConditionTypes
  PROVE  Spec => [](TypeInv /\ SafeInv)
<1>1. TypeInv /\ SafeInv /\ [Next]_vars => TypeInv' /\ SafeInv'
  BY TypeInvNext, SafeInvNext
<1> QED BY <1>1, TypeInvInit, SafeInvInit, PTL DEF Spec

-----------------------------------------------------------------------------
(* The theorems *)

(***************************************************************************)
(* A service condition that is True was earned: the execution of that      *)
(* service for that NodeSet succeeded.  It needs the condition types of    *)
(* the services to be distinct, which the code does not ensure.            *)
(***************************************************************************)
THEOREM ConditionsAreSound ==
  ASSUME DistinctConditionTypes
  PROVE  Spec => []ServiceConditionSound
<1>1. TypeInv /\ SafeInv => ServiceConditionSound
  BY DEF SafeInv
<1> QED BY <1>1, SafeInvariant, PTL

\* Only the patch writes a status.
LEMMA StatusWrites ==
  ASSUME [Next]_vars, ~PatchInstance
  PROVE  UNCHANGED status
BY DEF Next, Request, AlreadyDeployed, Fetch, SyncStatus, Reconcile, Crash, SyncAEE,
   NodeSetChange, ServiceChange, NodeSetsNotReady, NodeSetGetError, EnsureNodeSets,
   TLSServiceMissing, EnsureTLSCertsError, EnsureTLSCerts, ConsistencyError,
   GetVersionError, BeginDeploy, NodeSetDone, ServiceError, ServiceReady,
   ServicePending, DeployService, DeployServiceError, ExecutionNotFound,
   ExecutionLookupError, ExecutionSucceeded, ExecutionInProgress, ExecutionFailed,
   DeploymentFailed, DeploymentWaits, DeploymentSucceeded, PatchInstanceError, Return, store, vars,
   JobStep, JobSucceed, JobFail, JobRetry, Job

\* The cache takes over what is stored.
LEMMA CachedWrites ==
  ASSUME [Next]_vars, TypeInv, NEW d \in Deployments
  PROVE  cached'[d] = cached[d] \/ cached'[d] = status[d]
<1>1. CASE UNCHANGED cached
  BY <1>1
<1>2. CASE Crash
  BY <1>2 DEF Crash
<1>3. ASSUME NEW e \in Deployments, SyncStatus(e)
      PROVE  cached'[d] = cached[d] \/ cached'[d] = status[d]
  BY <1>3 DEF SyncStatus, TypeInv, TypeOK
<1>4. UNCHANGED cached \/ Crash \/ \E e \in Deployments : SyncStatus(e)
  BY DEF Next, Request, AlreadyDeployed, Fetch, Reconcile, SyncAEE,
   NodeSetChange, ServiceChange, NodeSetsNotReady, NodeSetGetError, EnsureNodeSets,
   TLSServiceMissing, EnsureTLSCertsError, EnsureTLSCerts, ConsistencyError,
   GetVersionError, BeginDeploy, NodeSetDone, ServiceError, ServiceReady,
   ServicePending, DeployService, DeployServiceError, ExecutionNotFound,
   ExecutionLookupError, ExecutionSucceeded, ExecutionInProgress, ExecutionFailed,
   DeploymentFailed, DeploymentWaits, DeploymentSucceeded, PatchInstance, PatchInstanceError,
   Return, store, vars, JobStep, JobSucceed, JobFail, JobRetry, Job
<1> QED BY <1>1, <1>2, <1>3, <1>4

(***************************************************************************)
(* When status.deployed becomes true every service of every NodeSet has    *)
(* succeeded, for any lists, faults and interleavings, if the condition    *)
(* types of the services are distinct.                                     *)
(***************************************************************************)
THEOREM DeployedIsDone ==
  ASSUME DistinctConditionTypes
  PROVE  Spec => DeployedMeansDone
<1>1. ASSUME TypeInv, SafeInv, [Next]_vars
      PROVE  BecomesDeployed
  <2>1. CASE PatchInstance
    <3>1. SUFFICES ASSUME NEW d \in Deployments, ~status[d].deployed, status'[d].deployed
                   PROVE  d = me /\ AllDone
      BY DEF BecomesDeployed
    <3>2. d = me
      BY <1>1, <2>1, <3>1, PatchStep
    <3>3. status'[me].deployed =
            Merge(before.deployed, cur.deployed, status[me].deployed)
      BY <1>1, <2>1, PatchStep
    <3>4. cur.deployed
      BY <3>1, <3>2, <3>3 DEF Merge
    <3> QED BY <1>1, <3>2, <3>4 DEF SafeInv, DeployedDone
  <2>2. CASE ~PatchInstance
    BY <1>1, <2>2, StatusWrites DEF BecomesDeployed
  <2> QED BY <2>1, <2>2
<1>2. TypeInv /\ SafeInv /\ [Next]_vars => [BecomesDeployed]_vars
  BY <1>1
<1> QED BY <1>2, SafeInvariant, PTL DEF Spec, DeployedMeansDone

(***************************************************************************)
(* When the condition of a NodeSet becomes True every service of that      *)
(* NodeSet has succeeded, if the condition types are distinct.             *)
(***************************************************************************)
THEOREM NodeSetReadyIsDone ==
  ASSUME DistinctConditionTypes
  PROVE  Spec => NodeSetReadyMeansDone
<1>1. ASSUME TypeInv, SafeInv, [Next]_vars
      PROVE  BecomesReady
  <2>1. CASE PatchInstance
    <3>1. SUFFICES ASSUME NEW d \in Deployments, NEW n \in NodeSets,
                          ~IsTrue(status[d].nsConds[n][NodeSetReady]),
                          IsTrue(status'[d].nsConds[n][NodeSetReady])
                   PROVE  /\ d = me
                          /\ \A i \in DOMAIN SpecNodeSets[me] : NodeSetAt(i) = n =>
                               \A s \in Ran(ServicesAt(i)) : Done(me, n, s)
      BY DEF BecomesReady
    <3>2. d = me
      BY <1>1, <2>1, <3>1, PatchStep
    <3>3. cur.nsConds[n][NodeSetReady] = "True"
      BY <1>1, <2>1, <3>1, <3>2, PatchStep DEF IsTrue
    <3>4. DOMAIN SpecNodeSets[me] = Places
      BY <1>1, SpecAssumption DEF Places, TypeInv, TypeOK
    <3>5. \A i \in Places : NodeSetAt(i) = n => ListDone(i)
      BY <1>1, <3>3 DEF SafeInv, ReadyDone
    <3> QED BY <3>2, <3>4, <3>5 DEF ListDone
  <2>2. CASE ~PatchInstance
    BY <1>1, <2>2, StatusWrites DEF BecomesReady
  <2> QED BY <2>1, <2>2
<1>2. TypeInv /\ SafeInv /\ [Next]_vars => [BecomesReady]_vars
  BY <1>1
<1> QED BY <1>2, SafeInvariant, PTL DEF Spec, NodeSetReadyMeansDone

\* The steps of a reconcile that has not passed its NodeSets, and those between
\* two reconciles.
Waiting == pc \in {"idle", "nodesets", "patch"}

\* While the NodeSets are not ready a reconcile comes to nothing: it goes from
\* reading them to the patch, and starts no NodeSet condition.
LEMMA WaitingSteps ==
  ASSUME TypeInv, [Next]_vars, Waiting, pc = "nodesets" => ~NodeSetsReady
  PROVE  /\ Waiting'
         /\ \A n \in NodeSets :
              cur'.nsConds[n][NodeSetReady]
                \in {cur.nsConds[n][NodeSetReady], "Unknown", "Absent"}
<1>c. cur \in Status
  BY DEF TypeInv, TypeOK
<1>1. CASE UNCHANGED <<pc, cur>>
  BY <1>1 DEF Waiting
<1>2. CASE Idle
  <2>1. pc' = "idle" /\ cur' = EmptyStatus
    BY <1>2 DEF Idle
  <2> QED BY <2>1 DEF Waiting, EmptyStatus, NSCondTypes
<1>3. ASSUME NEW d \in Deployments, Fetch(d)
      PROVE  /\ Waiting'
             /\ \A n \in NodeSets :
                  cur'.nsConds[n][NodeSetReady] \in {"Unknown", "Absent"}
  <2>1. pc' = "nodesets" /\ cur' = InitConditions(d, cached[d]) /\ cached[d] \in Status
    BY <1>3 DEF Fetch, TypeInv, TypeOK
  <2> QED BY <2>1 DEF Waiting, InitConditions, Status, NSCondTypes
<1>4. CASE NodeSetsNotReady \/ NodeSetGetError
  <2>1. pc' = "patch" /\ cur'.nsConds = cur.nsConds
    BY <1>c, <1>4 DEF NodeSetsNotReady, NodeSetGetError, Return, Status
  <2> QED BY <2>1 DEF Waiting
<1>5. \/ UNCHANGED <<pc, cur>> \/ Idle \/ \E d \in Deployments : Fetch(d)
      \/ NodeSetsNotReady \/ NodeSetGetError
  BY DEF Waiting, Next, Request, AlreadyDeployed, SyncStatus, Reconcile, Crash, SyncAEE,
   NodeSetChange, ServiceChange, EnsureNodeSets,
   TLSServiceMissing, EnsureTLSCertsError, EnsureTLSCerts, ConsistencyError,
   GetVersionError, BeginDeploy, NodeSetDone, ServiceError, ServiceReady,
   ServicePending, DeployService, DeployServiceError, ExecutionNotFound,
   ExecutionLookupError, ExecutionSucceeded, ExecutionInProgress, ExecutionFailed,
   DeploymentFailed, DeploymentWaits, DeploymentSucceeded, PatchInstance, PatchInstanceError, worker, vars,
   JobStep, JobSucceed, JobFail, JobRetry, Job
<1> QED BY <1>1, <1>2, <1>3, <1>4, <1>5

\* Only DeployService creates an execution.
LEMMA Creations ==
  ASSUME TypeInv, [Next]_vars, NEW x \in ExecutionNames,
         ~Exists(aee[x]), Exists(aee'[x])
  PROVE  DeployService
<1>t. aee \in [ExecutionNames -> AEE \cup {NoAEE}] /\ aee[x].job = "Absent"
  BY DEF TypeInv, TypeOK, Exists
<1>1. UNCHANGED aee => FALSE
  BY DEF Exists
<1>2. ASSUME NEW y \in ExecutionNames, JobStep(y) PROVE FALSE
  <2>1. y # x /\ \E to, r : aee' = [aee EXCEPT ![y].job = to, ![y].retries = r]
    BY <1>t, <1>2 DEF JobStep, JobSucceed, JobFail, JobRetry, Job
  <2>2. aee'[x] = aee[x]
    BY <1>t, <2>1
  <2> QED BY <2>2 DEF Exists
<1> QED BY <1>1, <1>2, ExecutionWrites

(***************************************************************************)
(* An execution is created only after every service before it in the list  *)
(* of its NodeSet has succeeded, if the condition types are distinct.      *)
(***************************************************************************)
THEOREM ServicesInOrder ==
  ASSUME DistinctConditionTypes
  PROVE  Spec => ServiceOrder
<1>1. ASSUME TypeInv, SafeInv, [Next]_vars
      PROVE  CreatesInOrder
  <2>1. SUFFICES ASSUME NEW x \in ExecutionNames, ~Exists(aee[x]), Exists(aee'[x])
                 PROVE  \A j \in 1..(si - 1) : DoneAt(ni, j)
    BY DEF CreatesInOrder, DoneAt, ThisNodeSet
  <2>2. pc = "deploy"
    BY <1>1, <2>1, Creations DEF DeployService
  <2> QED BY <1>1, <2>2 DEF SafeInv, PassedDone
<1>2. TypeInv /\ SafeInv /\ [Next]_vars => [CreatesInOrder]_vars
  BY <1>1
<1> QED BY <1>2, SafeInvariant, PTL DEF Spec, ServiceOrder

\* A reconcile starts only from a copy that is not deployed.
NotDeployedBefore == ~before.deployed

(***************************************************************************)
(* status.deployed is never taken back, without any assumption on the      *)
(* condition types: a reconcile that starts from a stale copy does not     *)
(* include the field in its patch.                                         *)
(***************************************************************************)
THEOREM DeployedStays == Spec => DeployedForever
<1>1. Init => NotDeployedBefore
  BY DEF Init, NotDeployedBefore, EmptyStatus
<1>2. NotDeployedBefore /\ [Next]_vars => NotDeployedBefore'
  <2> SUFFICES ASSUME NotDeployedBefore, [Next]_vars PROVE NotDeployedBefore'
    OBVIOUS
  <2>1. CASE UNCHANGED before
    BY <2>1 DEF NotDeployedBefore
  <2>2. CASE Idle
    BY <2>2 DEF Idle, NotDeployedBefore, EmptyStatus
  <2>3. CASE \E d \in Deployments : Fetch(d)
    BY <2>3 DEF Fetch, NotDeployedBefore
  <2>4. [Next]_vars => \/ UNCHANGED before \/ Idle
                       \/ \E d \in Deployments : Fetch(d)
    BY DEF Next, Request, AlreadyDeployed, SyncStatus, Reconcile, Crash, SyncAEE,
     NodeSetChange, ServiceChange, NodeSetsNotReady, NodeSetGetError, EnsureNodeSets,
     TLSServiceMissing, EnsureTLSCertsError, EnsureTLSCerts, ConsistencyError,
     GetVersionError, BeginDeploy, NodeSetDone, ServiceError, ServiceReady,
     ServicePending, DeployService, DeployServiceError, ExecutionNotFound,
     ExecutionLookupError, ExecutionSucceeded, ExecutionInProgress, ExecutionFailed,
     DeploymentFailed, DeploymentWaits, DeploymentSucceeded, PatchInstance, PatchInstanceError, Return,
     LeaveNodeSet, JobStep, JobSucceed, JobFail, JobRetry, Job, loop, worker, vars
  <2> QED BY <2>1, <2>2, <2>3, <2>4
<1>3. ASSUME TypeInv, NotDeployedBefore, [Next]_vars
      PROVE  StaysDeployed
  <2>1. CASE PatchInstance
    <3>1. SUFFICES ASSUME NEW d \in Deployments, status[d].deployed
                   PROVE  status'[d].deployed
      BY DEF StaysDeployed
    <3>2. CASE d # me
      BY <1>3, <2>1, <3>1, <3>2, PatchStep
    <3>3. CASE d = me
      <4>1. status'[me].deployed =
              Merge(before.deployed, cur.deployed, status[me].deployed)
        BY <1>3, <2>1, PatchStep
      <4>2. cur.deployed \in BOOLEAN /\ before.deployed = FALSE
        BY <1>3 DEF TypeInv, TypeOK, Status, NotDeployedBefore
      <4> QED BY <3>1, <3>3, <4>1, <4>2 DEF Merge
    <3> QED BY <3>2, <3>3
  <2>2. CASE ~PatchInstance
    BY <1>3, <2>2, StatusWrites DEF StaysDeployed
  <2> QED BY <2>1, <2>2
<1>4. TypeInv /\ NotDeployedBefore /\ [Next]_vars => [StaysDeployed]_vars
  BY <1>3
<1> QED BY <1>1, <1>2, <1>4, TypeInvInit, TypeInvNext, PTL DEF Spec, DeployedForever

-----------------------------------------------------------------------------
(* TLS certificates *)

\* The j-th service of the i-th NodeSet has its certificates, if it needs any.
HasCerts(i, j) ==
  NodeSetAt(i) \in TLSNodeSets /\ ServicesAt(i)[j] \in TLSServices
    => <<NodeSetAt(i), ServicesAt(i)[j]>> \in certs

\* The loop over the NodeSets runs only when the TLS loop has nothing to do.
CertsWritten ==
  pc \in {"deploy", "check"} =>
    \A i \in Places : \A j \in DOMAIN ServicesAt(i) : HasCerts(i, j)

CertsInv == CertsBeforeExecution /\ CertsWritten

LEMMA CertsStay == [Next]_vars => certs \subseteq certs'
BY DEF Next, Request, AlreadyDeployed, Fetch, SyncStatus, Reconcile, Crash, SyncAEE,
   NodeSetChange, ServiceChange, NodeSetsNotReady, NodeSetGetError, EnsureNodeSets,
   TLSServiceMissing, EnsureTLSCertsError, EnsureTLSCerts, ConsistencyError,
   GetVersionError, BeginDeploy, NodeSetDone, ServiceError, ServiceReady,
   ServicePending, DeployService, DeployServiceError, ExecutionNotFound,
   ExecutionLookupError, ExecutionSucceeded, ExecutionInProgress, ExecutionFailed,
   DeploymentFailed, DeploymentWaits, DeploymentSucceeded, PatchInstance, PatchInstanceError, Return,
   store, env, vars, JobStep, JobSucceed, JobFail, JobRetry, Job

\* The loop is entered by BeginDeploy only; inside it what was read stays.
LEMMA EntersLoop ==
  ASSUME [Next]_vars, ~BeginDeploy, pc' \in {"deploy", "check"}
  PROVE  pc \in {"deploy", "check"} /\ UNCHANGED <<me, snap>>
BY DEF Next, Request, AlreadyDeployed, Fetch, SyncStatus, Reconcile, Crash, SyncAEE,
   NodeSetChange, ServiceChange, NodeSetsNotReady, NodeSetGetError, EnsureNodeSets,
   TLSServiceMissing, EnsureTLSCertsError, EnsureTLSCerts, ConsistencyError,
   GetVersionError, NodeSetDone, ServiceError, ServiceReady,
   ServicePending, DeployService, DeployServiceError, ExecutionNotFound,
   ExecutionLookupError, ExecutionSucceeded, ExecutionInProgress, ExecutionFailed,
   DeploymentFailed, DeploymentWaits, DeploymentSucceeded, PatchInstance, PatchInstanceError, Return,
   LeaveNodeSet, Idle, loop, worker, vars, JobStep, JobSucceed, JobFail, JobRetry, Job

LEMMA CertsWrittenNext ==
  ASSUME TypeInv, CertsWritten, [Next]_vars
  PROVE  CertsWritten'
<1>1. CASE BeginDeploy
  <2>u. UNCHANGED <<me, snap, certs>> /\ TLSReady
    BY <1>1 DEF BeginDeploy, loop, store, env, CanDeploy
  <2>1. SUFFICES ASSUME NEW i \in Places, NEW j \in DOMAIN ServicesAt(i)
                 PROVE  HasCerts(i, j)
    BY <2>u DEF CertsWritten, Places, HasCerts, ServicesAt, NodeSetAt
  <2>2. i \in DOMAIN SpecNodeSets[me]
    BY <2>1, SpecAssumption DEF Places, TypeInv, TypeOK
  <2> DEFINE p == <<i, j>>
  <2>3. p \in Positions
    BY <2>2 DEF Positions
  <2>4. ~TLSBlocked(p)
    BY <2>3, <2>u DEF TLSReady
  <2> QED BY <2>4 DEF TLSBlocked, ServiceAt, CertPair, HasCerts
<1>2. CASE ~BeginDeploy
  <2>1. CASE pc' \in {"deploy", "check"}
    <3>1. pc \in {"deploy", "check"} /\ UNCHANGED <<me, snap>> /\ certs \subseteq certs'
      BY <1>2, <2>1, EntersLoop, CertsStay
    <3> QED BY <3>1 DEF CertsWritten, Places, HasCerts, ServicesAt, NodeSetAt
  <2> QED BY <2>1 DEF CertsWritten
<1> QED BY <1>1, <1>2

\* An execution keeps its label; a new one carries the label of the service in work.
LEMMA LabelsStay ==
  ASSUME TypeInv, [Next]_vars, NEW x \in ExecutionNames, Exists(aee'[x])
  PROVE  \/ Exists(aee[x]) /\ aee'[x].label = aee[x].label
         \/ DeployService /\ aee'[x].label = ThisLabel
<1>t. aee \in [ExecutionNames -> AEE \cup {NoAEE}]
  BY DEF TypeInv, TypeOK
<1>1. CASE UNCHANGED aee
  BY <1>1
<1>2. CASE DeployService
  <2>1. CASE Exists(aee[x])
    BY <1>2, <2>1, ExecutedType DEF DeployService
  <2>2. CASE ~Exists(aee[x])
    <3>1. aee' = Executed
      BY <1>2 DEF DeployService
    <3>2. aee'[x] # aee[x]
      BY <2>2 DEF Exists
    <3>3. ~InCache
      BY <1>t, <2>2, <3>1, <3>2 DEF Executed, InCache, TypeInv, CacheBehind
    <3> QED BY <1>2, <1>t, <3>1, <3>2, <3>3 DEF Executed
  <2> QED BY <2>1, <2>2
<1>3. ASSUME NEW y \in ExecutionNames, JobStep(y)
      PROVE  Exists(aee[x]) /\ aee'[x].label = aee[x].label
  <2>1. Exists(aee[y]) /\ \E to, r : aee' = [aee EXCEPT ![y].job = to, ![y].retries = r]
    BY <1>3 DEF JobStep, JobSucceed, JobFail, JobRetry, Job, Exists
  <2>2. aee'[x].label = aee[x].label /\ (x # y => aee'[x] = aee[x])
    BY <1>t, <2>1 DEF AEE, NoAEE
  <2> QED BY <2>1, <2>2
<1> QED BY <1>1, <1>2, <1>3, ExecutionWrites

(***************************************************************************)
(* No service that owns TLS certificates is executed on a TLS NodeSet      *)
(* before they are written, even when the NodeSet's list changes during a  *)
(* reconcile: the TLS loop and the deployment use the same copy of it.     *)
(***************************************************************************)
THEOREM CertsComeFirst == Spec => []CertsBeforeExecution
<1>1. Init => CertsInv
  BY DEF Init, CertsInv, CertsBeforeExecution, CertsWritten, Exists, NoAEE
<1>2. TypeInv /\ CertsInv /\ [Next]_vars => CertsInv'
  <2> SUFFICES ASSUME TypeInv, CertsInv, [Next]_vars PROVE CertsInv'
    OBVIOUS
  <2>1. CertsWritten'
    BY CertsWrittenNext DEF CertsInv
  <2>2. ASSUME NEW x \in ExecutionNames, Exists(aee'[x]),
               aee'[x].label[3] \in TLSNodeSets, aee'[x].label[1] \in TLSServices
        PROVE  <<aee'[x].label[3], aee'[x].label[1]>> \in certs'
    <3>1. CASE Exists(aee[x]) /\ aee'[x].label = aee[x].label
      BY <2>2, <3>1, CertsStay DEF CertsInv, CertsBeforeExecution
    <3>2. CASE DeployService /\ aee'[x].label = ThisLabel
      <4>1. pc = "deploy" /\ AtService
        BY <3>2 DEF DeployService
      <4>2. ni \in Places /\ si \in DOMAIN ServicesAt(ni)
        BY <4>1, ThisType, SpecAssumption
           DEF AtService, Places, TypeInv, InLoop, TypeOK
      <4>3. HasCerts(ni, si)
        BY <4>1, <4>2 DEF CertsInv, CertsWritten
      <4>4. /\ aee'[x].label[3] = NodeSetAt(ni)
            /\ aee'[x].label[1] = ServicesAt(ni)[si]
        BY <3>2 DEF ThisLabel, ThisNodeSet, ThisService
      <4> QED BY <2>2, <4>3, <4>4, CertsStay DEF HasCerts
    <3> QED BY <2>2, <3>1, <3>2, LabelsStay
  <2>3. CertsBeforeExecution'
    BY <2>2 DEF CertsBeforeExecution
  <2> QED BY <2>1, <2>3 DEF CertsInv
<1>3. CertsInv => CertsBeforeExecution
  BY DEF CertsInv
<1> QED BY <1>1, <1>2, <1>3, TypeInvInit, TypeInvNext, PTL DEF Spec

-----------------------------------------------------------------------------
(* What a Deployment of one NodeSet reports, for the composition with NodeSet *)

SingleNodeSet == \A d \in Deployments : Len(SpecNodeSets[d]) = 1

OwnReady(st, d) == st.nsConds[SpecNodeSets[d][1]][NodeSetReady]

Reported(st) == st.conds["DeploymentReady"] # "Absent"

\* The NodeSet is ready only together with the Deployment, and what has not
\* been reported yet is not there.
ReportShape(st, d) ==
  /\ IsTrue(OwnReady(st, d)) => st.deployed
  /\ ~Reported(st) => OwnReady(st, d) = "Absent"

StoredReports ==
  /\ \A d \in Deployments :
       /\ ReportShape(status[d], d) /\ ReportShape(cached[d], d)
       /\ Reported(cached[d]) => Reported(status[d])
  /\ ReportShape(before, me)
  /\ Reported(before) => Reported(status[me])

\* In memory the NodeSet becomes ready at the end of its list and the Deployment
\* is then deployed; only with that are hashes recorded, those that were read.
WorkReports ==
  /\ pc \notin {"conclude", "patch"} => ~requeue /\ errs = "none"
  /\ pc # "idle" => Reported(cur)
  /\ pc \in {"deploy", "check"} => ~IsTrue(OwnReady(cur, me))
  /\ pc = "conclude" => (IsTrue(OwnReady(cur, me)) <=> ~requeue /\ errs = "none")
  /\ pc = "patch" => (IsTrue(OwnReady(cur, me)) <=> cur.deployed)
  /\ \A n \in NodeSets :
       cur.nodeSetHashes[n] # before.nodeSetHashes[n] =>
         cur.deployed /\ cur.nodeSetHashes[n] = snap[n].configHash

ReportInv == StoredReports /\ WorkReports

LEMMA OwnPlace ==
  ASSUME SingleNodeSet, TypeInv
  PROVE  /\ Places = {1} /\ DOMAIN SpecNodeSets[me] = {1}
         /\ NodeSetAt(1) = SpecNodeSets[me][1] /\ NodeSetAt(1) \in NodeSets
         /\ pc \in {"deploy", "check"} => ni = 1
<1>1. me \in Deployments /\ Len(SpecNodeSets[me]) = 1 /\ SpecNodeSets[me] \in Seq(NodeSets)
  BY SpecAssumption DEF SingleNodeSet, TypeInv, TypeOK
<1>2. Places = {1} /\ DOMAIN SpecNodeSets[me] = {1}
  BY <1>1 DEF Places
<1>3. pc \in {"deploy", "check"} => ni = 1
  BY <1>1 DEF TypeInv, InLoop, TypeOK
<1> QED BY <1>1, <1>2, <1>3 DEF NodeSetAt

LEMMA EmptyReports ==
  ASSUME NEW d \in Deployments
  PROVE  ReportShape(EmptyStatus, d) /\ ~Reported(EmptyStatus)
<1>1. SpecNodeSets[d][1] \in NodeSets
  BY SpecAssumption
<1> QED BY <1>1 DEF ReportShape, Reported, OwnReady, EmptyStatus, IsTrue, DeploymentConds,
                    NSCondTypes

LEMMA ReportInvInit == Init => ReportInv
<1> SUFFICES ASSUME Init PROVE ReportInv
  OBVIOUS
<1>1. StoredReports
  BY EmptyReports DEF Init, StoredReports
<1>2. WorkReports
  BY DEF Init, WorkReports
<1> QED BY <1>1, <1>2 DEF ReportInv

\* What the patch makes of the stored status.
LEMMA PatchReports ==
  ASSUME SingleNodeSet, TypeInv, SafeInv, ReportInv, PatchInstance
  PROVE  /\ ReportShape(status'[me], me) /\ Reported(status'[me])
         /\ OwnReady(status'[me], me) # OwnReady(status[me], me)
              => OwnReady(status'[me], me) # "Absent"
         /\ OwnReady(status'[me], me) = OwnReady(status[me], me)
              => IsTrue(OwnReady(status'[me], me)) \/ Reported(status[me])
         /\ \A n \in NodeSets :
              status'[me].nodeSetHashes[n] # status[me].nodeSetHashes[n] =>
                /\ IsTrue(OwnReady(status'[me], me)) /\ cur.deployed
                /\ status'[me].nodeSetHashes[n] = snap[n].configHash
<1> DEFINE new == [cur EXCEPT !.conds = SetReady(@)]
           own == SpecNodeSets[me][1]
<1>1. /\ new.deployed = cur.deployed /\ new.nsConds = cur.nsConds
      /\ new.nodeSetHashes = cur.nodeSetHashes
      /\ new.conds["DeploymentReady"] = cur.conds["DeploymentReady"]
  BY DEF TypeInv, TypeOK, Status, SetReady, DeploymentConds
<1> HIDE DEF new
<1>2. PICK touched \in BOOLEAN :
        status' = [status EXCEPT ![me] =
                     PatchedStatus(before, new, status[me], touched)]
  BY DEF PatchInstance, new
<1>3. status'[me] = PatchedStatus(before, new, status[me], touched)
  BY <1>2 DEF TypeInv, TypeOK
<1>4. own \in NodeSets /\ pc = "patch" /\ own = NodeSetAt(1) /\ 1 \in Places
  BY OwnPlace DEF PatchInstance
<1>5. /\ status'[me].deployed = Merge(before.deployed, cur.deployed, status[me].deployed)
      /\ status'[me].conds = Merge(before.conds, new.conds, status[me].conds)
      /\ status'[me].nsConds[own] =
           IF touched THEN cur.nsConds[own]
           ELSE Merge(before.nsConds[own], cur.nsConds[own], status[me].nsConds[own])
      /\ \A n \in NodeSets : status'[me].nodeSetHashes[n] =
           Merge(before.nodeSetHashes[n], cur.nodeSetHashes[n], status[me].nodeSetHashes[n])
  BY <1>1, <1>3, <1>4 DEF PatchedStatus
<1>6. /\ ~before.deployed /\ Reported(cur) /\ OwnReady(cur, me) # "Absent"
      /\ IsTrue(OwnReady(cur, me)) <=> cur.deployed
      /\ ~IsTrue(OwnReady(before, me))
      /\ ~Reported(before) => OwnReady(before, me) = "Absent"
      /\ Reported(before) => Reported(status[me])
      /\ IsTrue(OwnReady(status[me], me)) => status[me].deployed
      /\ ~Reported(status[me]) => OwnReady(status[me], me) = "Absent"
      /\ me \in Deployments
      /\ before.deployed \in BOOLEAN /\ cur.deployed \in BOOLEAN
  BY <1>4 DEF SafeInv, DeployedDone, ReadyInit, ReportInv, StoredReports, WorkReports,
              ReportShape, OwnReady, TypeInv, TypeOK, Status
<1>7. Reported(status'[me])
  BY <1>1, <1>5, <1>6 DEF Reported, Merge
<1>8. \/ OwnReady(status'[me], me) = OwnReady(cur, me)
      \/ /\ OwnReady(status'[me], me) = OwnReady(status[me], me)
         /\ OwnReady(cur, me) = OwnReady(before, me)
  BY <1>5 DEF OwnReady, Merge
<1>9. ReportShape(status'[me], me)
  BY <1>5, <1>6, <1>7, <1>8 DEF ReportShape, Merge
<1>10. ASSUME NEW n \in NodeSets,
              status'[me].nodeSetHashes[n] # status[me].nodeSetHashes[n]
       PROVE  /\ IsTrue(OwnReady(status'[me], me)) /\ cur.deployed
              /\ status'[me].nodeSetHashes[n] = snap[n].configHash
  <2>1. /\ cur.nodeSetHashes[n] # before.nodeSetHashes[n]
        /\ status'[me].nodeSetHashes[n] = cur.nodeSetHashes[n]
    BY <1>5, <1>10 DEF Merge
  <2>2. cur.deployed /\ cur.nodeSetHashes[n] = snap[n].configHash
    BY <2>1 DEF ReportInv, WorkReports
  <2> QED BY <1>6, <1>8, <2>1, <2>2
<1> QED BY <1>6, <1>7, <1>8, <1>9, <1>10

LEMMA StoredReportsNext ==
  ASSUME SingleNodeSet, TypeInv, SafeInv, ReportInv, [Next]_vars
  PROVE  StoredReports'
<1>0. me \in Deployments /\ status \in [Deployments -> Status] /\ cached \in [Deployments -> Status]
  BY DEF TypeInv, TypeOK
<1>1. \A d \in Deployments : /\ ReportShape(status'[d], d)
                             /\ Reported(status[d]) => Reported(status'[d])
  <2>1. CASE PatchInstance
    BY <2>1, PatchReports, PatchStep DEF ReportInv, StoredReports
  <2>2. CASE ~PatchInstance
    BY <2>2, StatusWrites DEF ReportInv, StoredReports
  <2> QED BY <2>1, <2>2
<1>2. \A d \in Deployments : cached'[d] = cached[d] \/ cached'[d] = status[d]
  BY CachedWrites
<1>3. \A d \in Deployments : /\ ReportShape(cached'[d], d)
                             /\ Reported(cached'[d]) => Reported(status'[d])
  BY <1>1, <1>2 DEF ReportInv, StoredReports
<1>4. ReportShape(before', me') /\ (Reported(before') => Reported(status'[me']))
  <2>1. CASE UNCHANGED <<before, me>>
    BY <1>0, <1>1, <2>1 DEF ReportInv, StoredReports
  <2>2. CASE Idle
    BY <1>0, <2>2, EmptyReports DEF Idle
  <2>3. CASE \E d \in Deployments : Fetch(d)
    BY <1>1, <2>3 DEF Fetch, ReportInv, StoredReports
  <2>4. UNCHANGED <<before, me>> \/ Idle \/ \E d \in Deployments : Fetch(d)
    BY DEF Next, Request, AlreadyDeployed, SyncStatus, Reconcile, Crash, SyncAEE,
     NodeSetChange, ServiceChange, NodeSetsNotReady, NodeSetGetError, EnsureNodeSets,
     TLSServiceMissing, EnsureTLSCertsError, EnsureTLSCerts, ConsistencyError,
     GetVersionError, BeginDeploy, NodeSetDone, ServiceError, ServiceReady,
     ServicePending, DeployService, DeployServiceError, ExecutionNotFound,
     ExecutionLookupError, ExecutionSucceeded, ExecutionInProgress, ExecutionFailed,
     DeploymentFailed, DeploymentWaits, DeploymentSucceeded, PatchInstance, PatchInstanceError, Return,
     LeaveNodeSet, loop, worker, vars, JobStep, JobSucceed, JobFail, JobRetry, Job
  <2> QED BY <2>1, <2>2, <2>3, <2>4
<1> QED BY <1>1, <1>3, <1>4 DEF StoredReports

\* A step that returns before the end of the loop, or from an end without success.
LEMMA ReturnReports ==
  ASSUME TypeInv, SafeInv, WorkReports, pc \notin {"idle", "patch"}, pc' = "patch",
         cur'.nodeSetHashes = cur.nodeSetHashes, cur'.deployed = cur.deployed,
         Reported(cur'), ~IsTrue(OwnReady(cur', me)), UNCHANGED <<me, before>>
  PROVE  WorkReports'
<1>1. ~cur.deployed
  BY DEF SafeInv, DeployedDone
<1> QED BY <1>1 DEF WorkReports

\* A step inside the list of services.
LEMMA WithinReports ==
  ASSUME TypeInv, SafeInv, WorkReports, pc \in {"deploy", "check"}, pc' \in {"deploy", "check"},
         cur'.nodeSetHashes = cur.nodeSetHashes, cur'.deployed = cur.deployed,
         Reported(cur'), OwnReady(cur', me) = OwnReady(cur, me),
         UNCHANGED <<me, before, requeue, errs>>
  PROVE  WorkReports'
<1>1. ~cur.deployed
  BY DEF SafeInv, DeployedDone
<1> QED BY <1>1 DEF WorkReports

\* The end of the list of services.
LEMMA LeaveReports ==
  ASSUME SingleNodeSet, TypeInv, SafeInv, WorkReports, pc \in {"deploy", "check"},
         NEW conds \in [NSCondTypes -> Cond],
         conds[NodeSetReady] = ThisConds[NodeSetReady],
         NEW done \in BOOLEAN, NEW failed \in BOOLEAN, ~(done /\ failed),
         LeaveNodeSet(conds, done, failed)
  PROVE  WorkReports'
<1> DEFINE ready == IF done THEN "True" ELSE Mirror({conds[t] : t \in NSCondTypes})
<1>1. /\ ni = 1 /\ ThisNodeSet = SpecNodeSets[me][1] /\ ThisNodeSet \in NodeSets
      /\ Len(SpecNodeSets[me]) = 1 /\ 1 \in Places /\ NodeSetAt(1) = SpecNodeSets[me][1]
  BY OwnPlace DEF ThisNodeSet, SingleNodeSet, TypeInv, TypeOK
<1>2. conds[NodeSetReady] \notin {"True", "Absent"} /\ conds[NodeSetReady] \in Cond
  <2>1. conds[NodeSetReady] = OwnReady(cur, me)
    BY <1>1 DEF ThisConds, OwnReady
  <2>2. ~IsTrue(OwnReady(cur, me)) /\ OwnReady(cur, me) # "Absent"
    BY <1>1 DEF WorkReports, SafeInv, ReadyInit, OwnReady
  <2>3. NodeSetReady \in NSCondTypes
    BY DEF NSCondTypes
  <2> QED BY <2>1, <2>2, <2>3 DEF IsTrue
<1>3. ready = "True" <=> done
  <2>1. conds[NodeSetReady] \in {conds[t] : t \in NSCondTypes}
    BY DEF NSCondTypes
  <2>2. \A S : conds[NodeSetReady] \in S => Mirror(S) # "True"
    BY <1>2 DEF Mirror, Cond, FalseConds
  <2> QED BY <2>1, <2>2
<1>4. /\ cur' = [cur EXCEPT !.nsConds[ThisNodeSet] = [conds EXCEPT ![NodeSetReady] = ready]]
      /\ requeue' = (requeue \/ ~done)
      /\ errs' = IF ~failed THEN errs ELSE IF ready = "Backoff" THEN "Backoff" ELSE "Warning"
      /\ pc' = "conclude" /\ UNCHANGED <<me, before, snap>>
  BY <1>1 DEF LeaveNodeSet, loop
<1> HIDE DEF ready
<1>5. /\ cur'.conds = cur.conds /\ cur'.deployed = cur.deployed
      /\ cur'.nodeSetHashes = cur.nodeSetHashes
      /\ OwnReady(cur', me) = ready
  BY <1>1, <1>4 DEF OwnReady, TypeInv, TypeOK, Status, NSCondTypes
<1>6. ~cur.deployed /\ ~requeue /\ errs = "none"
  BY DEF SafeInv, DeployedDone, WorkReports
<1>7. IsTrue(OwnReady(cur', me)) <=> ~requeue' /\ errs' = "none"
  BY <1>3, <1>4, <1>5, <1>6 DEF IsTrue
<1> QED BY <1>4, <1>5, <1>6, <1>7 DEF WorkReports, Reported

\* The steps before the loop.
LEMMA PrepareReports ==
  ASSUME SingleNodeSet, TypeInv, SafeInv, WorkReports,
         \/ NodeSetsNotReady \/ NodeSetGetError \/ EnsureNodeSets
         \/ TLSServiceMissing \/ EnsureTLSCertsError \/ EnsureTLSCerts
         \/ ConsistencyError \/ GetVersionError \/ BeginDeploy
  PROVE  WorkReports'
<1>c. cur \in Status
  BY DEF TypeInv, TypeOK
<1>o. /\ SpecNodeSets[me][1] \in NodeSets /\ NodeSetAt(1) = SpecNodeSets[me][1]
      /\ DOMAIN SpecNodeSets[me] = {1}
  BY OwnPlace
<1>p. pc \in {"nodesets", "prepare"}
  BY DEF NodeSetsNotReady, NodeSetGetError, EnsureNodeSets, TLSServiceMissing,
         EnsureTLSCertsError, EnsureTLSCerts, ConsistencyError, GetVersionError, BeginDeploy
<1>n. ~IsTrue(OwnReady(cur, me)) /\ Reported(cur) /\ ~cur.deployed
  BY <1>o, <1>p DEF SafeInv, ReadyInit, DeployedDone, OwnReady, IsTrue, WorkReports
<1>1. CASE TLSServiceMissing \/ EnsureTLSCertsError
  <2>1. PICK q \in Positions : TLSError(q)
    BY <1>1 DEF TLSServiceMissing, EnsureTLSCertsError
  <2>2. q[1] = 1
    BY <1>o DEF Positions
  <2>3. /\ cur'.nodeSetHashes = cur.nodeSetHashes /\ cur'.deployed = cur.deployed
        /\ Reported(cur') /\ ~IsTrue(OwnReady(cur', me))
    BY <1>c, <1>o, <1>n, <2>1, <2>2
       DEF TLSError, Status, Reported, OwnReady, IsTrue, DeploymentConds, NSCondTypes
  <2>4. pc' = "patch" /\ UNCHANGED <<me, before>>
    BY <1>1 DEF TLSServiceMissing, EnsureTLSCertsError, Return, loop
  <2> QED BY <1>p, <2>3, <2>4, ReturnReports
<1>2. CASE NodeSetsNotReady \/ NodeSetGetError \/ EnsureTLSCerts \/ ConsistencyError
           \/ GetVersionError
  <2>1. pc' = "patch" /\ UNCHANGED <<me, before>>
    BY <1>2 DEF NodeSetsNotReady, NodeSetGetError, EnsureTLSCerts, ConsistencyError,
                GetVersionError, Return, loop
  <2>2. /\ cur'.nodeSetHashes = cur.nodeSetHashes /\ cur'.deployed = cur.deployed
        /\ cur'.nsConds = cur.nsConds /\ Reported(cur')
    BY <1>2, <1>c, <1>n DEF NodeSetsNotReady, NodeSetGetError, EnsureTLSCerts,
       ConsistencyError, GetVersionError, Status, Reported, DeploymentConds
  <2>3. ~IsTrue(OwnReady(cur', me))
    BY <1>n, <2>2 DEF OwnReady
  <2> QED BY <1>p, <2>1, <2>2, <2>3, ReturnReports
<1>3. CASE EnsureNodeSets
  <2>1. pc' = "prepare" /\ UNCHANGED <<me, before, cur, requeue, errs>>
    BY <1>3 DEF EnsureNodeSets
  <2> QED BY <1>p, <1>n, <2>1 DEF WorkReports
<1>4. CASE BeginDeploy
  <2>1. pc' = "deploy" /\ ~requeue' /\ errs' = "none" /\ UNCHANGED <<me, before, snap>>
    BY <1>4 DEF BeginDeploy, loop
  <2>2. /\ cur'.nodeSetHashes = cur.nodeSetHashes /\ cur'.deployed = cur.deployed
        /\ cur'.nsConds = cur.nsConds /\ Reported(cur')
    BY <1>4, <1>c DEF BeginDeploy, Status, Reported, DeploymentConds
  <2>3. ~IsTrue(OwnReady(cur', me))
    BY <1>n, <2>2 DEF OwnReady
  <2> QED BY <1>n, <2>1, <2>2, <2>3 DEF WorkReports
<1> QED BY <1>1, <1>2, <1>3, <1>4

\* The loop over the services.
LEMMA LoopReports ==
  ASSUME SingleNodeSet, TypeInv, SafeInv, WorkReports,
         \/ NodeSetDone \/ ServiceError \/ ServiceReady \/ ServicePending
         \/ DeployService \/ DeployServiceError
         \/ ExecutionNotFound \/ ExecutionLookupError \/ ExecutionSucceeded
         \/ ExecutionInProgress \/ ExecutionFailed
  PROVE  WorkReports'
<1>c. cur \in Status
  BY DEF TypeInv, TypeOK
<1>p. pc \in {"deploy", "check"} /\ Reported(cur) /\ (pc = "check" => AtService)
  BY DEF NodeSetDone, ServiceError, ServiceReady, ServicePending, DeployService,
         DeployServiceError, ExecutionNotFound, ExecutionLookupError, ExecutionSucceeded,
         ExecutionInProgress, ExecutionFailed, WorkReports, TypeInv, InLoop
<1>o. ThisNodeSet = SpecNodeSets[me][1] /\ ThisNodeSet \in NodeSets
  BY <1>p, OwnPlace DEF ThisNodeSet
<1>t. /\ ThisConds \in [NSCondTypes -> Cond]
      /\ AtService => \A c \in Cond : /\ WithCond(c) \in [NSCondTypes -> Cond]
                                      /\ WithCond(c)[NodeSetReady] = ThisConds[NodeSetReady]
  BY <1>p, ThisType DEF WithCond, NSCondTypes
<1>v. {"Error", "True", "Requested", "Warning", "Backoff"} \subseteq Cond
  BY DEF Cond, FalseConds
<1>1. CASE NodeSetDone
  BY <1>1, <1>p, <1>t, LeaveReports DEF NodeSetDone
<1>2. CASE ServiceError
  BY <1>2, <1>p, <1>t, <1>v, LeaveReports DEF ServiceError
<1>3. CASE DeployServiceError \/ ExecutionNotFound
  BY <1>3, <1>p, <1>t, LeaveReports DEF DeployServiceError, ExecutionNotFound
<1>4. CASE ExecutionInProgress
  BY <1>4, <1>p, <1>t, <1>v, LeaveReports DEF ExecutionInProgress
<1>5. CASE ExecutionFailed
  <2>1. PICK r \in {"Warning", "Backoff"} : LeaveNodeSet(WithCond(r), FALSE, TRUE)
    BY <1>5 DEF ExecutionFailed
  <2>2. AtService /\ r \in Cond
    BY <1>5, <1>p, <1>v DEF ExecutionFailed
  <2> QED BY <1>p, <1>t, <2>1, <2>2, LeaveReports
<1>6. CASE ServiceReady \/ ServicePending \/ DeployService
  <2>1. pc' \in {"deploy", "check"} /\ UNCHANGED <<me, before, cur, requeue, errs>>
    BY <1>6 DEF ServiceReady, ServicePending, DeployService, loop
  <2> QED BY <1>p, <2>1, WithinReports
<1>7. CASE ExecutionSucceeded
  <2>1. /\ pc' = "deploy" /\ UNCHANGED <<me, before, requeue, errs>>
        /\ cur' = [cur EXCEPT !.nsConds[ThisNodeSet] = WithCond("True")] /\ AtService
    BY <1>7, <1>p DEF ExecutionSucceeded, loop
  <2>2. WithCond("True")[NodeSetReady] = ThisConds[NodeSetReady]
    BY <1>t, <1>v, <2>1
  <2> HIDE DEF WithCond
  <2>3. /\ cur'.conds = cur.conds /\ cur'.deployed = cur.deployed
        /\ cur'.nodeSetHashes = cur.nodeSetHashes
        /\ cur'.nsConds[ThisNodeSet] = WithCond("True")
    BY <1>c, <1>o, <2>1 DEF Status
  <2>4. Reported(cur') /\ OwnReady(cur', me) = OwnReady(cur, me)
    BY <1>p, <1>o, <2>2, <2>3 DEF Reported, OwnReady, ThisConds
  <2> QED BY <1>p, <2>1, <2>3, <2>4, WithinReports
<1>8. CASE ExecutionLookupError
  <2>1. /\ pc' = "patch" /\ UNCHANGED <<me, before>> /\ AtService /\ pc = "check"
        /\ \/ cur' = cur
           \/ cur' = [cur EXCEPT !.nsConds[ThisNodeSet] = WithCond("Error")]
    BY <1>8, <1>p DEF ExecutionLookupError, Return, loop
  <2>2. WithCond("Error")[NodeSetReady] = ThisConds[NodeSetReady]
    BY <1>t, <1>v, <2>1
  <2> HIDE DEF WithCond
  <2>3. /\ cur'.conds = cur.conds /\ cur'.deployed = cur.deployed
        /\ cur'.nodeSetHashes = cur.nodeSetHashes
        /\ cur'.nsConds[ThisNodeSet] \in {ThisConds, WithCond("Error")}
    BY <1>c, <1>o, <2>1 DEF Status, ThisConds
  <2>4. Reported(cur') /\ OwnReady(cur', me) = OwnReady(cur, me)
    BY <1>p, <1>o, <2>2, <2>3 DEF Reported, OwnReady, ThisConds
  <2>5. ~IsTrue(OwnReady(cur', me))
    BY <1>p, <2>4 DEF WorkReports
  <2> QED BY <2>1, <2>3, <2>4, <2>5, ReturnReports
<1> QED BY <1>1, <1>2, <1>3, <1>4, <1>5, <1>6, <1>7, <1>8

\* The outcome.
LEMMA OutcomeReports ==
  ASSUME SingleNodeSet, TypeInv, SafeInv, WorkReports,
         DeploymentFailed \/ DeploymentWaits \/ DeploymentSucceeded
  PROVE  WorkReports'
<1>c. cur \in Status /\ errs \in {"none", "Warning", "Backoff"}
  BY DEF TypeInv, TypeOK
<1>p. pc = "conclude" /\ pc' = "patch" /\ UNCHANGED <<me, before, snap>> /\ Reported(cur)
  BY DEF DeploymentFailed, DeploymentWaits, DeploymentSucceeded, Return, loop, WorkReports
<1>1. CASE DeploymentFailed \/ DeploymentWaits
  <2>1. /\ cur'.nodeSetHashes = cur.nodeSetHashes /\ cur'.deployed = cur.deployed
        /\ cur'.nsConds = cur.nsConds /\ Reported(cur')
    BY <1>1, <1>c, <1>p DEF DeploymentFailed, DeploymentWaits, Status, Reported,
                            DeploymentConds
  <2>2. ~IsTrue(OwnReady(cur, me))
    BY <1>1, <1>p DEF DeploymentFailed, DeploymentWaits, WorkReports
  <2>3. ~IsTrue(OwnReady(cur', me))
    BY <2>1, <2>2 DEF OwnReady
  <2> QED BY <1>p, <2>1, <2>3, ReturnReports
<1>2. CASE DeploymentSucceeded
  <2> DEFINE st == [cur EXCEPT !.conds["DeploymentReady"] = "True", !.deployed = TRUE]
  <2>1. PICK hashed, failed : cur' = SetHashes(st, hashed, failed)
    BY <1>2 DEF DeploymentSucceeded
  <2>2. /\ st.nsConds = cur.nsConds /\ st.deployed /\ st.nodeSetHashes = cur.nodeSetHashes
        /\ st.conds["DeploymentReady"] = "True" /\ st \in Status
    BY <1>c DEF Status, DeploymentConds, Cond
  <2> HIDE DEF st
  <2>3. /\ cur'.nsConds = st.nsConds /\ cur'.deployed = st.deployed /\ cur'.conds = st.conds
        /\ \A n \in NodeSets : \/ cur'.nodeSetHashes[n] = st.nodeSetHashes[n]
                               \/ cur'.nodeSetHashes[n] = snap[n].configHash
    BY <2>1, <2>2 DEF SetHashes, Status
  <2>4. IsTrue(OwnReady(cur, me))
    BY <1>2, <1>p DEF DeploymentSucceeded, WorkReports
  <2>5. IsTrue(OwnReady(cur', me)) /\ Reported(cur')
    BY <2>2, <2>3, <2>4 DEF OwnReady, Reported
  <2>6. \A n \in NodeSets : cur.nodeSetHashes[n] = before.nodeSetHashes[n]
    BY <1>p DEF WorkReports, SafeInv, DeployedDone
  <2> QED BY <1>p, <2>2, <2>3, <2>5, <2>6 DEF WorkReports
<1> QED BY <1>1, <1>2

LEMMA ReportInvNext ==
  ASSUME SingleNodeSet
  PROVE  TypeInv /\ SafeInv /\ ReportInv /\ [Next]_vars => ReportInv'
<1> SUFFICES ASSUME TypeInv, SafeInv, ReportInv, [Next]_vars PROVE ReportInv'
  OBVIOUS
<1>w. WorkReports
  BY DEF ReportInv
<1>1. ASSUME UNCHANGED worker PROVE WorkReports'
  BY <1>w, <1>1 DEF worker, WorkReports
<1>2. ASSUME Idle PROVE WorkReports'
  BY <1>2 DEF Idle, WorkReports
<1>3. ASSUME NEW d \in Deployments, Fetch(d) PROVE WorkReports'
  <2>1. /\ pc = "idle" /\ pc' = "nodesets" /\ before' = cached[d]
        /\ cur' = InitConditions(d, cached[d]) /\ UNCHANGED <<requeue, errs>>
        /\ cached[d] \in Status
    BY <1>3 DEF Fetch, TypeInv, TypeOK
  <2>2. cur'.nodeSetHashes = before'.nodeSetHashes /\ Reported(cur')
    BY <2>1 DEF InitConditions, Status, Reported, DeploymentConds
  <2> QED BY <1>w, <2>1, <2>2 DEF WorkReports
<1>4. ASSUME Reconcile, ~PatchInstance, ~PatchInstanceError PROVE WorkReports'
  BY <1>w, <1>4, PrepareReports, LoopReports, OutcomeReports DEF Reconcile
<1>5. \/ UNCHANGED worker \/ Idle \/ (\E d \in Deployments : Fetch(d))
      \/ (Reconcile /\ ~PatchInstance /\ ~PatchInstanceError)
  BY DEF Next, Request, AlreadyDeployed, SyncStatus, Crash, SyncAEE, NodeSetChange,
     ServiceChange, PatchInstance, PatchInstanceError, vars, JobStep, JobSucceed, JobFail,
     JobRetry, Job
<1>6. WorkReports'
  BY <1>1, <1>2, <1>3, <1>4, <1>5
<1> QED BY <1>6, StoredReportsNext DEF ReportInv

\* The hashes that a reconcile may record are those it read at its start.
Recording == pc \in {"prepare", "deploy", "check", "conclude"} \/ cur.deployed

LEMMA RecordingSteps ==
  ASSUME TypeInv, [Next]_vars, Recording'
  PROVE  EnsureNodeSets \/ (Recording /\ UNCHANGED snap)
<1>c. cur \in Status
  BY DEF TypeInv, TypeOK
<1>1. CASE UNCHANGED worker
  BY <1>1 DEF worker, Recording
<1>2. CASE Idle
  BY <1>2 DEF Idle, Recording, EmptyStatus
<1>3. ASSUME NEW d \in Deployments, Fetch(d) PROVE FALSE
  <2>1. pc' = "nodesets" /\ cur' = InitConditions(d, cached[d]) /\ cached[d] \in Status
    BY <1>3 DEF Fetch, TypeInv, TypeOK
  <2> QED BY <2>1 DEF InitConditions, Status, Recording
<1>4. CASE NodeSetsNotReady \/ NodeSetGetError
  <2>1. pc' = "patch" /\ cur'.deployed = cur.deployed /\ UNCHANGED snap
    BY <1>c, <1>4 DEF NodeSetsNotReady, NodeSetGetError, Return, loop, Status
  <2> QED BY <2>1 DEF Recording
<1>5. CASE Reconcile /\ pc \in {"prepare", "deploy", "check", "conclude"}
  <2>1. UNCHANGED snap
    BY <1>5 DEF Reconcile, NodeSetsNotReady, NodeSetGetError, EnsureNodeSets,
     TLSServiceMissing, EnsureTLSCertsError, EnsureTLSCerts, ConsistencyError,
     GetVersionError, BeginDeploy, NodeSetDone, ServiceError, ServiceReady,
     ServicePending, DeployService, DeployServiceError, ExecutionNotFound,
     ExecutionLookupError, ExecutionSucceeded, ExecutionInProgress, ExecutionFailed,
     DeploymentFailed, DeploymentWaits, DeploymentSucceeded, PatchInstance, PatchInstanceError, Return,
     LeaveNodeSet, loop
  <2> QED BY <1>5, <2>1 DEF Recording
<1>6. \/ UNCHANGED worker \/ Idle \/ (\E d \in Deployments : Fetch(d))
      \/ EnsureNodeSets \/ NodeSetsNotReady \/ NodeSetGetError
      \/ (Reconcile /\ pc \in {"prepare", "deploy", "check", "conclude"})
  BY DEF Next, Request, AlreadyDeployed, SyncStatus, Crash, SyncAEE, NodeSetChange,
     ServiceChange, PatchInstance, PatchInstanceError, vars, JobStep, JobSucceed, JobFail,
     JobRetry, Job, Reconcile, TLSServiceMissing, EnsureTLSCertsError, EnsureTLSCerts,
     ConsistencyError, GetVersionError, BeginDeploy, NodeSetDone, ServiceError, ServiceReady,
     ServicePending, DeployService, DeployServiceError, ExecutionNotFound,
     ExecutionLookupError, ExecutionSucceeded, ExecutionInProgress, ExecutionFailed,
     DeploymentFailed, DeploymentWaits, DeploymentSucceeded
<1> QED BY <1>1, <1>2, <1>3, <1>4, <1>5, <1>6

=============================================================================

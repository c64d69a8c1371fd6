---------------------- MODULE DeploymentRolloutProofs ----------------------
(***************************************************************************)
(* Proof that the Deployment controller implements Rollout: under the      *)
(* mapping of Deployment to started, succeeded and deployed, every step is *)
(* a step of Rollout or changes nothing there.                             *)
(***************************************************************************)
EXTENDS DeploymentSafetyProofs

-----------------------------------------------------------------------------
(* The lists in work are lists that the Deployment may be asked for *)

\* The NodeSets in work were found when they were read.
SnapFound ==
  pc \in {"prepare", "deploy", "check", "conclude"} \/ cur.deployed =>
    \A i \in Places : snap[NodeSetAt(i)].found

RolloutInv == TypeInv /\ SafeInv /\ SnapFound

\* How the NodeSets in work come and go.
LEMMA SnapWrites ==
  ASSUME [Next]_vars
  PROVE  \/ /\ pc \in {"prepare", "deploy", "check", "conclude"}
            /\ UNCHANGED <<me, snap>>
         \/ UNCHANGED <<pc, me, snap, cur>>
         \/ Idle
         \/ EnsureNodeSets \/ NodeSetsNotReady \/ NodeSetGetError
         \/ \E d \in Deployments : Fetch(d)
BY DEF Next, Request, AlreadyDeployed, SyncStatus, Reconcile, Crash, SyncAEE,
   NodeSetChange, ServiceChange,
   TLSServiceMissing, EnsureTLSCertsError, EnsureTLSCerts, ConsistencyError,
   GetVersionError, BeginDeploy, NodeSetDone, ServiceError, ServiceReady,
   ServicePending, DeployService, DeployServiceError, ExecutionNotFound,
   ExecutionLookupError, ExecutionSucceeded, ExecutionInProgress, ExecutionFailed, DeploymentFailed,
   DeploymentWaits, DeploymentSucceeded, PatchInstance, PatchInstanceError, Return,
   LeaveNodeSet, loop, worker, store, vars, JobStep, JobSucceed, JobFail, JobRetry, Job

LEMMA SnapFoundNext ==
  ASSUME TypeInv, SafeInv, SnapFound, [Next]_vars
  PROVE  SnapFound'
<1>d. cur.deployed => pc = "patch"
  BY DEF SafeInv, DeployedDone
<1>1. CASE pc \in {"prepare", "deploy", "check", "conclude"} /\ UNCHANGED <<me, snap>>
  BY <1>1 DEF SnapFound, Places, NodeSetAt
<1>2. CASE UNCHANGED <<pc, me, snap, cur>>
  BY <1>2 DEF SnapFound, Places, NodeSetAt
<1>3. CASE Idle
  BY <1>3 DEF SnapFound, Idle, EmptyStatus
<1>4. CASE EnsureNodeSets
  <2>1. \A i \in Places : NodeSetAt(i) \in Ran(SpecNodeSets[me])
    BY SpecAssumption DEF Places, NodeSetAt, Ran, TypeInv, TypeOK
  <2>2. \A i \in Places : nodeSet[NodeSetAt(i)].found
    BY <1>4, <2>1 DEF EnsureNodeSets, NodeSetsReady
  <2>3. me' = me /\ snap' = nodeSet
    BY <1>4 DEF EnsureNodeSets
  <2> QED BY <2>2, <2>3 DEF SnapFound, Places, NodeSetAt
<1>5. CASE NodeSetsNotReady
  <2>1. pc' = "patch" /\ cur' = cur /\ pc = "nodesets"
    BY <1>5 DEF NodeSetsNotReady, Return
  <2> QED BY <1>d, <2>1 DEF SnapFound
<1>6. CASE NodeSetGetError
  <2>1. /\ pc' = "patch" /\ pc = "nodesets"
        /\ cur' = [cur EXCEPT !.conds["SetupReady"] = "Error"]
    BY <1>6 DEF NodeSetGetError, Return
  <2>2. cur'.deployed = cur.deployed
    BY <2>1 DEF TypeInv, TypeOK, Status
  <2> QED BY <1>d, <2>1, <2>2 DEF SnapFound
<1>7. CASE \E d \in Deployments : Fetch(d)
  <2>1. PICK d \in Deployments : Fetch(d)
    BY <1>7
  <2>2. pc' = "nodesets" /\ cur' = InitConditions(d, cached[d]) /\ cached[d] \in Status
    BY <2>1 DEF Fetch, TypeInv, TypeOK
  <2>3. ~cur'.deployed
    BY <2>2 DEF InitConditions, Status
  <2> QED BY <2>2, <2>3 DEF SnapFound
<1> QED BY <1>1, <1>2, <1>3, <1>4, <1>5, <1>6, <1>7, SnapWrites

LEMMA ListAllowed ==
  ASSUME TypeInv, NEW i \in Places, snap[NodeSetAt(i)].found
  PROVE  ServicesAt(i) \in ServiceLists[me]
<1>1. me \in Deployments /\ NodeSetAt(i) \in NodeSets
  BY PlaceType DEF TypeInv, TypeOK
<1>2. snap[NodeSetAt(i)] \in {w \in NodeSetViews : w.found}
  BY <1>1 DEF TypeInv, TypeOK
<1> QED BY <1>1, <1>2 DEF ServicesAt, ServiceLists

-----------------------------------------------------------------------------
(* What the steps do to the executions and the Deployments *)

LEMMA SucceededDone ==
  ASSUME NEW s \in Services, NEW d \in Deployments, NEW n \in NodeSets
  PROVE  <<s, d, n>> \in Succeeded <=> Done(d, n, s)
BY DEF Succeeded, Labels

\* The objects that exist keep their labels, and no job succeeds.
LEMMA SameExecutions ==
  ASSUME \A x \in ExecutionNames :
           /\ Exists(aee'[x]) <=> Exists(aee[x])
           /\ Exists(aee[x]) => aee'[x].label = aee[x].label
           /\ aee'[x].job = "Succeeded" <=> aee[x].job = "Succeeded"
  PROVE  UNCHANGED <<Started, Succeeded>>
<1>1. \A l : WithLabel(aee, l)' = WithLabel(aee, l)
  BY DEF WithLabel
<1>2. \A d, n, s : Done(d, n, s)' = Done(d, n, s)
  BY <1>1 DEF Done, WithLabel
<1> QED BY <1>1, <1>2 DEF Started, Succeeded

LEMMA SameDeployed ==
  ASSUME UNCHANGED status
  PROVE  UNCHANGED Deployed
BY DEF Deployed

\* A patch that says deployed completes the Deployment in work.
LEMMA PatchCompletes ==
  ASSUME RolloutInv, PatchInstance
  PROVE  R!Complete(me) \/ UNCHANGED R!vars
<1>t. TypeInv /\ SafeInv /\ SnapFound /\ me \in Deployments
  BY DEF RolloutInv, TypeInv, TypeOK
<1>a. UNCHANGED <<Started, Succeeded>>
  <2>1. aee' = aee
    BY DEF PatchInstance
  <2> QED BY <2>1, SameExecutions
<1>s. /\ \A d \in Deployments : d # me => status'[d] = status[d]
      /\ status'[me].deployed =
           Merge(before.deployed, cur.deployed, status[me].deployed)
  BY <1>t, PatchStep
<1>b. ~before.deployed /\ before.deployed \in BOOLEAN /\ cur.deployed \in BOOLEAN
  BY <1>t DEF SafeInv, DeployedDone, TypeInv, TypeOK, Status
<1>1. CASE ~cur.deployed
  <2>1. status'[me].deployed = status[me].deployed
    BY <1>1, <1>b, <1>s DEF Merge
  <2>2. \A d \in Deployments : status'[d].deployed = status[d].deployed
    BY <1>s, <2>1
  <2>3. Deployed' = Deployed
    BY <2>2 DEF Deployed
  <2> QED BY <1>a, <2>3 DEF R!vars
<1>2. CASE cur.deployed
  <2>1. status'[me].deployed
    BY <1>2, <1>b, <1>s DEF Merge
  <2>2. Deployed' = Deployed \cup {me}
    BY <1>s, <1>t, <2>1 DEF Deployed
  <2>3. ASSUME NEW n \in Ran(SpecNodeSets[me])
        PROVE  \E l \in ServiceLists[me] : R!Through(me, n, l, Len(l) + 1)
    <3>0. DOMAIN SpecNodeSets[me] = Places
      BY <1>t, SpecAssumption DEF Places
    <3>1. PICK i \in Places : n = NodeSetAt(i)
      BY <2>3, <3>0 DEF Ran, NodeSetAt
    <3>2. ServicesAt(i) \in ServiceLists[me]
      BY <1>2, <1>t, <3>1, ListAllowed DEF SnapFound
    <3>3. n \in NodeSets /\ ServicesAt(i) \in Seq(Services)
      BY <1>t, <3>1, PlaceType
    <3>4. \A s \in Ran(ServicesAt(i)) : Done(me, n, s)
      BY <1>2, <1>t, <3>0, <3>1 DEF SafeInv, DeployedDone, AllDone
    <3>5. ASSUME NEW j \in 1..((Len(ServicesAt(i)) + 1) - 1)
          PROVE  <<ServicesAt(i)[j], me, n>> \in Succeeded
      <4>1. ServicesAt(i)[j] \in Ran(ServicesAt(i)) /\ ServicesAt(i)[j] \in Services
        BY <3>3, <3>5 DEF Ran
      <4>2. Done(me, n, ServicesAt(i)[j])
        BY <3>4, <4>1
      <4> QED BY <1>t, <3>3, <4>1, <4>2, SucceededDone
    <3>6. R!Through(me, n, ServicesAt(i), Len(ServicesAt(i)) + 1)
      BY <3>5 DEF R!Through
    <3> QED BY <3>2, <3>6
  <2> QED BY <1>a, <1>t, <2>2, <2>3 DEF R!Complete
<1> QED BY <1>1, <1>2

\* A job that succeeds is an execution that succeeds.
LEMMA JobSucceeds ==
  ASSUME TypeInv, NEW y \in ExecutionNames, JobStep(y)
  PROVE  (\E e \in Started : R!Succeed(e)) \/ UNCHANGED R!vars
<1>t. aee \in [ExecutionNames -> AEE \cup {NoAEE}]
  BY DEF TypeInv, TypeOK
<1>d. UNCHANGED Deployed
  BY SameDeployed DEF JobStep, JobSucceed, JobFail, JobRetry, Job
<1>o. ASSUME NEW from, NEW to, NEW r, from # "Absent", to # "Absent", Job(y, from, to, r)
      PROVE  /\ aee[y].job = from /\ aee[y] \in AEE
             /\ aee'[y].label = aee[y].label /\ aee'[y].job = to
             /\ \A x \in ExecutionNames : x # y => aee'[x] = aee[x]
  <2>1. aee[y].job = from /\ aee' = [aee EXCEPT ![y].job = to, ![y].retries = r]
    BY <1>o DEF Job
  <2>2. aee[y] \in AEE
    BY <1>o, <1>t, <2>1 DEF NoAEE
  <2>3. aee'[y] = [aee[y] EXCEPT !.job = to, !.retries = r]
    BY <1>t, <2>1
  <2>4. aee'[y].label = aee[y].label /\ aee'[y].job = to
    BY <2>2, <2>3 DEF AEE
  <2> QED BY <1>t, <2>1, <2>2, <2>4
<1>1. CASE JobSucceed(y)
  <2> DEFINE e == aee[y].label
  <2>1. /\ aee[y].job = "Active" /\ aee[y] \in AEE
        /\ aee'[y].label = aee[y].label /\ aee'[y].job = "Succeeded"
        /\ \A x \in ExecutionNames : x # y => aee'[x] = aee[x]
    BY <1>1, <1>o DEF JobSucceed
  <2>2. e \in Labels
    BY <2>1 DEF AEE
  <2>3. e \in Started
    BY <2>1, <2>2 DEF Started, WithLabel, Exists
  <2>4. \A l : WithLabel(aee, l)' = WithLabel(aee, l)
    BY <2>1 DEF WithLabel, Exists
  <2>5. Started' = Started
    BY <2>4 DEF Started
  <2>6. ASSUME NEW l \in Labels
        PROVE  Done(l[2], l[3], l[1])' <=> Done(l[2], l[3], l[1]) \/ l = e
    <3>1. l = <<l[1], l[2], l[3]>>
      BY DEF Labels
    <3> QED BY <2>1, <2>4, <3>1 DEF Done, WithLabel, Exists
  <2>7. Succeeded' = Succeeded \cup {e}
    BY <2>2, <2>6 DEF Succeeded
  <2>8. R!Succeed(e)
    BY <1>d, <2>3, <2>5, <2>7 DEF R!Succeed
  <2> QED BY <2>3, <2>8
<1>2. CASE JobFail(y) \/ JobRetry(y)
  <2>1. PICK from \in {"Active", "Failed"}, to \in {"Active", "Failed", "Backoff"},
               r \in {aee[y].retries, aee[y].retries + 1} :
          Job(y, from, to, r)
    BY <1>2 DEF JobFail, JobRetry
  <2>2. /\ aee[y].job = from
        /\ aee'[y].label = aee[y].label /\ aee'[y].job = to
        /\ \A x \in ExecutionNames : x # y => aee'[x] = aee[x]
    BY <2>1, <1>o
  <2>3. UNCHANGED <<Started, Succeeded>>
    BY <2>1, <2>2, SameExecutions DEF Exists
  <2> QED BY <1>d, <2>3 DEF R!vars
<1> QED BY <1>1, <1>2 DEF JobStep

\* A new execution is started after those before it in its list have succeeded.
LEMMA DeployStarts ==
  ASSUME RolloutInv, DeployService
  PROVE  \/ \E d \in Deployments, n \in NodeSets : R!Start(d, n)
         \/ UNCHANGED R!vars
<1>t. /\ TypeInv /\ SafeInv /\ SnapFound /\ me \in Deployments
      /\ aee \in [ExecutionNames -> AEE \cup {NoAEE}]
  BY DEF RolloutInv, TypeInv, TypeOK
<1>p. pc = "deploy" /\ AtService /\ CanExecute /\ aee' = Executed
  BY DEF DeployService
<1>e. /\ \A x \in ExecutionNames : Exists(aee[x]) =>
           /\ Exists(aee'[x]) /\ aee'[x].label = aee[x].label
           /\ aee'[x].job = aee[x].job
      /\ \A x \in ExecutionNames :
           ~Exists(aee[x]) => aee'[x] = NoAEE \/ aee'[x].job = "Active"
  BY <1>t, <1>p, ExecutedType
<1>n. /\ ThisNodeSet \in NodeSets /\ ServicesAt(ni) \in Seq(Services)
      /\ ThisService \in Services /\ ThisLabel \in Labels /\ ThisName \in ExecutionNames
  BY <1>t, <1>p, ThisType
<1>d. UNCHANGED Deployed
  BY SameDeployed DEF DeployService
<1>1. CASE InCache
  <2>1. Exists(aee[ThisName])
    BY <1>1, <1>t, <1>n DEF InCache, TypeInv, CacheBehind
  <2>2. \A x \in ExecutionNames : x # ThisName => aee'[x] = aee[x]
    BY <1>1, <1>p, <1>t DEF Executed
  <2>3. UNCHANGED <<Started, Succeeded>>
    BY <1>e, <2>1, <2>2, SameExecutions
  <2> QED BY <1>d, <2>3 DEF R!vars
<1>2. CASE ~InCache
  <2>1. ~Exists(aee[ThisName])
    BY <1>2, <1>p DEF CanExecute
  <2>2. /\ aee'[ThisName].label = ThisLabel /\ aee'[ThisName].job = "Active"
        /\ \A x \in ExecutionNames : x # ThisName => aee'[x] = aee[x]
    BY <1>2, <1>n, <1>p, <1>t DEF Executed
  <2>3. \A l : WithLabel(aee, l)' = IF l = ThisLabel
                                    THEN WithLabel(aee, l) \cup {ThisName}
                                    ELSE WithLabel(aee, l)
    BY <1>n, <2>1, <2>2 DEF WithLabel, Exists
  <2>4. Started' = Started \cup {ThisLabel}
    BY <1>n, <2>3 DEF Started
  <2>5. \A d, n, s : Done(d, n, s)' <=> Done(d, n, s)
    BY <2>1, <2>2 DEF Done, WithLabel, Exists
  <2>6. Succeeded' = Succeeded
    BY <2>5 DEF Succeeded
  <2>7. ni \in Places /\ si \in DOMAIN ServicesAt(ni)
    BY <1>n, <1>p, <1>t DEF TypeInv, TypeOK, InLoop, Places, AtService
  <2>8. ServicesAt(ni) \in ServiceLists[me]
    BY <1>p, <1>t, <2>7, ListAllowed DEF SnapFound
  <2>9. ASSUME NEW j \in 1..(si - 1)
        PROVE  <<ServicesAt(ni)[j], me, ThisNodeSet>> \in Succeeded
    <3>1. DoneAt(ni, j)
      BY <1>p, <1>t DEF SafeInv, PassedDone
    <3>2. ServicesAt(ni)[j] \in Services
      BY <1>n, <2>7
    <3> QED BY <1>n, <1>t, <3>1, <3>2, SucceededDone DEF DoneAt, ThisNodeSet
  <2>10. R!Through(me, ThisNodeSet, ServicesAt(ni), si)
    BY <2>9 DEF R!Through
  <2>11. ThisLabel = <<ServicesAt(ni)[si], me, ThisNodeSet>>
    BY DEF ThisLabel, ThisService
  <2>12. R!Start(me, ThisNodeSet)
    BY <1>d, <2>4, <2>6, <2>7, <2>8, <2>10, <2>11 DEF R!Start
  <2> QED BY <1>n, <1>t, <2>12
<1> QED BY <1>1, <1>2

-----------------------------------------------------------------------------
(* The theorem *)

LEMMA InitRollout == Init => R!Init
<1> SUFFICES ASSUME Init PROVE R!Init
  OBVIOUS
<1>1. \A x \in ExecutionNames : ~Exists(aee[x])
  BY DEF Init, Exists, NoAEE
<1>2. \A d \in Deployments : ~status[d].deployed
  BY DEF Init, EmptyStatus
<1>3. Started = {} /\ Succeeded = {}
  BY <1>1 DEF Started, Succeeded, Done, WithLabel
<1>4. Deployed = {}
  BY <1>2 DEF Deployed
<1> QED BY <1>3, <1>4 DEF R!Init

LEMMA StepRollout ==
  ASSUME RolloutInv, [Next]_vars
  PROVE  [R!Next]_(R!vars)
<1>t. TypeInv
  BY DEF RolloutInv
<1>1. CASE PatchInstance
  BY <1>1, <1>t, PatchCompletes DEF R!Next, TypeInv, TypeOK
<1>2. CASE DeployService
  BY <1>2, DeployStarts DEF R!Next
<1>3. CASE \E y \in ExecutionNames : JobStep(y)
  BY <1>3, <1>t, JobSucceeds DEF R!Next
<1>4. CASE UNCHANGED aee /\ ~PatchInstance
  <2>1. UNCHANGED <<Started, Succeeded>>
    BY <1>4, SameExecutions
  <2>2. UNCHANGED Deployed
    BY <1>4, StatusWrites, SameDeployed
  <2> QED BY <2>1, <2>2 DEF R!vars
<1> QED BY <1>1, <1>2, <1>3, <1>4, ExecutionWrites

(***************************************************************************)
(* The Deployment controller implements Rollout, for any Deployments,      *)
(* NodeSets, service lists, faults and interleavings, if the condition     *)
(* types of the services are distinct.                                     *)
(***************************************************************************)
THEOREM DeploymentImplementsRollout ==
  ASSUME DistinctConditionTypes
  PROVE  Spec => ImplementsRollout
<1>1. Init => RolloutInv
  BY TypeInvInit, SafeInvInit DEF RolloutInv, SnapFound, Init, EmptyStatus
<1>2. RolloutInv /\ [Next]_vars => RolloutInv'
  BY TypeInvNext, SafeInvNext, SnapFoundNext DEF RolloutInv
<1>3. RolloutInv /\ [Next]_vars => [R!Next]_(R!vars)
  BY StepRollout
<1> QED BY <1>1, <1>2, <1>3, InitRollout, PTL DEF Spec, ImplementsRollout, R!Spec

=============================================================================

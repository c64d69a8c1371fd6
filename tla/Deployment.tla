----------------------------- MODULE Deployment -----------------------------
(***************************************************************************)
(* The OpenStackDataPlaneDeployment controller                             *)
(* (controllers/openstackdataplanedeployment_controller.go) and the        *)
(* Deployer it drives (pkg/deployment/deployment.go, service.go and        *)
(* pkg/util/ansible_execution.go).                                         *)
(*                                                                         *)
(* A Deployment names NodeSets.  For each NodeSet the controller runs the  *)
(* services of the list one after the other; a service is run by creating  *)
(* an OpenStackAnsibleEE object and waiting until its job has succeeded.   *)
(*                                                                         *)
(* One worker handles the reconcile requests (controller-runtime runs one  *)
(* at a time).  Reconcile is divided at the calls that read or write       *)
(* shared objects; between two of its steps the jobs, the users, the       *)
(* NodeSet controller and the informer caches move.  What a reconcile      *)
(* keeps in memory is lost in a crash: only objects in the API server      *)
(* survive.  Reads go through the informer caches of the manager's client, *)
(* which may lag behind; writes go to the API server.                      *)
(***************************************************************************)
EXTENDS Naturals, Sequences, FiniteSets, Conditions

CONSTANTS
  Deployments, NodeSets, Services,
  SpecNodeSets,      \* spec.nodeSets of each Deployment
  ServicesOverride,  \* spec.servicesOverride, << >> when it has no entry
  OverrideSet,       \* the Deployments whose spec.servicesOverride is not nil
  GlobalServices,    \* the services with spec.deployOnAllNodeSets
  TLSServices,       \* the services with spec.tlsCerts
  CertMountServices, \* the services with spec.addCertMounts
  CertsFrom,         \* the service whose certificates a service uses: itself, or
                     \* its spec.certsFrom
  TLSNodeSets,       \* the NodeSets with spec.tlsEnabled
  NodeSetViews,      \* what reading a NodeSet may return
  ServiceStates,     \* the states of a service: "missing", "nosource" (a ConfigMap
                     \* or Secret it mounts is missing), "noca" (its CA bundle
                     \* is missing) or "ok"
  ConfigHashes,      \* the values of a NodeSet's status.configHash
  NoHash,            \* a hash that has not been recorded
  ConditionType,     \* the condition type ServiceXDeploymentReady of a service
  NamePrefix,        \* what an execution's name keeps of a service's name
  NameParts,         \* how many of the parts service, deployment, nodeset of
                     \* an execution's name survive its truncation
  BackoffLimit,      \* how often a failed job is retried
  MaxFaults          \* bound on the faults of a behaviour

\* The entry for the NodeSet as a whole in a list of NodeSet conditions.
NodeSetReady == "NodeSetDeploymentReady"

ServiceConds == {ConditionType[s] : s \in Services}

ASSUME SpecAssumption ==
  /\ SpecNodeSets \in [Deployments -> Seq(NodeSets)]
  /\ \A d \in Deployments : Len(SpecNodeSets[d]) >= 1
  /\ ServicesOverride \in [Deployments -> Seq(Services)]
  /\ \A d \in Deployments : ServicesOverride[d] # << >> => d \in OverrideSet

ASSUME ViewAssumption ==
  \A v \in NodeSetViews :
    v \in [found : BOOLEAN, setupReady : BOOLEAN,
           services : Seq(Services), configHash : ConfigHashes]

ASSUME ConstantAssumption ==
  /\ DOMAIN ConditionType = Services
  /\ NodeSetReady \notin ServiceConds
  /\ NoHash \notin ConfigHashes
  /\ ServiceStates \subseteq {"missing", "nosource", "noca", "ok"}
  /\ CertsFrom \in [Services -> Services]
  /\ DOMAIN NamePrefix = Services
  /\ NameParts \in 1..3
  /\ BackoffLimit \in Nat
  /\ MaxFaults \in Nat

VARIABLES
  \* Objects in the API server.
  status,    \* the status of each Deployment
  aee,       \* the OpenStackAnsibleEE object of each execution name
  certs,     \* the <<NodeSet, service>> pairs whose TLS secrets are written
  nodeSet,   \* each NodeSet, as the NodeSet controller and the users leave it
  service,   \* the state of each service
  \* Informer caches and the work queue.
  cached,    \* the cached status of each Deployment
  aeeCache,  \* the cached OpenStackAnsibleEE objects
  queue,     \* the Deployments with a pending reconcile request
  \* The reconcile in progress.
  pc,        \* the next step of the worker
  me,        \* the Deployment it reconciles
  before,    \* its status as it was read, the base of the final patch
  cur,       \* its status as computed so far
  snap,      \* the NodeSets as they were read
  ni, si,    \* positions in spec.nodeSets and in the NodeSet's service list
  errs,      \* haveError and backoffLimitReached: "none", "Warning", "Backoff"
  requeue,   \* shouldRequeue
  again,     \* whether the reconcile ends with an error or a requeue delay
  faults     \* the API errors, crashes and stale reads so far

worker == <<pc, me, before, cur, snap, ni, si, errs, requeue, again>>
loop == <<me, before, snap>>
env == <<certs, nodeSet, service>>
store == <<status, cached, aee, aeeCache, env>>
vars == <<store, queue, worker, faults>>

-----------------------------------------------------------------------------
(* Names, labels and objects *)

Labels == Services \X Deployments \X NodeSets

(***************************************************************************)
(* The name of an execution.  The execution of a global service is shared  *)
(* by the NodeSets.  The service's name is cut to 53 characters, which two *)
(* services may have in common; the whole is cut to 63, which loses its    *)
(* last parts when the first ones are long.                                *)
(***************************************************************************)
ExecutionName(s, d, n) ==
  LET parts == IF s \in GlobalServices THEN <<NamePrefix[s], d>>
               ELSE <<NamePrefix[s], d, n>>
  IN  IF Len(parts) <= NameParts THEN parts ELSE SubSeq(parts, 1, NameParts)

ExecutionNames == {ExecutionName(l[1], l[2], l[3]) : l \in Labels}

JobStatus == {"Absent", "Active", "Succeeded", "Failed", "Backoff"}

\* "Active" stands for a job not reported yet, pending or running, "Failed" for
\* a failed job that is retried and "Backoff" for one that exhausted its
\* retries.  The label of an object is <<service, deployment, nodeset>>.
NoAEE == [label |-> << >>, job |-> "Absent", spec |-> NoHash, retries |-> 0]

Exists(x) == x.job # "Absent"

\* GetAnsibleExecution: the objects with a label, in the store or in the cache.
WithLabel(objs, l) == {x \in ExecutionNames : Exists(objs[x]) /\ objs[x].label = l}

NSCondTypes == {NodeSetReady} \cup ServiceConds
DeploymentConds == {"Ready", "DeploymentReady", "InputReady", "SetupReady"}

EmptyStatus ==
  [deployed |-> FALSE,
   conds |-> [c \in DeploymentConds |-> "Absent"],
   nsConds |-> [n \in NodeSets |-> [t \in NSCondTypes |-> "Absent"]],
   nodeSetHashes |-> [n \in NodeSets |-> NoHash],
   hashed |-> {}]

Ran(seq) == {seq[i] : i \in DOMAIN seq}

\* InitConditions: what a reconcile starts from.
InitConditions(d, st) ==
  [st EXCEPT
     !.deployed = FALSE,
     !.conds = [c \in DeploymentConds |->
                  IF c = "SetupReady" THEN "Absent" ELSE "Unknown"],
     !.nsConds = [n \in NodeSets |-> [t \in NSCondTypes |->
                  IF n \in Ran(SpecNodeSets[d]) /\ t = NodeSetReady
                  THEN "Unknown" ELSE "Absent"]]]

Init ==
  /\ status = [d \in Deployments |-> EmptyStatus]
  /\ cached = status
  /\ aee = [x \in ExecutionNames |-> NoAEE]
  /\ aeeCache = aee
  /\ certs = {}
  /\ nodeSet \in [NodeSets -> NodeSetViews]
  /\ service \in [Services -> ServiceStates]
  /\ queue = Deployments
  /\ pc = "idle"
  /\ me \in Deployments
  /\ before = EmptyStatus
  /\ cur = EmptyStatus
  /\ snap = nodeSet
  /\ ni = 1
  /\ si = 1
  /\ errs = "none"
  /\ requeue = FALSE
  /\ again = FALSE
  /\ faults = 0

\* Every fault of the infrastructure (an API error, a crash, a reconcile that
\* starts from a stale status) uses up one unit of the bound.
Fault == faults < MaxFaults /\ faults' = faults + 1
NoFault == UNCHANGED faults

\* The worker's memory between two reconciles.
Idle ==
  /\ pc' = "idle"
  /\ before' = EmptyStatus
  /\ cur' = EmptyStatus
  /\ snap' = nodeSet
  /\ ni' = 1 /\ si' = 1
  /\ errs' = "none" /\ requeue' = FALSE /\ again' = FALSE
  /\ UNCHANGED me

\* Reconcile returns: the deferred function patches the status next.
Return(requeueOrError) ==
  /\ pc' = "patch"
  /\ again' = requeueOrError
  /\ UNCHANGED <<loop, ni, si, errs, requeue, store, queue>>

\* GetService finds the service.
ServiceFound(s) == service[s] # "missing"

\* addServiceExtraMounts and the hashes find the service's ConfigMaps and Secrets.
SourcesFound(s) == service[s] # "nosource"

CACertsFound(s) == service[s] # "noca"

-----------------------------------------------------------------------------
(* Reconcile: reading the Deployment and its NodeSets *)

\* status.deployed is set: nothing to do, not even a patch.
AlreadyDeployed(d) ==
  /\ pc = "idle" /\ d \in queue
  /\ cached[d].deployed
  /\ queue' = queue \ {d}
  /\ NoFault
  /\ UNCHANGED <<store, worker>>

Fetch(d) ==
  /\ pc = "idle" /\ d \in queue
  /\ ~cached[d].deployed
  /\ queue' = queue \ {d}
  /\ pc' = "nodesets"
  /\ me' = d
  /\ before' = cached[d]
  /\ cur' = InitConditions(d, cached[d])
  /\ IF cached[d] = status[d] THEN NoFault ELSE Fault
  /\ UNCHANGED <<snap, ni, si, errs, requeue, again, store>>

\* Defect: the SetupReady condition is not looked at.
NodeSetsFound == \A n \in Ran(SpecNodeSets[me]) : nodeSet[n].found

NodeSetsReady ==
  \A n \in Ran(SpecNodeSets[me]) : nodeSet[n].found /\ nodeSet[n].setupReady

\* A NodeSet is missing, or its SetupReady condition is not True.
NodeSetsNotReady ==
  /\ pc = "nodesets"
  /\ ~NodeSetsReady
  /\ UNCHANGED cur
  /\ NoFault
  /\ Return(TRUE)

NodeSetGetError ==
  /\ pc = "nodesets"
  /\ cur' = [cur EXCEPT !.conds["SetupReady"] = "Error"]
  /\ Fault
  /\ Return(TRUE)

\* One Get per NodeSet, back to back.  NodeSets change independently of each
\* other, so reading them at once only leaves out that a NodeSet named twice is
\* read in two versions.
EnsureNodeSets ==
  /\ pc = "nodesets"
  /\ NodeSetsReady
  /\ snap' = nodeSet
  /\ pc' = "prepare"
  /\ NoFault
  /\ UNCHANGED <<me, before, cur, ni, si, errs, requeue, again, store, queue>>

-----------------------------------------------------------------------------
(* Reconcile: TLS certificates, consistency of global services, version *)

NodeSetAt(i) == SpecNodeSets[me][i]

\* The services to deploy on the i-th NodeSet.
ServicesAt(i) ==
  IF ServicesOverride[me] # << >> THEN ServicesOverride[me]
  ELSE snap[NodeSetAt(i)].services

Positions == UNION {{<<i, j>> : j \in DOMAIN ServicesAt(i)} :
                      i \in DOMAIN SpecNodeSets[me]}

ServiceAt(p) == ServicesAt(p[1])[p[2]]

Earlier(p, q) == p[1] < q[1] \/ (p[1] = q[1] /\ p[2] < q[2])

CertPair(p) == <<NodeSetAt(p[1]), ServiceAt(p)>>

\* The TLS loop cannot get past position p.
TLSBlocked(p) ==
  /\ NodeSetAt(p[1]) \in TLSNodeSets
  /\ \/ ~ServiceFound(ServiceAt(p))
     \/ ServiceAt(p) \in TLSServices /\ CertPair(p) \notin certs

TLSStop(p) == TLSBlocked(p) /\ \A q \in Positions : Earlier(q, p) => ~TLSBlocked(q)

TLSReady == \A p \in Positions : ~TLSBlocked(p)

TLSError(p) ==
  cur' = [cur EXCEPT !.conds["InputReady"] = "Error",
                     !.nsConds[NodeSetAt(p[1])][NodeSetReady] = "Error"]

TLSServiceMissing ==
  /\ pc = "prepare"
  /\ \E p \in Positions :
       TLSStop(p) /\ ~ServiceFound(ServiceAt(p)) /\ TLSError(p)
  /\ NoFault
  /\ Return(TRUE)

EnsureTLSCertsError ==
  /\ pc = "prepare"
  /\ \E p \in Positions :
       TLSStop(p) /\ ServiceFound(ServiceAt(p)) /\ TLSError(p)
  /\ Fault
  /\ Return(TRUE)

\* A certificate secret is written, and the reconcile asks to be run again.
EnsureTLSCerts ==
  /\ pc = "prepare"
  /\ \E p \in Positions :
       /\ TLSStop(p) /\ ServiceFound(ServiceAt(p))
       /\ certs' = certs \cup {CertPair(p)}
  /\ pc' = "patch"
  /\ again' = TRUE
  /\ NoFault
  /\ UNCHANGED <<loop, cur, ni, si, errs, requeue, queue,
                 status, cached, aee, aeeCache, nodeSet, service>>

\* CheckGlobalServiceExecutionConsistency over the NodeSets' own lists.
ListPositions == UNION {{<<i, j>> : j \in DOMAIN snap[NodeSetAt(i)].services} :
                          i \in DOMAIN SpecNodeSets[me]}

ListedAt(p) == snap[NodeSetAt(p[1])].services[p[2]]

GlobalServicesConsistent ==
  /\ \A p \in ListPositions : ServiceFound(ListedAt(p))
  /\ \A p, q \in ListPositions :
       ListedAt(p) = ListedAt(q) /\ ListedAt(p) \in GlobalServices => p = q

ConsistencyError ==
  /\ pc = "prepare"
  /\ TLSReady
  /\ me \notin OverrideSet
  /\ ~GlobalServicesConsistent
  /\ cur' = [cur EXCEPT !.conds["InputReady"] = "True",
                        !.conds["DeploymentReady"] = "Error"]
  /\ NoFault
  /\ Return(TRUE)

\* Defect: the result of EnsureTLSCerts is ignored.
CanDeployWithoutCerts == me \in OverrideSet \/ GlobalServicesConsistent

CanDeploy == TLSReady /\ (me \in OverrideSet \/ GlobalServicesConsistent)

GetVersionError ==
  /\ pc = "prepare"
  /\ CanDeploy
  /\ cur' = [cur EXCEPT !.conds["InputReady"] = "True"]
  /\ Fault
  /\ Return(TRUE)

BeginDeploy ==
  /\ pc = "prepare"
  /\ CanDeploy
  /\ cur' = [cur EXCEPT !.conds["InputReady"] = "True",
                        !.conds["DeploymentReady"] = "Requested"]
  /\ pc' = "deploy"
  /\ ni' = 1
  /\ si' = 1
  /\ errs' = "none"
  /\ requeue' = FALSE
  /\ NoFault
  /\ UNCHANGED <<loop, again, store, queue>>

-----------------------------------------------------------------------------
(* Deploy and ConditionalDeploy: the services of one NodeSet *)

ThisNodeSet == NodeSetAt(ni)
ThisService == ServicesAt(ni)[si]
ThisLabel == <<ThisService, me, ThisNodeSet>>
ThisName == ExecutionName(ThisService, me, ThisNodeSet)
ThisConds == cur.nsConds[ThisNodeSet]
ThisCond == ThisConds[ConditionType[ThisService]]

\* The NodeSet's conditions with the condition of the current service set to c.
WithCond(c) == [ThisConds EXCEPT ![ConditionType[ThisService]] = c]

\* Defect: a NodeSet that returns no error counts as done.
LeaveNodeSetUnlessFailed(conds, done, failed) ==
  LET ready == IF ~failed THEN "True" ELSE Mirror({conds[t] : t \in NSCondTypes})
  IN  /\ cur' = [cur EXCEPT !.nsConds[ThisNodeSet] =
                              [conds EXCEPT ![NodeSetReady] = ready]]
      /\ requeue' = (requeue \/ ~done)
      /\ errs' = IF ~failed THEN errs
                 ELSE IF ready = "Backoff" THEN "Backoff" ELSE "Warning"
      /\ ni' = ni + 1
      /\ si' = 1
      /\ pc' = IF ni = Len(SpecNodeSets[me]) THEN "conclude" ELSE "deploy"
      /\ UNCHANGED <<loop, again, queue>>

(***************************************************************************)
(* Deploy returns with the NodeSet conditions conds: done when every       *)
(* service has succeeded, failed when it returns an error.  The NodeSet's  *)
(* own condition mirrors the others, and the loop moves on.  The last      *)
(* NodeSet with an error decides whether the backoff limit counts as       *)
(* reached.                                                                *)
(***************************************************************************)
LeaveNodeSet(conds, done, failed) ==
  LET ready == IF done THEN "True" ELSE Mirror({conds[t] : t \in NSCondTypes})
  IN  /\ cur' = [cur EXCEPT !.nsConds[ThisNodeSet] =
                              [conds EXCEPT ![NodeSetReady] = ready]]
      /\ requeue' = (requeue \/ ~done)
      /\ errs' = IF ~failed THEN errs
                 ELSE IF ready = "Backoff" THEN "Backoff" ELSE "Warning"
      /\ ni' = ni + 1
      /\ si' = 1
      /\ pc' = IF ni = Len(SpecNodeSets[me]) THEN "conclude" ELSE "deploy"
      /\ UNCHANGED <<loop, again, queue>>

\* The list is finished: every service of the NodeSet has succeeded.
NodeSetDone ==
  /\ pc = "deploy"
  /\ si > Len(ServicesAt(ni))
  /\ NoFault
  /\ LeaveNodeSet(ThisConds, TRUE, FALSE)
  /\ UNCHANGED store

AtService == si <= Len(ServicesAt(ni))

\* addCertMounts finds the certificates and CA bundles of every service listed.
CertMountsFound ==
  \A s \in Ran(ServicesAt(ni)) :
    LET src == CertsFrom[s]
    IN  /\ ServiceFound(s)
        /\ ServiceFound(src)
        /\ src \in TLSServices => <<ThisNodeSet, src>> \in certs
        /\ CACertsFound(src)

InputsFound ==
  /\ ServiceFound(ThisService)
  /\ SourcesFound(ThisService)
  /\ ThisNodeSet \in TLSNodeSets /\ ThisService \in CertMountServices
       => CertMountsFound

\* The service or an object that it mounts does not exist.
ServiceError ==
  /\ pc = "deploy" /\ AtService
  /\ ~InputsFound
  /\ NoFault
  /\ LeaveNodeSet(WithCond("Error"), FALSE, TRUE)
  /\ UNCHANGED store

\* The condition is True already: the service is taken as deployed.
ServiceReady ==
  /\ pc = "deploy" /\ AtService
  /\ InputsFound
  /\ IsTrue(ThisCond)
  /\ si' = si + 1
  /\ NoFault
  /\ UNCHANGED <<loop, pc, cur, ni, errs, requeue, again, store, queue>>

(***************************************************************************)
(* AnsibleExecution.  The object is looked up by its labels, then created  *)
(* or patched by its name.  Both reads are served by the cache: an object  *)
(* the cache does not hold yet is created, which fails when it exists.  A  *)
(* patch rewrites the specification and leaves the labels alone; an object *)
(* that another Deployment controls is refused.                            *)
(***************************************************************************)
InCache == Exists(aeeCache[ThisName])

OwnedByOther == InCache /\ aeeCache[ThisName].label[2] # me

CanExecute ==
  IF InCache THEN ~OwnedByOther ELSE ~Exists(aee[ThisName])

\* Defect: the new object does not get the NodeSet's configuration.
ExecutedWithoutSpec ==
  IF InCache THEN aee
  ELSE [aee EXCEPT ![ThisName] =
          [label |-> ThisLabel, job |-> "Active", spec |-> NoHash, retries |-> 0]]

Executed ==
  IF InCache
  THEN [aee EXCEPT ![ThisName].spec = snap[ThisNodeSet].configHash]
  ELSE [aee EXCEPT ![ThisName] =
          [label |-> ThisLabel, job |-> "Active",
           spec |-> snap[ThisNodeSet].configHash, retries |-> 0]]

DeployService ==
  /\ pc = "deploy" /\ AtService
  /\ InputsFound
  /\ IsUnknown(ThisCond)
  /\ CanExecute
  /\ aee' = Executed
  /\ pc' = "check"
  /\ NoFault
  /\ UNCHANGED <<loop, cur, ni, si, errs, requeue, again, queue,
                 status, cached, aeeCache, env>>

\* DeployService fails; no condition is set for the service.
DeployServiceError ==
  /\ pc = "deploy" /\ AtService
  /\ InputsFound
  /\ IsUnknown(ThisCond)
  /\ IF CanExecute THEN Fault ELSE NoFault
  /\ LeaveNodeSet(ThisConds, FALSE, TRUE)
  /\ UNCHANGED store

\* The condition is False already (the NodeSet is listed twice): only look.
ServicePending ==
  /\ pc = "deploy" /\ AtService
  /\ InputsFound
  /\ IsFalse(ThisCond)
  /\ pc' = "check"
  /\ NoFault
  /\ UNCHANGED <<loop, cur, ni, si, errs, requeue, again, store, queue>>

\* Defect: the lookup leaves the service out of the labels.
FoundAnyService ==
  UNION {WithLabel(aeeCache, <<s, me, ThisNodeSet>>) : s \in Services}

\* The executions that ConditionalDeploy looks up, in the cache.
Found == WithLabel(aeeCache, ThisLabel)

FoundJob(jobs) == \E x \in Found : aeeCache[x].job \in jobs

\* The new object has not reached the cache: the condition is not stored.
ExecutionNotFound ==
  /\ pc = "check"
  /\ Found = {}
  /\ NoFault
  /\ LeaveNodeSet(ThisConds, FALSE, FALSE)
  /\ UNCHANGED store

\* Any other error of the lookup sets the condition and then uses an object that
\* is nil.  The panic runs the deferred patch, which finds the condition only if
\* the list had one of its type; the restarted operator reconciles again (what
\* else a restart does is in Crash).
ExecutionLookupError ==
  /\ pc = "check"
  /\ cur' = IF IsFalse(ThisCond)
            THEN [cur EXCEPT !.nsConds[ThisNodeSet] = WithCond("Error")]
            ELSE cur
  /\ Fault
  /\ Return(TRUE)

ExecutionSucceeded ==
  /\ pc = "check"
  /\ FoundJob({"Succeeded"})
  /\ cur' = [cur EXCEPT !.nsConds[ThisNodeSet] = WithCond("True")]
  /\ si' = si + 1
  /\ pc' = "deploy"
  /\ NoFault
  /\ UNCHANGED <<loop, ni, errs, requeue, again, store, queue>>

\* Defect: the loop goes on to the next service while a job is running.
ExecutionNotAwaited ==
  /\ pc = "check"
  /\ FoundJob({"Active"})
  /\ cur' = [cur EXCEPT !.nsConds[ThisNodeSet] = WithCond("Requested")]
  /\ si' = si + 1
  /\ pc' = "deploy"
  /\ NoFault
  /\ UNCHANGED <<loop, ni, errs, requeue, again, store, queue>>

ExecutionInProgress ==
  /\ pc = "check"
  /\ FoundJob({"Active"})
  /\ NoFault
  /\ LeaveNodeSet(WithCond("Requested"), FALSE, FALSE)
  /\ UNCHANGED store

\* The condition takes the reason and severity of the object's condition.
ExecutionFailed ==
  /\ pc = "check"
  /\ \E reported \in {"Warning", "Backoff"} :
       /\ FoundJob({IF reported = "Warning" THEN "Failed" ELSE "Backoff"})
       /\ LeaveNodeSet(WithCond(reported), FALSE, TRUE)
  /\ NoFault
  /\ UNCHANGED store

-----------------------------------------------------------------------------
(* Reconcile: the outcome, and the patch of the status *)

DeploymentFailed ==
  /\ pc = "conclude"
  /\ errs # "none"
  /\ cur' = [cur EXCEPT !.conds["DeploymentReady"] = errs]
  /\ NoFault
  /\ Return(TRUE)

\* Not all NodeSets are done: wait for the next event of an execution.
DeploymentWaits ==
  /\ pc = "conclude"
  /\ errs = "none" /\ requeue
  /\ UNCHANGED cur
  /\ NoFault
  /\ Return(FALSE)

DeployedServices == UNION {Ran(ServicesAt(i)) : i \in DOMAIN SpecNodeSets[me]}

(***************************************************************************)
(* setHashes.  The hashes of the services' inputs come first, in the order *)
(* of a Go map; the hashes of the NodeSets are recorded only when none of  *)
(* the services failed, because an input is missing or a call fails.  An   *)
(* error is logged and nothing else: the Deployment is deployed.           *)
(***************************************************************************)
HashInputsFound == \A s \in DeployedServices : ServiceFound(s) /\ SourcesFound(s)

SetHashes(st, hashed, failed) ==
  IF failed THEN [st EXCEPT !.hashed = @ \cup hashed]
  ELSE [st EXCEPT
          !.hashed = @ \cup DeployedServices,
          !.nodeSetHashes = [n \in NodeSets |->
             IF n \in Ran(SpecNodeSets[me]) THEN snap[n].configHash ELSE @[n]]]

\* Defect: shouldRequeue is not consulted.
DeploymentSucceededTooSoon ==
  /\ pc = "conclude"
  /\ errs = "none"
  /\ cur' = SetHashes([cur EXCEPT !.conds["DeploymentReady"] = "True",
                                  !.deployed = TRUE], {}, FALSE)
  /\ NoFault
  /\ Return(FALSE)

DeploymentSucceeded ==
  /\ pc = "conclude"
  /\ errs = "none" /\ ~requeue
  /\ \E hashed \in SUBSET {s \in DeployedServices : ServiceFound(s) /\ SourcesFound(s)},
        failed \in BOOLEAN :
       /\ ~HashInputsFound => failed
       /\ IF failed /\ HashInputsFound THEN Fault ELSE NoFault
       /\ cur' = SetHashes([cur EXCEPT !.conds["DeploymentReady"] = "True",
                                       !.deployed = TRUE], hashed, failed)
  /\ Return(FALSE)

\* The Ready condition: True when the others are, else the worst of them.
SetReady(conds) ==
  [conds EXCEPT !["Ready"] =
     Mirror({conds[c] : c \in DeploymentConds \ {"Ready"}})]

(***************************************************************************)
(* helper.PatchInstance writes the difference between the status as it was *)
(* read and as it is now, not the whole status: a field the reconcile left *)
(* as it found it keeps what the API server has.  The transition times of  *)
(* NodeSet conditions are new in each reconcile, so these lists may be     *)
(* written (touched) even when nothing else about them changed.            *)
(***************************************************************************)

\* Defect: the whole status is written, not the difference.
UpdatedStatus(old, new, stored, touched) == new

PatchedStatus(old, new, stored, touched) ==
  [deployed |-> Merge(old.deployed, new.deployed, stored.deployed),
   conds |-> Merge(old.conds, new.conds, stored.conds),
   nsConds |-> [n \in NodeSets |->
      IF touched THEN new.nsConds[n]
      ELSE Merge(old.nsConds[n], new.nsConds[n], stored.nsConds[n])],
   nodeSetHashes |-> [n \in NodeSets |->
      Merge(old.nodeSetHashes[n], new.nodeSetHashes[n], stored.nodeSetHashes[n])],
   hashed |-> stored.hashed \cup (new.hashed \ old.hashed)]

PatchInstance ==
  /\ pc = "patch"
  /\ \E touched \in BOOLEAN :
       status' = [status EXCEPT ![me] =
         PatchedStatus(before, [cur EXCEPT !.conds = SetReady(@)], @, touched)]
  /\ queue' = IF again THEN queue \cup {me} ELSE queue
  /\ Idle
  /\ NoFault
  /\ UNCHANGED <<cached, aee, aeeCache, env>>

\* Defect: the error of the patch is not returned.
PatchInstanceErrorLost ==
  /\ pc = "patch"
  /\ Idle
  /\ Fault
  /\ UNCHANGED <<store, queue>>

\* The patch fails: nothing is written, and the error is returned.
PatchInstanceError ==
  /\ pc = "patch"
  /\ queue' = queue \cup {me}
  /\ Idle
  /\ Fault
  /\ UNCHANGED store

-----------------------------------------------------------------------------
(* Crash and restart, caches and watches *)

\* The operator restarts: memory is lost, the caches are filled anew, and
\* every Deployment is reconciled.
Crash ==
  /\ Fault
  /\ Idle
  /\ queue' = Deployments
  /\ cached' = status
  /\ aeeCache' = aee
  /\ UNCHANGED <<status, aee, env>>

\* SetupWithManager: a Deployment and the executions it owns are watched.
SyncStatus(d) ==
  /\ cached[d] # status[d]
  /\ cached' = [cached EXCEPT ![d] = status[d]]
  /\ queue' = queue \cup {d}
  /\ UNCHANGED <<status, aee, aeeCache, env, worker, faults>>

\* Defect: the executions are not watched.
SyncAEEUnowned(x) ==
  /\ aeeCache[x] # aee[x]
  /\ aeeCache' = [aeeCache EXCEPT ![x] = aee[x]]
  /\ UNCHANGED <<status, cached, aee, env, queue, worker, faults>>

SyncAEE(x) ==
  /\ aeeCache[x] # aee[x]
  /\ aeeCache' = [aeeCache EXCEPT ![x] = aee[x]]
  /\ queue' = queue \cup {aee[x].label[2]}
  /\ UNCHANGED <<status, cached, aee, env, worker, faults>>

-----------------------------------------------------------------------------
(* The Ansible execution operator, the NodeSet controller and the users *)

Job(x, from, to, retries) ==
  /\ aee[x].job = from
  /\ aee' = [aee EXCEPT ![x].job = to, ![x].retries = retries]
  /\ UNCHANGED <<status, cached, aeeCache, env, queue, worker, faults>>

JobSucceed(x) == Job(x, "Active", "Succeeded", aee[x].retries)

JobFail(x) ==
  Job(x, "Active",
      IF aee[x].retries < BackoffLimit THEN "Failed" ELSE "Backoff",
      aee[x].retries)

JobRetry(x) == Job(x, "Failed", "Active", aee[x].retries + 1)

\* A NodeSet changes, in any way and at any time.
NodeSetChange(n) ==
  /\ \E v \in NodeSetViews \ {nodeSet[n]} : nodeSet' = [nodeSet EXCEPT ![n] = v]
  /\ UNCHANGED <<status, cached, aee, aeeCache, certs, service,
                 queue, worker, faults>>

\* A service or the objects it mounts are created, changed or deleted.
ServiceChange(s) ==
  /\ \E v \in ServiceStates \ {service[s]} :
       service' = [service EXCEPT ![s] = v]
  /\ UNCHANGED <<status, cached, aee, aeeCache, certs, nodeSet,
                 queue, worker, faults>>

-----------------------------------------------------------------------------
(* The specification *)

Reconcile ==
  \/ NodeSetsNotReady \/ NodeSetGetError \/ EnsureNodeSets
  \/ TLSServiceMissing \/ EnsureTLSCertsError \/ EnsureTLSCerts
  \/ ConsistencyError \/ GetVersionError \/ BeginDeploy
  \/ NodeSetDone \/ ServiceError \/ ServiceReady \/ ServicePending
  \/ DeployService \/ DeployServiceError
  \/ ExecutionNotFound \/ ExecutionLookupError \/ ExecutionSucceeded
  \/ ExecutionInProgress \/ ExecutionFailed
  \/ DeploymentFailed \/ DeploymentWaits \/ DeploymentSucceeded
  \/ PatchInstance \/ PatchInstanceError

Request(d) == AlreadyDeployed(d) \/ Fetch(d)

JobStep(x) == JobSucceed(x) \/ JobFail(x) \/ JobRetry(x)

Next ==
  \/ \E d \in Deployments : Request(d) \/ SyncStatus(d)
  \/ Reconcile
  \/ Crash
  \/ \E x \in ExecutionNames : JobStep(x) \/ SyncAEE(x)
  \/ \E n \in NodeSets : NodeSetChange(n)
  \/ \E s \in Services : ServiceChange(s)

Spec == Init /\ [][Next]_vars

(***************************************************************************)
(* The worker takes requests in the order of the queue and finishes each   *)
(* one, watches deliver, and a job that can move does.                     *)
(***************************************************************************)
Fairness ==
  /\ WF_vars(Reconcile)
  /\ \A d \in Deployments : SF_vars(Request(d)) /\ WF_vars(SyncStatus(d))
  /\ \A x \in ExecutionNames : WF_vars(SyncAEE(x)) /\ WF_vars(JobStep(x))

FairSpec == Spec /\ Fairness

-----------------------------------------------------------------------------
(* Types *)

Status ==
  [deployed : BOOLEAN,
   conds : [DeploymentConds -> Cond],
   nsConds : [NodeSets -> [NSCondTypes -> Cond]],
   nodeSetHashes : [NodeSets -> ConfigHashes \cup {NoHash}],
   hashed : SUBSET Services]

AEE ==
  [label : Labels, job : JobStatus \ {"Absent"}, spec : ConfigHashes,
   retries : 0..BackoffLimit]

\* Every variable keeps its type; an object of the store or the cache is a
\* complete object or absent.
TypeOK ==
  /\ status \in [Deployments -> Status]
  /\ cached \in [Deployments -> Status]
  /\ aee \in [ExecutionNames -> AEE \cup {NoAEE}]
  /\ aeeCache \in [ExecutionNames -> AEE \cup {NoAEE}]
  /\ certs \subseteq NodeSets \X Services
  /\ nodeSet \in [NodeSets -> NodeSetViews]
  /\ service \in [Services -> ServiceStates]
  /\ queue \subseteq Deployments
  /\ pc \in {"idle", "nodesets", "prepare", "deploy", "check", "conclude", "patch"}
  /\ me \in Deployments
  /\ before \in Status
  /\ cur \in Status
  /\ snap \in [NodeSets -> NodeSetViews]
  /\ ni \in Nat /\ si \in Nat
  /\ errs \in {"none", "Warning", "Backoff"}
  /\ requeue \in BOOLEAN
  /\ again \in BOOLEAN
  /\ faults \in 0..MaxFaults

-----------------------------------------------------------------------------
(* Safety *)

\* The execution of service s for Deployment d and NodeSet n has succeeded.
Done(d, n, s) ==
  \E x \in WithLabel(aee, <<s, d, n>>) : aee[x].job = "Succeeded"

\* Two services never share a condition type.
DistinctConditionTypes ==
  \A s, t \in Services : ConditionType[s] = ConditionType[t] => s = t

(***************************************************************************)
(* The condition of a service is True in a Deployment's status only when   *)
(* the Ansible execution of that service for that NodeSet has succeeded,   *)
(* whatever crashes, failed patches and stale caches came in between       *)
(* (ConditionalDeploy).                                                    *)
(***************************************************************************)
ServiceConditionSound ==
  \A d \in Deployments, n \in NodeSets, s \in Services :
    status[d].nsConds[n][ConditionType[s]] = "True" => Done(d, n, s)

(***************************************************************************)
(* A service that needs TLS certificates is not executed on a TLS NodeSet  *)
(* before its certificate secret is written (the TLS loop of Reconcile).   *)
(***************************************************************************)
CertsBeforeExecution ==
  \A x \in ExecutionNames :
    LET l == aee[x].label
    IN  Exists(aee[x]) /\ l[3] \in TLSNodeSets /\ l[1] \in TLSServices
          => <<l[3], l[1]>> \in certs

(***************************************************************************)
(* When status.deployed becomes true, every service of every NodeSet of    *)
(* the Deployment has been executed successfully (Reconcile, Deploy).      *)
(***************************************************************************)
AllDone ==
  \A i \in DOMAIN SpecNodeSets[me] :
    \A s \in Ran(ServicesAt(i)) : Done(me, NodeSetAt(i), s)

BecomesDeployed ==
  \A d \in Deployments :
    ~status[d].deployed /\ status'[d].deployed => d = me /\ AllDone

DeployedMeansDone == [][BecomesDeployed]_vars

(***************************************************************************)
(* When the condition of a NodeSet becomes True in a Deployment's status,  *)
(* every service of that NodeSet has been executed successfully, even if   *)
(* other NodeSets of the Deployment failed or are still running.           *)
(***************************************************************************)
BecomesReady ==
  \A d \in Deployments, n \in NodeSets :
    /\ ~IsTrue(status[d].nsConds[n][NodeSetReady])
    /\ IsTrue(status'[d].nsConds[n][NodeSetReady])
    => /\ d = me
       /\ \A i \in DOMAIN SpecNodeSets[me] :
            NodeSetAt(i) = n => \A s \in Ran(ServicesAt(i)) : Done(me, n, s)

NodeSetReadyMeansDone == [][BecomesReady]_vars

(***************************************************************************)
(* An execution is created only when every service that precedes it in the *)
(* list of its NodeSet has succeeded on that NodeSet (Deploy).             *)
(***************************************************************************)
CreatesInOrder ==
  \A x \in ExecutionNames :
    ~Exists(aee[x]) /\ Exists(aee'[x])
      => \A j \in 1..(si - 1) : Done(me, ThisNodeSet, ServicesAt(ni)[j])

ServiceOrder == [][CreatesInOrder]_vars

(***************************************************************************)
(* status.deployed is never taken back, although every reconcile starts by *)
(* clearing it in memory and may start from a stale copy (InitConditions,  *)
(* PatchInstance).                                                         *)
(***************************************************************************)
StaysDeployed ==
  \A d \in Deployments : status[d].deployed => status'[d].deployed

DeployedForever == [][StaysDeployed]_vars

-----------------------------------------------------------------------------
(* The promise of a Deployment *)

\* What Rollout is about: the executions there are, those that have succeeded
\* and the Deployments that are deployed.
Started == {l \in Labels : WithLabel(aee, l) # {}}
Succeeded == {l \in Labels : Done(l[2], l[3], l[1])}
Deployed == {d \in Deployments : status[d].deployed}

\* The lists of services a Deployment may be asked for.
ServiceLists ==
  [d \in Deployments |->
     IF ServicesOverride[d] # << >> THEN {ServicesOverride[d]}
     ELSE {v.services : v \in {w \in NodeSetViews : w.found}}]

R == INSTANCE Rollout WITH
       NamedNodeSets <- [d \in Deployments |-> Ran(SpecNodeSets[d])],
       Lists <- ServiceLists,
       started <- Started, succeeded <- Succeeded, deployed <- Deployed

(***************************************************************************)
(* The controller, with its caches, conditions, crashes and stale patches, *)
(* implements Rollout (Reconcile, Deploy, ConditionalDeploy).              *)
(***************************************************************************)
ImplementsRollout == R!Spec

-----------------------------------------------------------------------------
(* Liveness *)

ListOf(d, n) ==
  Ran(IF ServicesOverride[d] # << >> THEN ServicesOverride[d]
      ELSE nodeSet[n].services)

\* The inputs of the Deployment are in place.
Settled(d) ==
  /\ \A n \in Ran(SpecNodeSets[d]) : nodeSet[n].found /\ nodeSet[n].setupReady
  /\ \A s \in Services : service[s] = "ok"

GaveUp(d, n) ==
  \E x \in ExecutionNames :
    /\ aee[x].job = "Backoff"
    /\ \E s \in ListOf(d, n) : aee[x].label = <<s, d, n>>

(***************************************************************************)
(* Once its inputs are and stay in place, a Deployment is decided for      *)
(* good.  Either it is deployed, or an execution has failed more often     *)
(* than the backoff limit allows; that is then reported as the reason why  *)
(* the Deployment is not ready, and the NodeSets where no execution gave   *)
(* up have got through all their services (the loop over the NodeSets does *)
(* not stop at one that fails).                                            *)
(***************************************************************************)
Concluded(d) ==
  \/ status[d].deployed
  \/ /\ \E n \in Ran(SpecNodeSets[d]) : GaveUp(d, n)
     /\ status[d].conds["DeploymentReady"] = "Backoff"
     /\ \A n \in Ran(SpecNodeSets[d]) :
          GaveUp(d, n) \/ \A s \in ListOf(d, n) : Done(d, n, s)

DeploymentConcludes ==
  \A d \in Deployments : <>[]Settled(d) => <>[]Concluded(d)

-----------------------------------------------------------------------------
(* What the documentation says and the code does not do *)

(***************************************************************************)
(* "Check that global services are defined only once in all nodesets,      *)
(* report and fail if there are duplicates" (CheckGlobalServiceExecution-  *)
(* Consistency): a Deployment whose inputs are in place is deployed, has   *)
(* an execution that gave up, or reports an error.                         *)
(***************************************************************************)
DeploysOrReports ==
  \A d \in Deployments :
    <>[]Settled(d) =>
      <>(\/ status[d].deployed
         \/ \E n \in Ran(SpecNodeSets[d]) : GaveUp(d, n)
         \/ IsError(status[d].conds["DeploymentReady"]))

=============================================================================

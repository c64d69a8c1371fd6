------------------------------ MODULE NodeSet ------------------------------
(***************************************************************************)
(* The OpenStackDataPlaneNodeSet controller                                *)
(* (controllers/openstackdataplanenodeset_controller.go): it prepares the  *)
(* nodes (IP sets, DNS data, the SSH key, bare metal hosts), writes the    *)
(* Ansible inventory and derives the NodeSet's status from the             *)
(* Deployments that name it.                                               *)
(*                                                                         *)
(* One NodeSet is modelled, with the Deployments of its namespace as the   *)
(* Deployment controller leaves them, the objects of other operators it    *)
(* depends on, and the users, whose edits the webhook admits or refuses.   *)
(* Reads are served by the informer caches.                                *)
(***************************************************************************)
EXTENDS Naturals, Sequences, FiniteSets, Conditions

CONSTANTS
  Deployments,      \* the Deployments of the namespace
  Listed,           \* those that name the NodeSet
  Shared,           \* those that name other NodeSets too
  Specs,            \* the specs of the NodeSet; a spec stands for its hash, too
  NoHash,           \* an empty hash
  PreProvisioned,   \* spec.preProvisioned
  BaremetalHosts,   \* whether spec.baremetalSetTemplate.baremetalHosts has hosts
  InputViews,       \* what the inputs of the setup steps may look like
  Failures,         \* the conditions a Deployment that fails reports: "Warning",
                    \* "Error" or "Backoff"
  MaxEdits,         \* bound on the edits of the spec
  MaxMoves,         \* bound on the changes of the Deployments and the inputs
  MaxFaults         \* bound on the faults of a behaviour

\* The setup steps of Reconcile, in order.
Steps ==
  <<"services", "ipsets", "dns", "ssh", "sa", "version">>
    \o (IF PreProvisioned THEN << >> ELSE <<"baremetal">>)

StepNames == {"services", "ipsets", "dns", "ssh", "sa", "version", "baremetal"}

\* An input is not there yet or broken ("failing": the step returns an error),
\* not ready ("waiting"), without conditions yet ("new") or ready.
InputStates == {"failing", "waiting", "new", "ready"}

ASSUME NodeSetAssumption ==
  /\ IsFiniteSet(Deployments)
  /\ Listed \subseteq Deployments
  /\ Shared \subseteq Deployments
  /\ NoHash \notin Specs
  /\ PreProvisioned \in BOOLEAN
  /\ BaremetalHosts \in BOOLEAN
  /\ InputViews \subseteq [StepNames -> InputStates]
  /\ Failures \subseteq {"Warning", "Error", "Backoff"}
  /\ MaxEdits \in Nat
  /\ MaxMoves \in Nat
  /\ MaxFaults \in Nat

VARIABLES
  \* Objects in the API server.
  nodeSet,     \* the NodeSet: spec, generation and status
  inventory,   \* the generation its inventory was generated from, 0 for none
  deployment,  \* the Deployments, as the Deployment controller leaves them
  input,       \* the state of the inputs of the setup steps
  moves,       \* the changes of the Deployments and the inputs so far
  \* Informer caches and the work queue.
  cached,      \* the cached NodeSet
  seen,        \* the cached Deployments
  queued,      \* whether a reconcile request is pending
  \* The reconcile in progress.
  pc,          \* the next step of the worker
  read,        \* the NodeSet as it was read, the base of the final patch
  cur,         \* its status as computed so far
  again,       \* whether the reconcile ends with an error or a requeue delay
  faults       \* the API errors, crashes and stale reads so far

worker == <<pc, read, cur, again>>
caches == <<cached, seen>>
env == <<deployment, input, moves>>
vars == <<nodeSet, inventory, env, caches, queued, worker, faults>>

-----------------------------------------------------------------------------
(* Objects *)

\* The condition that a setup step reports its progress in.
StepCond ==
  [services |-> "SetupReady", ipsets |-> "NodeSetIPReservationReady",
   dns |-> "NodeSetDNSDataReady", ssh |-> "InputReady",
   sa |-> "ServiceAccountReady", version |-> "none",
   baremetal |-> "NodeSetBaremetalProvisionReady"]

NodeSetConds ==
  {"Ready", "DeploymentReady", "InputReady", "SetupReady",
   "NodeSetIPReservationReady", "NodeSetDNSDataReady", "ServiceAccountReady",
   "NodeSetBaremetalProvisionReady"}

\* status.deploymentStatuses holds, for each Deployment, the condition of this
\* NodeSet in that Deployment's status; "none" when it has no entry.  In memory
\* an entry may be a list without that condition ("Absent").
NoStatuses == [d \in Deployments |-> "none"]

EmptyStatus ==
  [conds |-> [c \in NodeSetConds |-> "Absent"],
   configHash |-> NoHash,
   deployedConfigHash |-> NoHash,
   deploymentStatuses |-> NoStatuses,
   observedGeneration |-> 0]

\* A Deployment: its condition and recorded hash for this NodeSet, and when its
\* DeploymentReady condition last changed relative to the other Deployments'
\* (0 when it has none yet).
NoDeployment == [exists |-> FALSE, cond |-> "Absent", hash |-> NoHash, at |-> 0]

\* The worker's copy of the NodeSet between two reconciles.
NoNodeSet == [spec |-> NoHash, generation |-> 0, status |-> EmptyStatus]

Init ==
  /\ \E s \in Specs :
       nodeSet = [spec |-> s, generation |-> 1, status |-> EmptyStatus]
  /\ cached = nodeSet
  /\ inventory = 0
  /\ deployment = [d \in Deployments |-> NoDeployment]
  /\ seen = deployment
  /\ input \in InputViews
  /\ moves = 0
  /\ queued = TRUE
  /\ pc = "idle"
  /\ read = NoNodeSet
  /\ cur = EmptyStatus
  /\ again = FALSE
  /\ faults = 0

\* An API error, a crash or a reconcile that starts from a stale status.
Fault == faults < MaxFaults /\ faults' = faults + 1
NoFault == UNCHANGED faults

\* A change of a Deployment or of an input.
Move == moves < MaxMoves /\ moves' = moves + 1

Idle ==
  /\ pc' = "idle"
  /\ read' = NoNodeSet
  /\ cur' = EmptyStatus
  /\ again' = FALSE

\* Reconcile returns: the deferred function patches the status next.
Return(requeueOrError) ==
  /\ pc' = "patch"
  /\ again' = requeueOrError
  /\ UNCHANGED <<nodeSet, read, env, caches, queued>>

-----------------------------------------------------------------------------
(* Reconcile: reading the NodeSet, and the setup steps *)

\* The conditions a reconcile starts from.
InitConditions ==
  [c \in NodeSetConds |->
     IF c = StepCond.baremetal /\ ~BaremetalHosts THEN "Absent" ELSE "Unknown"]

\* Defect: the hash of the spec is recorded once.
ResetOnce(obj) ==
  [obj.status EXCEPT
     !.conds = [InitConditions EXCEPT !["SetupReady"] = "Requested"],
     !.deploymentStatuses = NoStatuses,
     !.observedGeneration = obj.generation,
     !.configHash = IF @ = NoHash THEN obj.spec ELSE @]

\* Defect: the first spec has nothing to differ from.
ResetUndeployed(obj) ==
  [obj.status EXCEPT
     !.conds = [InitConditions EXCEPT !["SetupReady"] = "Requested"],
     !.deploymentStatuses = NoStatuses,
     !.observedGeneration = obj.generation,
     !.configHash = IF obj.status.deployedConfigHash \notin {NoHash, obj.spec}
                    THEN obj.spec ELSE @]

(***************************************************************************)
(* The status a reconcile starts from.  The hash of the spec is recorded   *)
(* only when it differs from the deployed one.                             *)
(***************************************************************************)
Reset(obj) ==
  [obj.status EXCEPT
     !.conds = [InitConditions EXCEPT !["SetupReady"] = "Requested"],
     !.deploymentStatuses = NoStatuses,
     !.observedGeneration = obj.generation,
     !.configHash = IF obj.spec # obj.status.deployedConfigHash THEN obj.spec ELSE @]

Fetch ==
  /\ pc = "idle" /\ queued
  /\ queued' = FALSE
  /\ pc' = "setup"
  /\ read' = cached
  /\ cur' = Reset(cached)
  /\ IF cached.status = nodeSet.status THEN NoFault ELSE Fault
  /\ UNCHANGED <<nodeSet, inventory, env, caches, again>>

(***************************************************************************)
(* The setup steps: what each reports when its input is in state v.        *)
(* True is the only report that lets Reconcile go on.                      *)
(***************************************************************************)
EnsureServices(v) == IF v = "ready" THEN "True" ELSE "Error"

\* Stops only at an IPSet that is not ready, and passes one that has no Ready
\* condition yet.
EnsureIPSets(v) ==
  CASE v = "failing" -> "Error" [] v = "waiting" -> "Requested" [] OTHER -> "True"

EnsureDNSData(v) ==
  CASE v = "failing" -> "Error" [] v = "ready" -> "True" [] OTHER -> "Requested"

VerifySecret(v) ==
  CASE v = "failing" -> "Error" [] v = "ready" -> "True" [] OTHER -> "Requested"

EnsureServiceAccount(v) ==
  CASE v = "failing" -> "Warning" [] v = "ready" -> "True" [] OTHER -> "Requested"

\* Its error is in no condition.
GetVersion(v) == IF v = "ready" THEN "True" ELSE "none"

\* A template without hosts is an error that no condition mentions.
DeployBaremetalSet(v) ==
  IF ~BaremetalHosts THEN "Unknown"
  ELSE CASE v = "failing" -> "Error" [] v = "ready" -> "True" [] OTHER -> "Requested"

Reports(s) ==
  CASE s = "services" -> EnsureServices(input[s])
    [] s = "ipsets" -> EnsureIPSets(input[s])
    [] s = "dns" -> EnsureDNSData(input[s])
    [] s = "ssh" -> VerifySecret(input[s])
    [] s = "sa" -> EnsureServiceAccount(input[s])
    [] s = "version" -> GetVersion(input[s])
    [] s = "baremetal" -> DeployBaremetalSet(input[s])

Passes(s) == Reports(s) = "True"

\* The conditions after the first k steps have succeeded.
Passed(k) ==
  LET marked == {StepCond[Steps[j]] : j \in {i \in 1..k : Steps[i] # "services"}}
  IN  [c \in NodeSetConds |-> IF c \in marked THEN "True" ELSE cur.conds[c]]

\* A step that stops returns an error or a requeue delay; otherwise only a
\* watch brings the controller back.
StopRequeues(s) ==
  \/ input[s] = "failing"
  \/ s \in {"ssh", "sa"}
  \/ s = "baremetal" /\ ~BaremetalHosts

SetupStops ==
  /\ pc = "setup"
  /\ \E k \in DOMAIN Steps :
       /\ ~Passes(Steps[k])
       /\ \A j \in 1..(k - 1) : Passes(Steps[j])
       /\ cur' = [cur EXCEPT !.conds =
                    [c \in NodeSetConds |->
                       IF c = StepCond[Steps[k]] THEN Reports(Steps[k])
                       ELSE Passed(k - 1)[c]]]
       /\ Return(StopRequeues(Steps[k]))
  /\ NoFault
  /\ UNCHANGED inventory

SetupDone ==
  /\ pc = "setup"
  /\ \A k \in DOMAIN Steps : Passes(Steps[k])
  /\ cur' = [cur EXCEPT !.conds = Passed(Len(Steps))]
  /\ pc' = "check"
  /\ NoFault
  /\ UNCHANGED <<nodeSet, inventory, env, caches, queued, read, again>>

-----------------------------------------------------------------------------
(* Reconcile: the Deployments of the NodeSet *)

Present == {d \in Deployments : seen[d].exists}

Before(d, e) == seen[d].at # 0 /\ seen[e].at # 0 /\ seen[d].at < seen[e].at

(***************************************************************************)
(* The orders in which checkDeployment may visit the Deployments.  The     *)
(* list comes from the cache in any order and is sorted by insertion with  *)
(* a comparison that moves a Deployment forward only past one that is      *)
(* strictly newer.  A Deployment without a DeploymentReady condition       *)
(* stops that, so the orders are those without a descent between           *)
(* neighbours.                                                             *)
(***************************************************************************)
Orders ==
  {q \in [1..Cardinality(Present) -> Present] :
     /\ \A i, j \in DOMAIN q : q[i] = q[j] => i = j
     /\ \A i \in DOMAIN q : i > 1 => ~Before(q[i], q[i - 1])}

CondAt(q, i) == seen[q[i]].cond

Errors(q) == {i \in DOMAIN q : q[i] \in Listed /\ IsError(CondAt(q, i))}

\* The loop skips Deployments of other NodeSets and breaks at an error.
Visited(q) == {i \in DOMAIN q : q[i] \in Listed /\ \A e \in Errors(q) : i <= e}

LastOf(I) == CHOOSE i \in I : \A j \in I : j <= i

LastCond(q) == IF Visited(q) = {} THEN "Absent" ELSE CondAt(q, LastOf(Visited(q)))

Failed(q) == Errors(q) # {}
Running(q) == IsFalse(LastCond(q)) /\ ~IsError(LastCond(q))

\* The Deployments whose hashes are copied, one after the other.
Copied(q) == {i \in Visited(q) : IsTrue(CondAt(q, i))}

\* Defect: isDeploymentReady is not reset for every Deployment.
VerdictNotReset(q) ==
  IF Failed(q) THEN "Error" ELSE IF Copied(q) # {} THEN "True" ELSE "Requested"

\* The DeploymentReady condition of the NodeSet.
Verdict(q) ==
  IF Failed(q) THEN "Error"
  ELSE IF IsTrue(LastCond(q)) THEN "True"
  ELSE "Requested"

(***************************************************************************)
(* checkDeployment and what follows it: the conditions of the Deployments  *)
(* that were visited and the hash of the last one that succeeded are       *)
(* copied.                                                                 *)
(***************************************************************************)
Checked(q) ==
  [cur EXCEPT
     !.deploymentStatuses = [d \in Deployments |->
        IF \E i \in Visited(q) : q[i] = d THEN seen[d].cond ELSE "none"],
     !.deployedConfigHash = IF Copied(q) = {} THEN @ ELSE seen[q[LastOf(Copied(q))]].hash]

\* The List call fails.
CheckDeploymentError ==
  /\ pc = "check"
  /\ cur' = [cur EXCEPT !.conds["DeploymentReady"] = "Error"]
  /\ Fault
  /\ Return(TRUE)
  /\ UNCHANGED inventory

GenerateNodeSetInventory == inventory' = read.generation

\* The inventory is left alone while a Deployment runs or has failed.
GeneratesInventory(q) == ~Running(q) /\ ~Failed(q)

InventoryError ==
  /\ pc = "check"
  /\ \E q \in Orders :
       /\ GeneratesInventory(q)
       /\ cur' = [Checked(q) EXCEPT !.conds["SetupReady"] = "Error"]
  /\ Fault
  /\ Return(TRUE)
  /\ UNCHANGED inventory

\* Defect: SetupReady does not wait for the inventory.
CheckDeploymentWithoutInventory ==
  /\ pc = "check"
  /\ \E q \in Orders :
       /\ cur' = [Checked(q) EXCEPT !.conds["SetupReady"] = "True",
                                    !.conds["DeploymentReady"] = Verdict(q)]
       /\ Return(Failed(q))
  /\ NoFault
  /\ UNCHANGED inventory

CheckDeployment ==
  /\ pc = "check"
  /\ \E q \in Orders :
       /\ cur' = [Checked(q) EXCEPT !.conds["SetupReady"] = "True",
                                    !.conds["DeploymentReady"] = Verdict(q)]
       /\ IF GeneratesInventory(q) THEN GenerateNodeSetInventory
          ELSE UNCHANGED inventory
       /\ Return(Failed(q))
  /\ NoFault

-----------------------------------------------------------------------------
(* The end of a reconcile *)

SubConds == {c \in NodeSetConds \ {"Ready"} : cur.conds[c] # "Absent"}

SetReady ==
  [cur EXCEPT !.conds["Ready"] =
     IF \A c \in SubConds : IsTrue(cur.conds[c]) THEN "True"
     ELSE Mirror({cur.conds[c] : c \in SubConds})]

\* Defect: an entry without conditions is stored as one.
PatchedStatusWithNull(old, new, stored) ==
  [new EXCEPT !.deploymentStatuses =
     [d \in Deployments |-> Merge(old.deploymentStatuses[d], @[d],
                                  stored.deploymentStatuses[d])]]

(***************************************************************************)
(* The merge patch.  The list of conditions is one value of it.  The map   *)
(* of the Deployments' statuses is merged key by key, and an entry without *)
(* conditions is a null, which removes the key; a map without entries is   *)
(* left out of the JSON, which removes the stored map with all its keys,   *)
(* if the copy that was read had any.                                      *)
(***************************************************************************)
PatchedStatuses(old, new, stored) ==
  IF new = NoStatuses /\ old # NoStatuses THEN NoStatuses
  ELSE [d \in Deployments |->
          IF new[d] = "Absent" THEN "none" ELSE Merge(old[d], new[d], stored[d])]

PatchedStatus(old, new, stored) ==
  [conds |-> Merge(old.conds, new.conds, stored.conds),
   configHash |-> Merge(old.configHash, new.configHash, stored.configHash),
   deployedConfigHash |->
     Merge(old.deployedConfigHash, new.deployedConfigHash, stored.deployedConfigHash),
   deploymentStatuses |-> PatchedStatuses(old.deploymentStatuses, new.deploymentStatuses,
                                          stored.deploymentStatuses),
   observedGeneration |->
     Merge(old.observedGeneration, new.observedGeneration, stored.observedGeneration)]

PatchInstance ==
  /\ pc = "patch"
  /\ nodeSet' = [nodeSet EXCEPT !.status = PatchedStatus(read.status, SetReady, @)]
  /\ queued' = (queued \/ again)
  /\ NoFault
  /\ Idle
  /\ UNCHANGED <<inventory, env, caches>>

\* Defect: an error of the patch is logged and forgotten.
PatchInstanceErrorLost ==
  /\ pc = "patch"
  /\ Fault
  /\ Idle
  /\ UNCHANGED <<nodeSet, inventory, env, caches, queued>>

\* The patch fails: its error is returned and the request is queued again.
PatchInstanceError ==
  /\ pc = "patch"
  /\ queued' = TRUE
  /\ Fault
  /\ Idle
  /\ UNCHANGED <<nodeSet, inventory, env, caches>>

\* The manager is restarted: its caches are filled anew and every NodeSet is
\* reconciled.
Crash ==
  /\ cached' = nodeSet /\ seen' = deployment
  /\ queued' = TRUE
  /\ Fault
  /\ Idle
  /\ UNCHANGED <<nodeSet, inventory, env>>

-----------------------------------------------------------------------------
(* Watches *)

\* Every change of the NodeSet, its own patches included, is a request.
SyncNodeSet ==
  /\ cached # nodeSet
  /\ cached' = nodeSet
  /\ queued' = TRUE
  /\ UNCHANGED <<nodeSet, inventory, env, seen, worker, faults>>

\* Defect: the watch on the Deployments does not map them to their NodeSets.
SyncDeploymentsUnmapped ==
  /\ seen # deployment
  /\ seen' = deployment
  /\ UNCHANGED <<nodeSet, inventory, env, cached, queued, worker, faults>>

\* deploymentWatcherFn: a Deployment that changed is a request for the NodeSets
\* it names.  One watch serves the Deployments, so the cache is always a state
\* they have all been in together.
SyncDeployments ==
  /\ seen # deployment
  /\ seen' = deployment
  /\ queued' = (queued \/ \E d \in Listed : seen[d] # deployment[d])
  /\ UNCHANGED <<nodeSet, inventory, env, cached, worker, faults>>

\* An event of a Deployment that changed nothing the NodeSet controller reads.
DeploymentEvent ==
  /\ Listed # {} /\ ~queued
  /\ queued' = TRUE
  /\ UNCHANGED <<nodeSet, inventory, env, caches, worker, faults>>

\* The inputs whose objects the controller owns or watches.
Watched == {"ipsets", "dns", "ssh", "version", "baremetal"}

\* Users and other operators change the inputs; an object gets its conditions
\* once.
InputChange ==
  /\ \E v \in InputViews \ {input} :
       /\ \A s \in StepNames : v[s] = "new" => input[s] \in {"new", "failing"}
       /\ input' = v
       /\ queued' = (queued \/ \E s \in Watched : v[s] # input[s])
  /\ UNCHANGED <<nodeSet, inventory, deployment, caches, worker, faults>>

-----------------------------------------------------------------------------
(* The users and the Deployment controller *)

\* ValidateUpdate: no Deployment that the status lists is running.
ValidateUpdate ==
  \A d \in Deployments :
    LET c == nodeSet.status.deploymentStatuses[d]
    IN  c = "none" \/ IsTrue(c) \/ IsError(c)

Edit ==
  /\ ValidateUpdate
  /\ nodeSet.generation <= MaxEdits
  /\ \E s \in Specs \ {nodeSet.spec} :
       nodeSet' = [nodeSet EXCEPT !.spec = s, !.generation = @ + 1]
  /\ UNCHANGED <<inventory, env, caches, queued, worker, faults>>

\* The relative times of the changes: how many different ones are not later.
Compress(f) ==
  LET Rank(d) == Cardinality({f[e].at : e \in {x \in Deployments :
                                0 < f[x].at /\ f[x].at <= f[d].at}})
  IN  [d \in Deployments |-> [f[d] EXCEPT !.at = Rank(d)]]

Latest == IF \E d \in Deployments : deployment[d].at # 0
          THEN CHOOSE t \in {deployment[d].at : d \in Deployments} :
                 \A d \in Deployments : deployment[d].at <= t
          ELSE 0

\* A change now is the latest, but times are in seconds.
Now == {Latest + 1} \cup ({Latest} \ {0})

Create(d) ==
  /\ ~deployment[d].exists
  /\ deployment' = [deployment EXCEPT ![d].exists = TRUE]
  /\ UNCHANGED <<nodeSet, inventory, input, caches, queued, worker, faults>>

Delete(d) ==
  /\ deployment[d].exists
  /\ deployment' = Compress([deployment EXCEPT ![d] = NoDeployment])
  /\ UNCHANGED <<nodeSet, inventory, input, caches, queued, worker, faults>>

(***************************************************************************)
(* A reconcile of the Deployment reports what has become of this NodeSet:  *)
(* not started, running, failed or, when other NodeSets keep the           *)
(* Deployment from being complete, done.  Its DeploymentReady condition    *)
(* may change with that or not.  A reconcile that starts from a stale copy *)
(* may do so to a Deployment that is complete.                             *)
(***************************************************************************)
DeploymentReports(d) ==
  /\ deployment[d].exists
  /\ \E c \in {"Unknown", "Requested"} \cup Failures
                 \cup (IF d \in Shared THEN {"True"} ELSE {}),
        t \in Now \cup ({deployment[d].at} \ {0}) :
       /\ c # deployment[d].cond
       /\ deployment' = Compress([deployment EXCEPT ![d].cond = c, ![d].at = t])
  /\ UNCHANGED <<nodeSet, inventory, input, caches, queued, worker, faults>>

\* The configHash that a Deployment read some time ago.
Recordable == IF nodeSet.generation = 1 THEN {nodeSet.spec} ELSE Specs

\* The Deployment is complete.  It records the hash, unless setHashes failed.
DeploymentCompletes(d) ==
  /\ deployment[d].exists
  /\ \E h \in Recordable \cup {deployment[d].hash}, t \in Now :
       deployment' = Compress([deployment EXCEPT
         ![d].cond = "True", ![d].hash = h, ![d].at = t])
  /\ UNCHANGED <<nodeSet, inventory, input, caches, queued, worker, faults>>

-----------------------------------------------------------------------------
(* Specification *)

Reconcile ==
  \/ Fetch
  \/ SetupStops \/ SetupDone
  \/ CheckDeployment
  \/ PatchInstance

Faults == CheckDeploymentError \/ InventoryError \/ PatchInstanceError \/ Crash

DeploymentMoves(d) ==
  \/ Create(d) \/ Delete(d)
  \/ DeploymentReports(d) \/ DeploymentCompletes(d)

Watches == SyncNodeSet \/ SyncDeployments \/ DeploymentEvent

Environment == InputChange \/ \E d \in Deployments : DeploymentMoves(d)

Next ==
  \/ Reconcile
  \/ Faults
  \/ Watches
  \/ Edit
  \/ Move /\ Environment

\* The manager keeps working and watches deliver; users, other operators and
\* the Deployment controller owe nothing here.
Fairness ==
  /\ WF_vars(Reconcile)
  /\ WF_vars(SyncNodeSet)
  /\ WF_vars(SyncDeployments)

Spec == Init /\ [][Next]_vars

FairSpec == Spec /\ Fairness

-----------------------------------------------------------------------------
(* Properties *)

StatusesWith(entries) ==
  [conds : [NodeSetConds -> Cond],
   configHash : Specs \cup {NoHash},
   deployedConfigHash : Specs \cup {NoHash},
   deploymentStatuses : [Deployments -> entries \cup {"none"}],
   observedGeneration : 0..(MaxEdits + 1)]

\* The statuses that can be stored: no entry of the map is a null.
Statuses == StatusesWith(Cond \ {"Absent"})

StoredNodeSet == [spec : Specs, generation : 1..(MaxEdits + 1), status : Statuses]

DeploymentState ==
  [exists : BOOLEAN, cond : Cond, hash : Specs \cup {NoHash},
   at : 0..Cardinality(Deployments)]

\* Type invariant: the objects, caches and worker state of the NodeSet
\* controller (Reconcile) and of the Deployments it reads.
TypeOK ==
  /\ nodeSet \in StoredNodeSet
  /\ cached \in StoredNodeSet
  /\ inventory \in 0..(MaxEdits + 1)
  /\ deployment \in [Deployments -> DeploymentState]
  /\ seen \in [Deployments -> DeploymentState]
  /\ input \in InputViews
  /\ moves \in 0..MaxMoves
  /\ queued \in BOOLEAN
  /\ pc \in {"idle", "setup", "check", "patch"}
  /\ read \in StoredNodeSet \cup {NoNodeSet}
  /\ cur \in StatusesWith(Cond)
  /\ again \in BOOLEAN
  /\ faults \in 0..MaxFaults

\* Nothing is left to do for the controller.
Settled == pc = "idle" /\ ~queued /\ cached = nodeSet /\ seen = deployment

\* When Reconcile has nothing left to do, a NodeSet that reports SetupReady has
\* an inventory of its last generation, unless one of its Deployments is running
\* or failed (no inventory is generated then).
InventoryFresh ==
  /\ Settled
  /\ IsTrue(nodeSet.status.conds["SetupReady"])
  /\ \A d \in Listed : ~IsFalse(deployment[d].cond)
  => inventory = nodeSet.generation

\* Every Deployment has a DeploymentReady condition to be sorted by.  Those of
\* other NodeSets are sorted, too, but no change of theirs is a request, so
\* nothing is said when there are any.
AllDated ==
  \A d \in Deployments : d \in Listed /\ (deployment[d].exists => deployment[d].at # 0)

(***************************************************************************)
(* When Reconcile has nothing left to do, a NodeSet that reports           *)
(* DeploymentReady does so because of a success that is not older than any *)
(* failure, in whatever order checkDeployment met them; and when its sort  *)
(* can tell the Deployments apart, not older than any Deployment: one that *)
(* was started since has set the condition back to False.                  *)
(***************************************************************************)
NewestDecides ==
  Settled /\ IsTrue(nodeSet.status.conds["DeploymentReady"]) =>
    \E d \in Listed :
      /\ IsTrue(deployment[d].cond)
      /\ \A e \in Listed :
           IsError(deployment[e].cond) \/ AllDated
             => deployment[e].at <= deployment[d].at

\* When Reconcile has nothing left to do, a spec that has not been deployed is
\* what configHash announces for the next Deployment to record, however edits,
\* Deployments and failed patches came in between (Reconcile records the hash
\* only when it differs from the deployed one).
EditsVisible ==
  Settled /\ nodeSet.spec # nodeSet.status.deployedConfigHash
    => nodeSet.status.configHash = nodeSet.spec

InputsReady ==
  /\ \A k \in DOMAIN Steps : input[Steps[k]] = "ready"
  /\ PreProvisioned \/ BaremetalHosts

\* Once the inputs stay ready, Reconcile settles: SetupReady is True for good
\* and the status is that of the last generation.
SetupSettles ==
  <>[]InputsReady =>
    <>[](/\ IsTrue(nodeSet.status.conds["SetupReady"])
         /\ nodeSet.status.observedGeneration = nodeSet.generation)

\* d is a complete Deployment of the NodeSet and the last one to have changed.
\* The others have a condition to be sorted by: a Deployment that has none yet
\* counts as newer than d for the loop or not, as the sort happens to place it.
\* One of other NodeSets may misplace d without bringing the controller back.
NewestSucceeded(d) ==
  /\ deployment[d].exists
  /\ IsTrue(deployment[d].cond) /\ deployment[d].hash # NoHash
  /\ AllDated
  /\ \A e \in Deployments \ {d} :
       deployment[e].exists => deployment[e].at < deployment[d].at

NoneFailed == \A e \in Listed : ~IsError(deployment[e].cond)

\* When the inputs stay ready, the newest Deployment has succeeded and none has
\* failed, the NodeSet eventually reports DeploymentReady and the hash of that
\* Deployment (checkDeployment, deploymentWatcherFn).
VerdictFollows ==
  \A d \in Listed :
    <>[](InputsReady /\ NewestSucceeded(d) /\ NoneFailed) =>
      <>[](/\ IsTrue(nodeSet.status.conds["DeploymentReady"])
           /\ nodeSet.status.deployedConfigHash = deployment[d].hash)

-----------------------------------------------------------------------------
(* What the documentation says and the code does not do *)

(***************************************************************************)
(* "A subsequent deployment that is started will set the condition back to *)
(* False until the deployment succeeds when it will be set back to True"   *)
(* (of the Ready condition of a NodeSet; checkDeployment): when the inputs *)
(* stay ready and the newest Deployment has succeeded, the NodeSet becomes *)
(* ready, whatever became of the Deployments before.                       *)
(***************************************************************************)
SuccessShows ==
  \A d \in Listed :
    <>[](InputsReady /\ NewestSucceeded(d)) =>
      <>[]IsTrue(nodeSet.status.conds["Ready"])

=============================================================================

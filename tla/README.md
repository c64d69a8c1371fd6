# The dataplane operator in TLA+

The dataplane operator deploys Ansible-managed OpenStack nodes from Kubernetes.
Users write three kinds of objects: `OpenStackDataPlaneNodeSet` (a set of nodes
and the list of services to run on them), `OpenStackDataPlaneService` (a playbook
and what it mounts) and `OpenStackDataPlaneDeployment` (a request to run the
services of some NodeSets once). Two controllers turn them into Ansible
executions (`OpenStackAnsibleEE` objects) and report progress in status
conditions. This directory holds TLA+ modules of both controllers, of the two of
them together and of the certificates they hand out, TLC configurations that check them on small instances, and TLAPS proofs.

## Inventory

| Part | State it keeps | Operations | Hard behaviour |
|---|---|---|---|
| Deployment controller, `controllers/openstackdataplanedeployment_controller.go` | status of a Deployment: `deployed`, conditions, conditions per NodeSet and service, hashes | `Reconcile`, `setHashes` | restarts from scratch in every reconcile, reads from caches, one final merge patch |
| Deployer, `pkg/deployment/deployment.go`, `service.go` | none (conditions in memory) | `Deploy`, `ConditionalDeploy`, `DeployService`, `CheckGlobalServiceExecutionConsistency` | order of services, several NodeSets, errors of one of them |
| Ansible executions, `pkg/util/ansible_execution.go` | `OpenStackAnsibleEE` objects | `GetAnsibleExecution` (by label), `AnsibleExecution` (create or patch by name) | cache behind the API server, truncated names, ownership |
| NodeSet controller, `controllers/openstackdataplanenodeset_controller.go` | status of a NodeSet: conditions, `configHash`, `deployedConfigHash`, `deploymentStatuses`, `observedGeneration` | `Reconcile`, `checkDeployment`, watch functions | many waiting inputs, several Deployments in one verdict |
| Setup steps, `pkg/deployment/ipam.go`, `baremetal.go`, `inventory.go`, `service.go`, `pkg/util/version.go` | IPSets, DNSData, BaremetalSet, inventory secret | `EnsureIPSets`, `EnsureDNSData`, `DeployBaremetalSet`, `GenerateNodeSetInventory`, `EnsureServices`, `GetVersion` | objects of other operators that become ready later, or not |
| NodeSet webhook, `api/v1beta1/openstackdataplanenodeset_webhook.go` | none | `ValidateCreate`, `ValidateUpdate`, `Default` | decides on a status that lags |
| TLS, `pkg/deployment/cert.go` | certificate secrets | `EnsureTLSCerts`, `createSecretsDataStructure`, and `addCertMounts` of the Deployer | one secret per reconcile, size bound, leftovers of earlier packings |
| Hashes, `pkg/deployment/hashes.go`, `pkg/util/datasource.go` | none | `GetDeploymentHashesForService` | a source that disappears |

The controllers do not call each other. The Deployment controller reads a
NodeSet's `SetupReady` condition, service list and `configHash`; the NodeSet
controller reads the Deployments' NodeSet conditions and hashes; the webhook reads
the copy of those conditions in the NodeSet's status. The executions are run by
another operator. Everything goes through the API server and the informer caches.

What makes the parts correct:

- a Deployment reports success only for executions that succeeded, keeps the order
  of services, finishes if it can, and stays finished;
- a NodeSet reports `SetupReady` when it is set up for the spec it has observed,
  and reports what its Deployments did;
- the certificates that an execution mounts are those of all nodes, each once;
- neither controller waits for the other for ever;
- the spec does not change under a running Deployment (it can: see
  `recorded_hash`).

## Modules

| Module | Contents |
|---|---|
| `Conditions` | status conditions and merge patches of lib-common (external) |
| `Deployment` | the Deployment controller, the Deployer and the executions |
| `MCDeployment` | instances of `Deployment` |
| `DeploymentProofs` | type correctness of `Deployment` |
| `DeploymentSafetyProofs` | the safety theorems of `Deployment` |
| `Rollout` | what a Deployment promises, without controllers, caches or conditions |
| `DeploymentRolloutProofs` | `Deployment` implements `Rollout` |
| `NodeSet` | the NodeSet controller, its watches and the update webhook |
| `MCNodeSet` | instances of `NodeSet` |
| `NodeSetProofs` | type correctness of `NodeSet` and what sorting and visiting Deployments gives |
| `NodeSetSafetyProofs` | the safety theorems of `NodeSet` |
| `DataPlane` | both controllers on one NodeSet and one Deployment of it |
| `MCDataPlane` | instances of `DataPlane` |
| `DataPlaneProofs` | safety across the controllers; the composition implements `Deployment` |
| `DataPlaneRefinementProofs` | the composition takes only steps that `NodeSet` allows |
| `TLSCerts` | issuing, packing and mounting the certificates of one service |
| `MCTLSCerts` | `TLSCerts` for TLC |
| `TLSCertsProofs` | types, packing and mounting of `TLSCerts` |

`Deployment` and `NodeSet` each have the rest of the world as actions. `DataPlane`
instantiates both and makes each one's world the other: what `Deployment` calls
`nodeSet` is the cached NodeSet, what `NodeSet` calls `deployment` and `seen` is the
stored and the cached status of the Deployment. It instantiates them through the modules
with their safety proofs, which extend them and add lemmas only, so that the lemmas can
be cited for the two instances. `Deployment` instantiates `Rollout`
for the refinement. `TLSCerts` details what `Deployment` has as one action
(`EnsureTLSCerts`); it stands on its own.

### Conditions

A condition is one value: `Absent`, `Unknown`, `True`, or one of four kinds of
`False` (`Requested`, `Warning`, `Error`, `Backoff`), which is what the code tells
apart by status, severity and reason. `Mirror` is the library's choice of the most
critical condition. `Merge` is what `helper.PatchInstance` does to a field: it is
written when it differs from the copy that was *read*, not from what is stored.

### Deployment

State: the Deployments' status, the executions, the certificates, the NodeSets and
services (as others leave them); the caches of the first two and the work queue;
and the memory of the reconcile in progress, with a program counter `pc`.

`Reconcile` is split at the calls that read or write shared objects:

| `pc` | code | actions |
|---|---|---|
| `idle` | fetch, `deployed` early return, `InitConditions` | `AlreadyDeployed`, `Fetch` |
| `nodesets` | reading the NodeSets, `SetupReady` | `EnsureNodeSets`, `NodeSetsNotReady`, `NodeSetGetError` |
| `prepare` | TLS loop, global services, version | `EnsureTLSCerts`, `EnsureTLSCertsError`, `TLSServiceMissing`, `ConsistencyError`, `GetVersionError`, `BeginDeploy` |
| `deploy` | the service loop of `Deploy`, up to the creation of an execution | `NodeSetDone`, `ServiceError`, `ServiceReady`, `ServicePending`, `DeployService`, `DeployServiceError` |
| `check` | the second half of `ConditionalDeploy` | `ExecutionNotFound`, `ExecutionLookupError`, `ExecutionSucceeded`, `ExecutionInProgress`, `ExecutionFailed` |
| `conclude` | the outcome and `setHashes` | `DeploymentFailed`, `DeploymentWaits`, `DeploymentSucceeded` |
| `patch` | the deferred function | `PatchInstance`, `PatchInstanceError` |

`Crash` loses the memory and refills the caches; `SyncStatus` and `SyncAEE` are the
informers; `JobSucceed`, `JobFail`, `JobRetry`, `NodeSetChange` and `ServiceChange`
are the rest of the world. A Deployment's spec is a constant: changing it during a
run is out of the model.

A lookup that fails for another reason than NotFound sets the condition to an error
and then uses a nil object (`deployment.go:207`). `ExecutionLookupError` is that panic:
the deferred function patches what memory holds, and the next reconcile starts from
the store; that a panic may also end the process is `Crash`. `setHashes` fails when a
service or one of its sources is missing, and may fail with all of them there
(`DeploymentSucceeded` counts that as a fault). Execution names are built from what the
two truncations leave: `NamePrefix` for the service's name, `NameParts` for the whole.
`EnsureNodeSets` reads all NodeSets in one step where the code has one `Get` each: a
NodeSet is compared with no other, and each is copied into memory once, so a NodeSet
that changes between two `Get`s is one that changed before or after both, in a
behaviour that differs only in when the change was made.

### NodeSet

State: one NodeSet (spec, generation, status), the generation its inventory was made
from, the Deployments of the namespace, the state of each setup step's input, the
caches, and the reconcile in progress. A spec stands for its own hash.

`Fetch` resets the status (`InitConditions`, `configHash`). `SetupStops` and
`SetupDone` are the setup steps: each step has an operator (`EnsureIPSets`,
`EnsureDNSData`, ...) that says what it reports for each state of its input; the
first that does not report `True` ends the reconcile, with or without a requeue.
`CheckDeployment` visits the Deployments in one of the `Orders` its sort can
produce, copies their conditions and hashes, generates the inventory unless one runs
or failed, and sets `SetupReady` and `DeploymentReady`. `PatchInstance` ends the
reconcile. `SyncNodeSet`, `SyncDeployments` and `InputChange` are the watches.
`Edit` is a user's change that `ValidateUpdate` admits. `DeploymentReports`,
`DeploymentCompletes` and `DeploymentEvent` are what the Deployment controller does
to the fields read here: an abstraction of module `Deployment`, and
`ImplementsNodeSet` of `DataPlane` shows that it is one.

The map of the Deployments' statuses is merged entry by entry (`PatchedStatuses`): an
entry that the reconcile started from and no longer has is removed, and so is one without
conditions, which is a `null`; one that only the store has is kept; and a map that has become empty removes the stored map as a whole, because an
empty map is left out of the status and the patch says `null`.

The inputs of all setup steps are read in one step; the times of the Deployments'
last changes are kept as ranks, with ties, since the code compares them only.

### Rollout

Executions `<<service, deployment, NodeSet>>` are started and succeed, Deployments
are completed. An execution starts when the services before it in a list have
succeeded; a Deployment is complete when each of its NodeSets has got through a
list; nothing is taken back. The list is chosen at every step, because users edit it
between reconciles. `Deployment` maps to it by the executions that exist, those whose
job succeeded, and `status.deployed`: caches, conditions, hashes and the worker do
not appear.

### DataPlane

One step is a step of one controller, with the other's objects unchanged, except:
`SyncDeployment`, the watch of Deployments, is a request for both; `Crash` ends both,
since they share a process and its caches. `NodeSetView` and `DeploymentView` say
which fields of the other's status a controller reads. Two variables record what
happened and guide no step: the spec the inventory was generated from, and for each
execution the specs whose inventory it may have used while its job ran. Services do not
change here; `setHashes` may still fail, so a Deployment that is deployed and has
recorded no hash occurs.

### TLSCerts

State: the nodes of the NodeSet, the certificates that were requested, the secrets
(issued certificates and packed ones, with the label `numberOfSecrets`), and the
reconcile in progress. Secrets are read through one informer: `history` is the
sequence of states from the one the cache shows to the one that is stored, so the
cache is behind but never out of order.

`Begin`, `ReadCert` and `AwaitCert` are the loop over the nodes with
`GetTLSNodeCert`; `CreateSecretsDataStructure` is one turn of the packing loop, which
takes the first node in the order of names that is not packed yet, and `Packed` is its
end; `SecretUnchanged`,
`WriteSecret` and `AlreadyExists` are the outcomes of `CreateOrPatchSecret` for the
next secret (found as wanted, written and the reconcile ends, or not in the cache and
not creatable); `AddCertMounts` and `AddCertMountsError` are the mounting. `Issue`
and `Renew` are cert-manager. A certificate is a version and the size of its three
entries; names of nodes are numbers, because the code sorts them. The packing goes
node by node where `cert.go:57` takes three sorted keys at a time: a node's three keys
all begin with the name its certificate is for, the host's name on the control plane
network (`ipam.go:126`, `cert.go:166`, `cert.go:185`), so they are neighbours in the
sorted list. For a NodeSet without nodes no secret is written; what is mounted is what
an earlier packing has left, and if there is nothing, `AddCertMountsError` repeats.

## Runs that pass

| Run | Instance | Shows |
|---|---|---|
| `deployment_order` | 1 Deployment that names its NodeSet twice, 2 services whose order changes, a fault or a retried job | `ServiceConditionSound`, `DeployedMeansDone`, `ServiceOrder`, `ImplementsRollout`, types |
| `deployment_tls` | TLS NodeSet, a service with certificates and a global one that mounts them (listed once or twice), services and sources that come and go, 1 fault | `CertsBeforeExecution`, `DeployedForever` |
| `deployment_live` | 2 NodeSets, jobs that succeed or give up, a crash, lost patch or stale read at any step | `DeploymentConcludes`, `NodeSetReadyMeansDone` |
| `nodeset_status` | 2 Deployments, an edit, 1 fault, 4 environment moves | `InventoryFresh`, `NewestDecides`, `EditsVisible`, types |
| `nodeset_live` | every setup step stops in every way, with an edit or a fault; or 2 Deployments, one of several NodeSets; 5 environment moves | `SetupSettles`, `VerdictFollows` |
| `dataplane_safety` | both controllers, 1 service, an edit or a fault of either controller | `ImplementsDeployment`, `ImplementsNodeSet`, `ReadyMeansExecuted`, `InventoryBeforeExecution` |
| `dataplane_live` | both controllers, an input that comes and goes, a job that may be retried once | `DeploymentReachesNodeSet` |
| `tls_certs` | 3 nodes, certificates that fit two to a secret or exceed one, an edit, a renewal, a cache that lags, 1 fault | `PackingSound`, `MountsComplete`, `CertsSettle`, types |

`ImplementsDeployment` and `ImplementsNodeSet` justify checking the controllers one
at a time: every step of the composition is, seen from one controller, a step of its
own specification or one its environment was allowed to take. The safety properties
that are shown of `Deployment` therefore hold with the real other side, and the
NodeSets it has to expect are fewer than its specification admits: one that is set up has
announced a hash (`SeenNodeSets`), which depends on how the NodeSet controller resets
and patches its status. In turn `NodeSet` was
checked and proved against an environment that includes it. Both are proved as well, for
every list of services and all specs and inputs (see below); liveness of the two together
is `dataplane_live`. `faults` is common to both and is left out of the comparison. `NodeSet` is
compared step by step and not from its initial state, where it has no Deployment yet;
its bound on environment moves does not apply.

`MountsComplete` speaks of reconciles that began with a cache that was up to date. With
a cache that is behind, it does not hold: when the node list or a certificate changes
and the packing returns to what the cache still shows, the secret passes for written
and the mounted secrets are those of the change in between, until the cache catches
up. The pods read the secrets later still; a repacking that goes on then is not
covered.

### Bounds

`MaxFaults` counts API errors, crashes and reconciles that start from a stale
status; one is enough for each kind at each step, and every other step of the cache
lag is free. `BackoffLimit` is 0 or 1: a job that is retried and one that gives up
both occur. Two NodeSets and two services are the least with which "the other one"
exists; `spec.nodeSets` may name a NodeSet twice, and then the second pass of the
loop meets conditions that the first has set. Two Deployments give the verdict of a
NodeSet an older and a newer one. `MaxEdits` allows a change and, where needed, its reversal.
`MaxLag` of 1 lets a reconcile meet a cache that
lacks the last write, which is the case `WriteSecret` and `AlreadyExists` differ in;
a longer lag is not checked. With `SecretMaxSize` 2 and sizes 1 and 3, packings of one,
two and three secrets, full, half full and too large ones all occur.
`MaxMoves` bounds the changes of Deployments and inputs: four to five take two
Deployments through creation, progress and an outcome. `MCSetupOrDeployments` splits
`nodeset_live`: as long as there is no Deployment, two changes of inputs and an edit or
a fault; with Deployments, inputs that are ready and neither. `nodeset_status` uses the
symmetry of the Deployments, which is sound there: no property or constant
distinguishes them and no liveness is checked. `dataplane_safety` uses the symmetry of
the two specs for the same reason, and a `VIEW` without the two recording variables,
which no property of that run reads and no action depends on. Its
constraint `MCOneDisturbance` allows an edit or a fault in a behaviour, not both;
`MCRetryOrFault` allows `deployment_order` a fault or the retries of one execution.

Deadlock is checked in `tls_certs`, where there is always another Deployment to
come. Elsewhere it is not: a system whose Deployments are done and whose queue is
empty has nothing to do.

### Fairness

controller-runtime's worker takes queued requests and runs each reconcile to its
end, so `Reconcile` is weakly fair; its queue is a queue, so a request that is
pending again and again is served (`SF` for `Request(d)`). Watches deliver
(`SyncStatus`, `SyncAEE`, `SyncNodeSet`, `SyncDeployments`, `SyncDeployment`, `Sync`
are weakly fair). Jobs
that can move do, and cert-manager issues what is requested (`Issue`). Nothing is assumed of users, of the other operators' inputs or of
faults: liveness properties are conditional on inputs that stay in place.

## Runs that find a disagreement

Each checks one statement of a document, comment or message of the repository that
the code does not keep.

| Run | What happens |
|---|---|
| `shared_condition_type` | two services whose names give the same condition type: the second never runs, the Deployment is deployed |
| `global_service_override` | a global service in `servicesOverride` with two NodeSets: the Deployment waits for ever without an error |
| `recorded_hash` | an edit is admitted before the NodeSet's status lists the Deployment: the Deployment runs with the inventory of the old spec and records the hash of the new one, so the NodeSet looks up to date |
| `failure_blocks_success` | a Deployment fails and a newer one succeeds: `checkDeployment` stops at the failed one (`:502`) and the NodeSet is not ready until that one is deleted; `docs/assemblies/condition.adoc:20` says the success makes it ready |

The modules also contain the following behaviour, read off the code, for which no
run is kept:

- `deployed` is tested on the cached copy
  (`openstackdataplanedeployment_controller.go:102`): a reconcile that starts before
  its own last patch is in the cache goes through the loop again and, if the NodeSet's
  list has grown meanwhile, creates an execution for a Deployment that is deployed.
  `docs/assemblies/design.adoc:76` says it does not execute Ansible again.
- `configHash` is assigned only when the spec's hash differs from
  `deployedConfigHash` (`openstackdataplanenodeset_controller.go:216`). After an edit
  that is taken back before it is deployed, it keeps the hash of the abandoned spec,
  where `openstackdataplanenodeset_types.go:136` calls it the current hash.
  `EditsVisible` is what does hold.
- `setHashes` may fail after `deployed` is set (`openstackdataplanedeployment_controller.go:394`);
  the error is logged, the Deployment is never reconciled again and its hashes stay
  missing (`SetHashes`).
- A reconcile from a stale copy that ends early stores reset conditions, so a
  deployed Deployment may have `DeploymentReady` Unknown (`:137`; `Merge`).
- A Deployment of several NodeSets reports one of them ready before it records any
  hash, and `checkDeployment` copies the empty hash
  (`openstackdataplanenodeset_controller.go:519`). `VerdictFollows` shows that the
  hash follows.
- The comparison at `:472` is not an order for Deployments without conditions, so
  `Orders` admits more than one visiting order. All Deployments of the namespace are
  sorted, those of other NodeSets too: one without conditions may put an older Deployment
  last, and when it gets its conditions no request brings the controller back. Hence
  `AllDated` in `NewestDecides` and `VerdictFollows`, without which neither holds.
- With a failed Deployment no inventory is generated, and `SetupReady` is True for a
  generation without one (`:400`); hence the exception in `InventoryFresh`.
- The webhook decides on `deploymentStatuses`, which is empty while a setup step
  waits (`openstackdataplanenodeset_webhook.go:180`), so an edit is admitted while a
  Deployment runs.
- An IPSet without conditions passes as ready (`ipam.go:249`; `EnsureIPSets`).
- `ValidateCreate` compares the nodes with those of the NodeSets that exist at that
  moment (`openstackdataplanenodeset_webhook.go:153`); neither two creations at once
  nor a later edit are compared.

## Proofs

TLC checks the instances above; the following holds for every value of the constants
that satisfies the assumptions named in the modules. The assumptions
(`SpecAssumption`, `ViewAssumption`, `ConstantAssumption`, `NodeSetAssumption`,
`DataPlaneAssumption`, `InputAssumption`, `NodesAssumption`, `SizesAssumption`,
`BoundsAssumption`) are evaluated by TLC in the runs of their modules. Every proof has
the same shape: an inductive invariant, `...Init` and `...Next` lemmas for it with one
step per action or group of actions, and the property as a consequence.

### The Deployment controller, for any Deployments, NodeSets, services and bounds

- `TypeCorrect`: `Spec => []TypeOK`. Inductive with `CacheBehind` (a cached
  execution exists), `RetriesLeft` (a job that is retried has retries left) and
  `InLoop` (positions are in range while the loop runs).
- `ConditionsAreSound`, `DeployedIsDone`, `NodeSetReadyIsDone`, `ServicesInOrder`,
  all under `DistinctConditionTypes`, the assumption that `shared_condition_type`
  shows to be needed. The invariant `SafeInv` says that what is True is done: in
  the stored status, in the status in memory (`CurSound`), and for the positions the
  loop has passed (`PassedDone`, `LoopDone`); the NodeSet conditions and `deployed`
  in memory agree with the loop (`ReadyDone`, `ReadyInit`, `DeployedDone`).
  Executions that succeeded stay so, which carries `Done` from step to step. The
  stored status alone is not inductive: a patch stores what memory holds, and memory
  is justified only by the loop's position.
- `DeployedStays`: a reconcile starts only from a copy with `deployed` false, so the
  patch either leaves the stored value or sets it (`NotDeployedBefore`).
- `CertsComeFirst`: past `prepare` the certificates of every position are written,
  and certificates are never removed (`CertsInv`).
- `DeploymentImplementsRollout`: `Spec => ImplementsRollout`, under
  `DistinctConditionTypes`. The initial state has no execution. Most actions leave
  executions and `deployed` alone and map to stuttering; `DeployService` maps to
  `Start`, `JobSucceed` to `Succeed`, `PatchInstance` to `Complete` or stuttering. The
  guards of `Rollout` come from `SafeInv` (what the loop has passed is done) and from
  one more invariant: the lists the reconcile has in memory are lists of NodeSets that
  were found, hence among those `Rollout` may choose.

`NamePrefix` and `NameParts` are unrestricted in all of them, so names of executions
that are cut in either place are covered.

### The NodeSet controller, for any number of Deployments, any specs, inputs and bounds

- `NodeSetProofs!TypeCorrect`: `Spec => []TypeOK`, with the lemmas about `Orders`,
  `Visited` and `LastOf` (an order visits every Deployment once, and the last visited
  position is one of them), which the next theorems rest on.
- `NewestShows`, `InventoryUpToDate`, `EditsReachStatus`. All three speak of a
  controller with nothing left to do (`Settled`), and are not inductive for that reason:
  they say nothing while a reconcile runs or a request waits. `SafeInv` says what each
  of these still owes. The cache is never ahead (`CacheBehind`); a reconcile that no
  request has overtaken works on the cached NodeSet and started from its hash
  (`ReadCurrent`); what it has in memory after `checkDeployment` is justified by the
  cached Deployments and by an inventory of the generation it read (`CurJustified`); and
  without a request and with the cache caught up, that is what is stored
  (`StatusJustified`). Every change of what justifies it queues a request, which is what
  the watches are for. For `NewestShows` the verdict is the last Deployment's, and no
  Deployment that was visited failed; that the last one is the newest takes that a
  sequence without a descent between neighbours has none at all (`OrderSorted`): after
  the last position that is newer than the end, there would be one.
- `HashInv`, proved for the composition: a NodeSet that reports `SetupReady` has a
  hash, and until the first edit it is the hash of its only spec.

### Both controllers, for any list of services, specs, inputs and bounds

A step of `DataPlane` is a step of one instance with the other's variables unchanged, or
`Crash` of both (`StepKinds`). So the invariants of the two proofs above carry over to
the composition by citing the lemmas of the instances (`Types`, `D!SafeInv`).

- `ReportsAreTrue`: `ReadyMeansExecuted`. `ReportsTrue` follows the success on its way:
  in the Deployment's stored and cached status, in the NodeSet controller's memory and in
  the NodeSet's status it is True only if every service has been executed.
- `InventoryComesFirst`: `InventoryBeforeExecution`. `InventoryInv` says what it means
  that there is no inventory: no execution exists, the Deployment's worker has not passed
  its NodeSets and has reported nothing, and no copy of the NodeSet's status reports
  `SetupReady`. It takes both halves: the Deployment waits for `SetupReady`, and the
  NodeSet skips the inventory only for a Deployment that has reported.
- `NodeSetIsEnvironment`: `Spec => ImplementsDeployment`. What the NodeSet controller
  does is seen through the cached NodeSet only, and a change of that is a
  `NodeSetChange` to one of `SeenNodeSets`: a NodeSet that is set up has announced a
  hash. That is `N!HashInv`, of the stored, the cached and the status in memory, and part
  of `Types` here.
- `DeploymentIsEnvironment`: `Spec => ImplementsNodeSet`. A patch of the Deployment maps
  to `DeploymentReports`, `DeploymentCompletes` or `DeploymentEvent`, and their guards
  have to be met. `D!ReportInv`: with one NodeSet, its condition is True only together
  with `deployed`, and hashes are recorded only then, those that were read.
  `SnapRecorded`, from `N!HashInv`: the hash that was read is that of a spec, and of the
  only one before the first edit.

### The certificates, for any nodes, sizes, limit and bounds

- `TLSCertsProofs!TypeCorrect` and `PackingIsSound`. `PackInv` is the loop invariant of
  `createSecretsDataStructure`: what is packed is well packed (`WellPacked`), precedes
  what is not (`InOrder`), and `totalSize` is the size of the last secret (`Counted`).
  `BeginSecret` and `FillSecret` are the two branches of the loop. The total of
  `PackingSound` is a recursive function on sets of nodes; that it exists is proved
  (`SumExists`) by taking the least number of nodes for which it would not. `FewSecrets`:
  there are no more secrets than nodes, because their first nodes differ.
- `MountsAreComplete`: `Spec => MountsComplete`. While a reconcile that began with an up
  to date cache has not written, the secrets are the same in every state of `history`
  (`SecretsStill`), those before position `i` are as wanted (`PassedOver`), and at
  `mount` that is all of them (`Position`); with `PackInv` they hold every node once.

### Only model-checked

All liveness (`DeploymentConcludes`, `SetupSettles`, `VerdictFollows`,
`DeploymentReachesNodeSet`, `CertsSettle`): it needs fairness and `ENABLED`, which the
provers do not handle. The four disagreements are single behaviours, which TLC exhibits.

## Not modelled

Contents of inventories, DNS records, BaremetalSets, playbooks and certificate
requests; values of hashes of ConfigMaps and Secrets (taken when a Deployment is
complete, not when its executions read them); `ValidateCreate` and `Default` of the
NodeSet webhook and the Deployment and Service webhooks (names, defaults and a
comparison with other objects, no state); manager start-up; generated code. Changes of
a Deployment's spec and deletion of a Deployment while it is reconciled. When pods
read what they mount.

## Plan

Every safety property that a run checks is proved. What is left:

1. `ImplementsNodeSet` compares steps and leaves the bound on environment moves out.
   A Deployment controller of its own for several Deployments of one NodeSet would let
   the theorems of `NodeSet` be used in the composition as `NodeSet` states them.
2. Stronger statements behind the liveness properties that are safety: that a controller
   with nothing left to do has no NodeSet or Deployment waiting for it.
3. `TLSCerts` with a lag: what is mounted is one of the packings in `history`.

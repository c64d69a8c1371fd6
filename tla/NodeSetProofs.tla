--------------------------- MODULE NodeSetProofs ---------------------------
(***************************************************************************)
(* Proofs about NodeSet for every number of Deployments, every set of      *)
(* specs and inputs and every bound.                                       *)
(***************************************************************************)
EXTENDS NodeSet, TLAPS, FiniteSetTheorems

-----------------------------------------------------------------------------
(* The operators the controller is built from *)

LEMMA NatMinimum ==
  ASSUME NEW T \in SUBSET Nat, T # {}
  PROVE  \E x \in T : \A y \in T : x <= y
<1>1. PICK x \in T : \A y \in T : <<y, x>> \notin OpToRel(<, Nat)
  BY NatLessThanWellFounded, WFMin
<1>2. \A y \in T : ~(y < x)
  BY <1>1 DEF OpToRel
<1> QED BY <1>2

LEMMA NatMaximum ==
  ASSUME NEW T \in SUBSET Nat, T # {}, NEW b \in Nat, \A x \in T : x <= b
  PROVE  \E x \in T : \A y \in T : y <= x
<1> DEFINE U == {b - x : x \in T}
<1>0. \A x \in T : b - x \in Nat
  OBVIOUS
<1>1. U \in SUBSET Nat /\ U # {}
  BY <1>0
<1>2. PICK u \in U : \A y \in U : u <= y
  <2> HIDE DEF U
  <2> QED BY <1>1, NatMinimum
<1>3. PICK x \in T : u = b - x
  BY <1>2
<1>4. \A y \in T : b - x <= b - y
  BY <1>2, <1>3
<1>5. \A y \in T : y <= x
  BY <1>4
<1> QED BY <1>5

\* The last of the positions is one of them.
LEMMA LastOfIn ==
  ASSUME NEW b \in Nat, NEW I \in SUBSET (1..b), I # {}
  PROVE  /\ LastOf(I) \in I
         /\ \A j \in I : j <= LastOf(I)
<1>0. I \in SUBSET Nat /\ \A i \in I : i <= b
  OBVIOUS
<1>1. \E i \in I : \A j \in I : j <= i
  BY <1>0, NatMaximum
<1> QED BY <1>1 DEF LastOf

LEMMA MirrorCond ==
  ASSUME NEW S PROVE Mirror(S) \in Cond
BY DEF Mirror, Cond, FalseConds

LEMMA StoredInMemory == Statuses \subseteq StatusesWith(Cond)
<1> (Cond \ {"Absent"}) \cup {"none"} \subseteq Cond \cup {"none"}
  OBVIOUS
<1> QED BY DEF Statuses, StatusesWith

LEMMA EmptyTypes ==
  /\ EmptyStatus \in Statuses
  /\ EmptyStatus \in StatusesWith(Cond)
  /\ NoDeployment \in DeploymentState
<1>1. Cardinality(Deployments) \in Nat
  BY NodeSetAssumption, FS_CardinalityType
<1>2. 0 \in 0..(MaxEdits + 1) /\ 0 \in 0..Cardinality(Deployments)
  BY <1>1, NodeSetAssumption
<1> QED BY <1>2 DEF EmptyStatus, Statuses, StatusesWith, NoStatuses, Cond, FalseConds,
                    NoDeployment, DeploymentState

\* A Deployment as it may look before the times are compressed.
Timed == [exists : BOOLEAN, cond : Cond, hash : Specs \cup {NoHash}, at : Nat]

LEMMA CompressType ==
  ASSUME NEW f \in [Deployments -> Timed]
  PROVE  /\ Compress(f) \in [Deployments -> DeploymentState]
         /\ \A d \in Deployments : /\ Compress(f)[d].exists = f[d].exists
                                   /\ Compress(f)[d].cond = f[d].cond
                                   /\ Compress(f)[d].hash = f[d].hash
                                   /\ f[d].at = 0 => Compress(f)[d].at = 0
<1> DEFINE Upto(d) == {x \in Deployments : 0 < f[x].at /\ f[x].at <= f[d].at}
           Times(d) == {f[e].at : e \in Upto(d)}
           Rank(d) == Cardinality(Times(d))
<1>1. ASSUME NEW d \in Deployments
      PROVE  /\ Rank(d) \in 0..Cardinality(Deployments)
             /\ f[d].at = 0 => Rank(d) = 0
  <2> DEFINE D == Upto(d)
             T == Times(d)
             g == [e \in D |-> f[e].at]
  <2>1. IsFiniteSet(D) /\ Cardinality(D) <= Cardinality(Deployments)
    BY NodeSetAssumption, FS_Subset, D \in SUBSET Deployments
  <2>2. g \in Surjection(D, T)
    BY DEF Surjection
  <2>3. f[d].at = 0 => T = {}
    BY f[d].at \in Nat DEF Timed
  <2> HIDE DEF D, T, g
  <2>4. IsFiniteSet(T) /\ Cardinality(T) <= Cardinality(D)
    BY <2>1, <2>2, FS_Surjection
  <2>5. /\ Cardinality(T) \in Nat /\ Cardinality(D) \in Nat
        /\ Cardinality(Deployments) \in Nat
    BY <2>1, <2>4, NodeSetAssumption, FS_CardinalityType
  <2>6. Cardinality(T) \in 0..Cardinality(Deployments)
    BY <2>1, <2>4, <2>5
  <2>7. f[d].at = 0 => Cardinality(T) = 0
    BY <2>3, FS_EmptySet
  <2> QED BY <2>6, <2>7 DEF T
<1>2. Compress(f) = [d \in Deployments |-> [f[d] EXCEPT !.at = Rank(d)]]
  BY DEF Compress
<1> HIDE DEF Rank
<1>3. ASSUME NEW d \in Deployments
      PROVE  /\ [f[d] EXCEPT !.at = Rank(d)] \in DeploymentState
             /\ [f[d] EXCEPT !.at = Rank(d)].at = Rank(d)
             /\ [f[d] EXCEPT !.at = Rank(d)].exists = f[d].exists
             /\ [f[d] EXCEPT !.at = Rank(d)].cond = f[d].cond
             /\ [f[d] EXCEPT !.at = Rank(d)].hash = f[d].hash
  BY <1>1, <1>3 DEF Timed, DeploymentState
<1> QED BY <1>1, <1>2, <1>3

-----------------------------------------------------------------------------
(* The inductive invariant of the types *)

\* A Deployment that does not exist has left nothing behind, in the store and
\* in the cache.
NothingLeft ==
  \A d \in Deployments :
    /\ ~deployment[d].exists => deployment[d] = NoDeployment
    /\ ~seen[d].exists => seen[d] = NoDeployment

\* The copy that a reconcile works on was read from the cache.
ReadStored == pc # "idle" => read \in StoredNodeSet

TypeInv == TypeOK /\ NothingLeft /\ ReadStored

LEMMA ResetType ==
  ASSUME NEW obj \in StoredNodeSet
  PROVE  /\ Reset(obj) \in StatusesWith(Cond)
         /\ Reset(obj).conds["DeploymentReady"] = "Unknown"
         /\ Reset(obj).conds["SetupReady"] = "Requested"
<1>1. [InitConditions EXCEPT !["SetupReady"] = "Requested"] \in [NodeSetConds -> Cond]
  BY DEF InitConditions, Cond, FalseConds
<1>2. /\ [InitConditions EXCEPT !["SetupReady"] = "Requested"]["DeploymentReady"] = "Unknown"
      /\ [InitConditions EXCEPT !["SetupReady"] = "Requested"]["SetupReady"] = "Requested"
  BY DEF InitConditions, NodeSetConds, StepCond
<1>3. obj.generation \in 0..(MaxEdits + 1)
  BY NodeSetAssumption DEF StoredNodeSet
<1> HIDE DEF InitConditions
<1> QED BY <1>1, <1>2, <1>3 DEF Reset, StoredNodeSet, Statuses, StatusesWith, NoStatuses

LEMMA CurConds ==
  ASSUME NEW st \in StatusesWith(Cond), NEW f \in [NodeSetConds -> Cond]
  PROVE  /\ [st EXCEPT !.conds = f] \in StatusesWith(Cond)
         /\ [st EXCEPT !.conds = f].conds = f
BY DEF Statuses, StatusesWith

LEMMA ReportsType ==
  ASSUME NEW s \in StepNames
  PROVE  Reports(s) \in Cond \/ (s = "version" /\ Reports(s) = "none")
BY DEF Reports, StepNames, EnsureServices, EnsureIPSets, EnsureDNSData, VerifySecret,
       EnsureServiceAccount, GetVersion, DeployBaremetalSet, Cond, FalseConds

LEMMA StepsType ==
  /\ Steps \in Seq(StepNames)
  /\ Len(Steps) \in Nat /\ DOMAIN Steps = 1..Len(Steps)
  /\ \A k \in DOMAIN Steps : Steps[k] \in StepNames
<1> DEFINE a == <<"services", "ipsets", "dns", "ssh", "sa", "version">>
           b == IF PreProvisioned THEN << >> ELSE <<"baremetal">>
<1>0. << >> \in Seq(StepNames) /\ <<"baremetal">> \in Seq(StepNames)
  BY DEF StepNames
<1>1. a \in Seq(StepNames) /\ b \in Seq(StepNames)
  <2>1. a \in Seq(StepNames)
    BY DEF StepNames
  <2> QED BY <1>0, <2>1
<1>2. Steps = a \o b
  BY DEF Steps
<1> HIDE DEF a, b
<1>3. Steps \in Seq(StepNames)
  BY <1>1, <1>2
<1> QED BY <1>3

\* Success of the setup steps is reported in neither of the two conditions
\* that checkDeployment decides.
LEMMA PassedType ==
  ASSUME TypeOK, NEW k \in 0..Len(Steps)
  PROVE  /\ Passed(k) \in [NodeSetConds -> Cond]
         /\ Passed(k)["DeploymentReady"] = cur.conds["DeploymentReady"]
         /\ Passed(k)["SetupReady"] = cur.conds["SetupReady"]
<1> DEFINE marked == {StepCond[Steps[j]] : j \in {i \in 1..k : Steps[i] # "services"}}
<1>1. cur.conds \in [NodeSetConds -> Cond]
  BY DEF TypeOK, Statuses, StatusesWith
<1>2. "DeploymentReady" \notin marked /\ "SetupReady" \notin marked
  <2>1. \A s \in StepNames \ {"services"} :
          StepCond[s] # "DeploymentReady" /\ StepCond[s] # "SetupReady"
    BY DEF StepNames, StepCond
  <2>2. \A i \in 1..k : Steps[i] \in StepNames
    BY StepsType
  <2> HIDE DEF Steps, StepCond, StepNames
  <2> QED BY <2>1, <2>2
<1>3. Passed(k) = [c \in NodeSetConds |-> IF c \in marked THEN "True" ELSE cur.conds[c]]
  BY DEF Passed
<1> HIDE DEF marked
<1>4. {"DeploymentReady", "SetupReady"} \subseteq NodeSetConds /\ "True" \in Cond
  BY DEF NodeSetConds, Cond
<1> QED BY <1>1, <1>2, <1>3, <1>4

\* An order of checkDeployment visits every Deployment that is there.
LEMMA OrderFacts ==
  ASSUME TypeInv, NEW q \in Orders
  PROVE  /\ Cardinality(Present) \in Nat
         /\ DOMAIN q = 1..Cardinality(Present)
         /\ \A i \in DOMAIN q : q[i] \in Deployments
         /\ \A d \in Deployments :
              seen[d].cond # "Absent" \/ seen[d].exists => \E i \in DOMAIN q : q[i] = d
<1> DEFINE m == Cardinality(Present)
<1>1. IsFiniteSet(Present)
  BY NodeSetAssumption, FS_Subset, Present \in SUBSET Deployments DEF Present
<1>2. m \in Nat
  BY <1>1, FS_CardinalityType
<1>3. q \in [1..m -> Present] /\ \A i, j \in 1..m : q[i] = q[j] => i = j
  BY DEF Orders
<1>4. q \in Injection(1..m, Present)
  BY <1>3 DEF Injection, IsInjective
<1>5. Cardinality(1..m) = m
  BY <1>2, FS_Interval
<1> HIDE DEF m
<1>6. q \in Surjection(1..m, Present)
  BY <1>1, <1>4, <1>5, FS_Injection DEF m
<1>7. \A d \in Deployments : seen[d].cond # "Absent" \/ seen[d].exists => d \in Present
  BY DEF TypeInv, NothingLeft, NoDeployment, Present
<1>8. \A d \in Present : \E i \in 1..m : q[i] = d
  BY <1>6 DEF Surjection
<1> QED BY <1>2, <1>3, <1>7, <1>8 DEF m, Present

LEMMA VisitedFacts ==
  ASSUME TypeInv, NEW q \in Orders
  PROVE  /\ Copied(q) # {} => q[LastOf(Copied(q))] \in Deployments
         /\ Visited(q) # {} => /\ LastOf(Visited(q)) \in DOMAIN q
                               /\ q[LastOf(Visited(q))] \in Listed
         /\ LastCond(q) \in Cond
<1>1. Visited(q) \subseteq 1..Cardinality(Present) /\ Copied(q) \subseteq Visited(q)
  BY OrderFacts DEF Visited, Copied
<1>2. Copied(q) # {} => LastOf(Copied(q)) \in Copied(q)
  BY <1>1, OrderFacts, LastOfIn
<1>3. Visited(q) # {} => LastOf(Visited(q)) \in Visited(q)
  BY <1>1, OrderFacts, LastOfIn
<1>4. \A i \in Visited(q) : i \in DOMAIN q /\ q[i] \in Listed
  BY DEF Visited
<1> HIDE DEF Visited, Copied, LastOf
<1>5. Copied(q) # {} => q[LastOf(Copied(q))] \in Deployments
  BY <1>1, <1>2, OrderFacts
<1>6. Visited(q) # {} => /\ LastOf(Visited(q)) \in DOMAIN q
                         /\ q[LastOf(Visited(q))] \in Listed
  BY <1>3, <1>4
<1>7. \A e \in Deployments : seen[e].cond \in Cond
  BY DEF TypeInv, TypeOK, DeploymentState
<1>8. LastCond(q) \in Cond
  BY <1>6, <1>7, NodeSetAssumption DEF LastCond, CondAt, Cond
<1> QED BY <1>5, <1>6, <1>8

LEMMA VerdictType ==
  ASSUME NEW q PROVE Verdict(q) \in Cond
BY DEF Verdict, Cond, FalseConds

LEMMA CheckedType ==
  ASSUME TypeInv, NEW q \in Orders
  PROVE  /\ Checked(q) \in StatusesWith(Cond)
         /\ Checked(q).conds = cur.conds
         /\ Checked(q).configHash = cur.configHash
<1> DEFINE ds == [d \in Deployments |->
                    IF \E i \in Visited(q) : q[i] = d THEN seen[d].cond ELSE "none"]
           dh == IF Copied(q) = {} THEN cur.deployedConfigHash
                 ELSE seen[q[LastOf(Copied(q))]].hash
<1>1. cur \in StatusesWith(Cond) /\ seen \in [Deployments -> DeploymentState]
  BY DEF TypeInv, TypeOK
<1>2. ds \in [Deployments -> Cond \cup {"none"}]
  BY <1>1 DEF DeploymentState
<1>3. dh \in Specs \cup {NoHash}
  BY <1>1, VisitedFacts DEF DeploymentState, Statuses, StatusesWith
<1>4. Checked(q) = [cur EXCEPT !.deploymentStatuses = ds, !.deployedConfigHash = dh]
  BY DEF Checked
<1> HIDE DEF ds, dh
<1> QED BY <1>1, <1>2, <1>3, <1>4 DEF Statuses, StatusesWith

LEMMA FaultsType ==
  ASSUME TypeOK, Fault \/ NoFault
  PROVE  faults' \in 0..MaxFaults
BY NodeSetAssumption DEF TypeOK, Fault, NoFault

LEMMA SetReadyType ==
  ASSUME TypeOK
  PROVE  /\ SetReady \in StatusesWith(Cond)
         /\ \A c \in NodeSetConds \ {"Ready"} : SetReady.conds[c] = cur.conds[c]
         /\ SetReady.configHash = cur.configHash
         /\ SetReady.deployedConfigHash = cur.deployedConfigHash
         /\ SetReady.deploymentStatuses = cur.deploymentStatuses
         /\ SetReady.observedGeneration = cur.observedGeneration
<1> DEFINE v == IF \A c \in SubConds : IsTrue(cur.conds[c]) THEN "True"
                ELSE Mirror({cur.conds[c] : c \in SubConds})
           f == [cur.conds EXCEPT !["Ready"] = v]
<1>1. v \in Cond
  BY MirrorCond DEF Cond
<1>2. cur \in StatusesWith(Cond)
  BY DEF TypeOK
<1>3. SetReady = [cur EXCEPT !.conds["Ready"] = v]
  BY DEF SetReady
<1> HIDE DEF v
<1>4. SetReady = [cur EXCEPT !.conds = f]
  BY <1>2, <1>3 DEF Statuses, StatusesWith
<1>5. /\ f \in [NodeSetConds -> Cond]
      /\ \A c \in NodeSetConds \ {"Ready"} : f[c] = cur.conds[c]
  BY <1>1, <1>2 DEF Statuses, StatusesWith
<1> HIDE DEF f
<1> QED BY <1>2, <1>4, <1>5 DEF Statuses, StatusesWith

\* Nothing that a merge patch stores in the map is a null.
LEMMA PatchedStatusesType ==
  ASSUME NEW old \in [Deployments -> (Cond \ {"Absent"}) \cup {"none"}],
         NEW new \in [Deployments -> Cond \cup {"none"}],
         NEW stored \in [Deployments -> (Cond \ {"Absent"}) \cup {"none"}]
  PROVE  PatchedStatuses(old, new, stored)
           \in [Deployments -> (Cond \ {"Absent"}) \cup {"none"}]
<1>1. \A d \in Deployments :
        (IF new[d] = "Absent" THEN "none" ELSE Merge(old[d], new[d], stored[d]))
          \in (Cond \ {"Absent"}) \cup {"none"}
  BY DEF Merge
<1> QED BY <1>1 DEF PatchedStatuses, NoStatuses

LEMMA PatchedType ==
  ASSUME NEW old \in Statuses, NEW new \in StatusesWith(Cond), NEW stored \in Statuses
  PROVE  PatchedStatus(old, new, stored) \in Statuses
<1>1. PatchedStatuses(old.deploymentStatuses, new.deploymentStatuses,
                      stored.deploymentStatuses)
        \in [Deployments -> (Cond \ {"Absent"}) \cup {"none"}]
  BY PatchedStatusesType DEF Statuses, StatusesWith
<1>2. /\ Merge(old.conds, new.conds, stored.conds) \in [NodeSetConds -> Cond]
      /\ Merge(old.configHash, new.configHash, stored.configHash) \in Specs \cup {NoHash}
      /\ Merge(old.deployedConfigHash, new.deployedConfigHash, stored.deployedConfigHash)
           \in Specs \cup {NoHash}
      /\ Merge(old.observedGeneration, new.observedGeneration, stored.observedGeneration)
           \in 0..(MaxEdits + 1)
  BY DEF Merge, Statuses, StatusesWith
<1> HIDE DEF Merge, PatchedStatuses
<1> QED BY <1>1, <1>2 DEF PatchedStatus, Statuses, StatusesWith

\* The worker's variables after a reconcile has ended.
LEMMA IdleType ==
  ASSUME Idle
  PROVE  /\ pc' = "idle" /\ read' = NoNodeSet /\ again' = FALSE
         /\ cur' \in StatusesWith(Cond) /\ ReadStored'
BY EmptyTypes DEF Idle, ReadStored

LEMMA TypeInvInit == Init => TypeInv
<1> SUFFICES ASSUME Init PROVE TypeInv
  OBVIOUS
<1>1. PICK s \in Specs : nodeSet = [spec |-> s, generation |-> 1, status |-> EmptyStatus]
  BY DEF Init
<1>2. 1 \in 1..(MaxEdits + 1) /\ 0 \in 0..(MaxEdits + 1)
      /\ 0 \in 0..MaxMoves /\ 0 \in 0..MaxFaults
  BY NodeSetAssumption
<1>3. nodeSet \in StoredNodeSet
  BY <1>1, <1>2, EmptyTypes DEF StoredNodeSet
<1>4. deployment \in [Deployments -> DeploymentState] /\ seen = deployment
  BY EmptyTypes DEF Init
<1>5. TypeOK
  BY <1>2, <1>3, <1>4, EmptyTypes DEF Init, TypeOK
<1>6. NothingLeft /\ ReadStored
  BY DEF Init, NothingLeft, ReadStored
<1> QED BY <1>5, <1>6 DEF TypeInv

\* What is left of TypeInv for a reconcile step: it changes neither the
\* Deployments nor the inputs, nor the caches.
LEMMA WorkerType ==
  ASSUME TypeInv, UNCHANGED <<nodeSet, env, caches>>,
         inventory' \in 0..(MaxEdits + 1), queued' \in BOOLEAN,
         pc' \in {"idle", "setup", "check", "patch"},
         read' \in StoredNodeSet, cur' \in StatusesWith(Cond), again' \in BOOLEAN,
         Fault \/ NoFault
  PROVE  TypeInv'
<1>1. faults' \in 0..MaxFaults
  BY FaultsType DEF TypeInv
<1>2. TypeOK'
  BY <1>1 DEF TypeInv, TypeOK, env, caches
<1>3. NothingLeft' /\ ReadStored'
  BY DEF TypeInv, NothingLeft, ReadStored, env, caches
<1> QED BY <1>2, <1>3 DEF TypeInv

LEMMA SetupType ==
  ASSUME TypeInv, Fetch \/ SetupStops \/ SetupDone
  PROVE  TypeInv'
<1> USE DEF TypeInv
<1>1. CASE Fetch
  <2>1. Fault \/ NoFault
    BY <1>1 DEF Fetch
  <2>2. read' \in StoredNodeSet /\ cur' \in StatusesWith(Cond)
    BY <1>1, ResetType DEF Fetch, TypeOK
  <2>3. /\ UNCHANGED <<nodeSet, inventory, env, caches, again>>
        /\ queued' = FALSE /\ pc' = "setup"
    BY <1>1 DEF Fetch
  <2> QED BY <2>1, <2>2, <2>3, WorkerType DEF TypeOK
<1>2. CASE SetupStops
  <2>1. PICK k \in DOMAIN Steps :
          /\ cur' = [cur EXCEPT !.conds =
                       [c \in NodeSetConds |->
                          IF c = StepCond[Steps[k]] THEN Reports(Steps[k])
                          ELSE Passed(k - 1)[c]]]
          /\ Return(StopRequeues(Steps[k]))
    BY <1>2 DEF SetupStops
  <2> DEFINE f == [c \in NodeSetConds |->
                     IF c = StepCond[Steps[k]] THEN Reports(Steps[k])
                     ELSE Passed(k - 1)[c]]
  <2>2. k - 1 \in 0..Len(Steps) /\ Steps[k] \in StepNames
    BY StepsType
  <2>3. StepCond["version"] \notin NodeSetConds
    BY DEF StepCond, NodeSetConds
  <2>4. \A c \in NodeSetConds : c = StepCond[Steps[k]] => Reports(Steps[k]) \in Cond
    BY <2>2, <2>3, ReportsType
  <2> HIDE DEF StepCond, Reports, Passed, Steps
  <2>5. f \in [NodeSetConds -> Cond]
    BY <2>2, <2>4, PassedType
  <2>6. cur' \in StatusesWith(Cond)
    <3> HIDE DEF f
    <3> QED BY <2>1, <2>5, CurConds DEF TypeOK, f
  <2>7. StopRequeues(Steps[k]) \in BOOLEAN
    BY DEF StopRequeues
  <2>8. /\ pc = "setup" /\ pc' = "patch" /\ again' = StopRequeues(Steps[k])
        /\ UNCHANGED <<nodeSet, read, env, caches, queued, inventory>> /\ NoFault
    BY <1>2, <2>1 DEF SetupStops, Return
  <2> QED BY <2>6, <2>7, <2>8, WorkerType DEF TypeOK, ReadStored
<1>3. CASE SetupDone
  <2>1. Len(Steps) \in 0..Len(Steps)
    BY StepsType
  <2>2. cur' = [cur EXCEPT !.conds = Passed(Len(Steps))]
    BY <1>3 DEF SetupDone
  <2>3. cur' \in StatusesWith(Cond)
    BY <2>1, <2>2, PassedType, CurConds DEF TypeOK
  <2>4. /\ pc = "setup" /\ pc' = "check" /\ NoFault
        /\ UNCHANGED <<nodeSet, inventory, env, caches, queued, read, again>>
    BY <1>3 DEF SetupDone
  <2> QED BY <2>3, <2>4, WorkerType DEF TypeOK, ReadStored
<1> QED BY <1>1, <1>2, <1>3

\* Two conditions are set on top of what checkDeployment copied.
LEMMA TwoConds ==
  ASSUME NEW st \in StatusesWith(Cond), NEW v \in Cond, NEW w \in Cond
  PROVE  /\ [st EXCEPT !.conds["SetupReady"] = v] \in StatusesWith(Cond)
         /\ [st EXCEPT !.conds["DeploymentReady"] = v] \in StatusesWith(Cond)
         /\ [st EXCEPT !.conds["SetupReady"] = v, !.conds["DeploymentReady"] = w]
              \in StatusesWith(Cond)
         /\ [st EXCEPT !.conds["SetupReady"] = v,
                       !.conds["DeploymentReady"] = w].conds["SetupReady"] = v
         /\ [st EXCEPT !.conds["SetupReady"] = v,
                       !.conds["DeploymentReady"] = w].conds["DeploymentReady"] = w
BY DEF Statuses, StatusesWith, NodeSetConds

LEMMA CheckType ==
  ASSUME TypeInv, CheckDeploymentError \/ InventoryError \/ CheckDeployment
  PROVE  TypeInv'
<1> USE DEF TypeInv
<1>0. read.generation \in 0..(MaxEdits + 1) \/ pc = "idle"
  BY NodeSetAssumption DEF ReadStored, StoredNodeSet
<1>c. {"Error", "True"} \subseteq Cond
  BY DEF Cond, FalseConds
<1>1. CASE CheckDeploymentError
  <2>1. cur' \in StatusesWith(Cond)
    BY <1>1, <1>c, TwoConds DEF CheckDeploymentError, TypeOK
  <2> QED BY <1>1, <2>1, WorkerType DEF CheckDeploymentError, Return, TypeOK, ReadStored
<1>2. CASE InventoryError
  <2>1. PICK q \in Orders : cur' = [Checked(q) EXCEPT !.conds["SetupReady"] = "Error"]
    BY <1>2 DEF InventoryError
  <2>2. cur' \in StatusesWith(Cond)
    BY <1>c, <2>1, CheckedType, TwoConds
  <2> QED BY <1>2, <2>2, WorkerType DEF InventoryError, Return, TypeOK, ReadStored
<1>3. CASE CheckDeployment
  <2>1. PICK q \in Orders :
          /\ cur' = [Checked(q) EXCEPT !.conds["SetupReady"] = "True",
                                       !.conds["DeploymentReady"] = Verdict(q)]
          /\ IF GeneratesInventory(q) THEN GenerateNodeSetInventory
             ELSE UNCHANGED inventory
          /\ Return(Failed(q))
    BY <1>3 DEF CheckDeployment
  <2>2. cur' \in StatusesWith(Cond)
    BY <1>c, <2>1, CheckedType, VerdictType, TwoConds
  <2>3. pc = "check" /\ NoFault
    BY <1>3 DEF CheckDeployment
  <2>4. inventory' \in 0..(MaxEdits + 1)
    BY <1>0, <2>1, <2>3 DEF GenerateNodeSetInventory, TypeOK
  <2>5. Failed(q) \in BOOLEAN
    BY DEF Failed
  <2> QED BY <2>1, <2>2, <2>3, <2>4, <2>5, WorkerType DEF Return, TypeOK, ReadStored
<1> QED BY <1>1, <1>2, <1>3

LEMMA EndType ==
  ASSUME TypeInv, PatchInstance \/ PatchInstanceError \/ Crash
  PROVE  TypeInv'
<1> USE DEF TypeInv
<1>0. Fault \/ NoFault
  BY DEF PatchInstance, PatchInstanceError, Crash
<1>1. faults' \in 0..MaxFaults
  BY <1>0, FaultsType
<1>2. /\ pc' = "idle" /\ read' = NoNodeSet /\ again' = FALSE
      /\ cur' \in StatusesWith(Cond) /\ ReadStored'
  BY IdleType DEF PatchInstance, PatchInstanceError, Crash
<1>3. CASE PatchInstance
  <2>1. read \in StoredNodeSet /\ nodeSet \in StoredNodeSet
    BY <1>3 DEF PatchInstance, ReadStored, TypeOK
  <2>2. PatchedStatus(read.status, SetReady, nodeSet.status) \in Statuses
    BY <2>1, SetReadyType, PatchedType DEF StoredNodeSet
  <2>3. nodeSet' \in StoredNodeSet
    <3>1. nodeSet' = [nodeSet EXCEPT !.status =
                         PatchedStatus(read.status, SetReady, nodeSet.status)]
      BY <1>3 DEF PatchInstance
    <3> HIDE DEF PatchedStatus, SetReady
    <3> QED BY <2>1, <2>2, <3>1 DEF StoredNodeSet
  <2>4. queued' \in BOOLEAN /\ UNCHANGED <<inventory, env, caches>>
    BY <1>3 DEF PatchInstance, TypeOK
  <2>5. TypeOK'
    BY <1>1, <1>2, <2>3, <2>4 DEF TypeOK, env, caches
  <2>6. NothingLeft'
    BY <2>4 DEF NothingLeft, env, caches
  <2> QED BY <1>2, <2>5, <2>6
<1>4. CASE PatchInstanceError
  <2>1. queued' \in BOOLEAN /\ UNCHANGED <<nodeSet, inventory, env, caches>>
    BY <1>4 DEF PatchInstanceError
  <2> QED BY <1>1, <1>2, <2>1 DEF TypeOK, NothingLeft, env, caches
<1>5. CASE Crash
  <2>1. /\ cached' = nodeSet /\ seen' = deployment /\ queued' = TRUE
        /\ UNCHANGED <<nodeSet, inventory, env>>
    BY <1>5 DEF Crash
  <2> QED BY <1>1, <1>2, <2>1 DEF TypeOK, NothingLeft, env
<1> QED BY <1>3, <1>4, <1>5

LEMMA WatchType ==
  ASSUME TypeInv, SyncNodeSet \/ SyncDeployments \/ DeploymentEvent \/ Edit
  PROVE  TypeInv'
<1> USE DEF TypeInv, TypeOK, NothingLeft, ReadStored, worker, env, caches
<1>1. CASE SyncNodeSet
  BY <1>1 DEF SyncNodeSet
<1>2. CASE SyncDeployments
  <2>1. queued' \in BOOLEAN
    BY <1>2 DEF SyncDeployments
  <2> QED BY <1>2, <2>1 DEF SyncDeployments
<1>3. CASE DeploymentEvent
  BY <1>3 DEF DeploymentEvent
<1>4. CASE Edit
  <2>1. PICK s \in Specs : nodeSet' = [nodeSet EXCEPT !.spec = s, !.generation = @ + 1]
    BY <1>4 DEF Edit
  <2>0. nodeSet.generation \in 1..(MaxEdits + 1) /\ nodeSet.generation <= MaxEdits
    BY <1>4 DEF Edit, StoredNodeSet
  <2>2. nodeSet.generation + 1 \in 1..(MaxEdits + 1)
    BY <2>0, NodeSetAssumption
  <2>3. nodeSet' \in StoredNodeSet
    BY <2>1, <2>2 DEF StoredNodeSet
  <2> QED BY <1>4, <2>3 DEF Edit
<1> QED BY <1>1, <1>2, <1>3, <1>4

\* A Deployment that is not there stays as it is when the others change.
LEMMA CompressNothingLeft ==
  ASSUME NEW f \in [Deployments -> Timed],
         \A d \in Deployments : ~f[d].exists => f[d] = NoDeployment
  PROVE  \A d \in Deployments : ~Compress(f)[d].exists => Compress(f)[d] = NoDeployment
<1> SUFFICES ASSUME NEW d \in Deployments, ~Compress(f)[d].exists
             PROVE  Compress(f)[d] = NoDeployment
  OBVIOUS
<1>1. Compress(f)[d] \in DeploymentState
  BY CompressType
<1>2. /\ Compress(f)[d].exists = f[d].exists
      /\ Compress(f)[d].cond = f[d].cond
      /\ Compress(f)[d].hash = f[d].hash
      /\ f[d].at = 0 => Compress(f)[d].at = 0
  BY CompressType
<1> HIDE DEF Compress
<1>3. f[d] = NoDeployment
  BY <1>2
<1>4. f[d].at = 0
  BY <1>3 DEF NoDeployment
<1> DEFINE r == Compress(f)[d]
<1>5. r = [exists |-> r.exists, cond |-> r.cond, hash |-> r.hash, at |-> r.at]
  <2> HIDE DEF r
  <2>1. r \in DeploymentState
    BY <1>1 DEF r
  <2> QED BY <2>1 DEF DeploymentState
<1>6. r.exists = FALSE /\ r.cond = "Absent" /\ r.hash = NoHash /\ r.at = 0
  BY <1>2, <1>3, <1>4 DEF NoDeployment
<1> QED BY <1>5, <1>6 DEF NoDeployment

LEMMA NowType ==
  ASSUME TypeOK
  PROVE  Now \subseteq Nat
<1> DEFINE T == {deployment[d].at : d \in Deployments}
<1>1. Cardinality(Deployments) \in Nat
  BY NodeSetAssumption, FS_CardinalityType
<1>2. \A d \in Deployments : deployment[d].at \in 0..Cardinality(Deployments)
  BY DEF TypeOK, DeploymentState
<1>3. T \in SUBSET Nat /\ \A t \in T : t <= Cardinality(Deployments)
  BY <1>1, <1>2
<1>4. ASSUME NEW e \in Deployments
      PROVE  \E t \in T : \A d \in Deployments : deployment[d].at <= t
  <2>1. T # {}
    BY <1>4
  <2>2. PICK t \in T : \A u \in T : u <= t
    <3> HIDE DEF T
    <3> QED BY <1>1, <1>3, <2>1, NatMaximum
  <2> QED BY <2>2
<1>5. Latest \in Nat
  <2>1. CASE \E d \in Deployments : deployment[d].at # 0
    <3>1. Latest \in T
      BY <1>4, <2>1 DEF Latest
    <3> QED BY <1>3, <3>1
  <2>2. CASE ~\E d \in Deployments : deployment[d].at # 0
    BY <2>2 DEF Latest
  <2> QED BY <2>1, <2>2
<1> HIDE DEF Latest
<1> QED BY <1>5 DEF Now

LEMMA DeploymentMoveType ==
  ASSUME TypeInv, NEW d \in Deployments, DeploymentMoves(d)
  PROVE  /\ deployment' \in [Deployments -> DeploymentState]
         /\ \A e \in Deployments : ~deployment'[e].exists => deployment'[e] = NoDeployment
         /\ UNCHANGED <<nodeSet, inventory, input, caches, queued, worker, faults>>
<1>0. /\ deployment \in [Deployments -> DeploymentState]
      /\ \A e \in Deployments : ~deployment[e].exists => deployment[e] = NoDeployment
  BY DEF TypeInv, TypeOK, NothingLeft
<1>1. Cardinality(Deployments) \in Nat
  BY NodeSetAssumption, FS_CardinalityType
<1>2. DeploymentState \subseteq Timed
  BY <1>1 DEF DeploymentState, Timed
<1>3. UNCHANGED <<nodeSet, inventory, input, caches, queued, worker, faults>>
  BY DEF DeploymentMoves, Create, Delete, DeploymentReports, DeploymentCompletes
<1>4. CASE Create(d)
  <2>1. deployment' = [deployment EXCEPT ![d].exists = TRUE]
    BY <1>4 DEF Create
  <2>2. [deployment[d] EXCEPT !.exists = TRUE] \in DeploymentState
    BY <1>0 DEF DeploymentState
  <2>3. /\ deployment' \in [Deployments -> DeploymentState]
        /\ deployment'[d].exists
        /\ \A e \in Deployments \ {d} : deployment'[e] = deployment[e]
    BY <1>0, <2>1, <2>2 DEF DeploymentState
  <2> QED BY <1>0, <1>3, <2>3
<1>5. CASE Delete(d)
  <2> DEFINE f == [deployment EXCEPT ![d] = NoDeployment]
  <2>1. f \in [Deployments -> Timed]
    BY <1>0, <1>2, EmptyTypes
  <2>2. \A e \in Deployments : ~f[e].exists => f[e] = NoDeployment
    BY <1>0
  <2>3. deployment' = Compress(f)
    BY <1>5 DEF Delete
  <2> HIDE DEF f, Compress
  <2> QED BY <1>3, <2>1, <2>2, <2>3, CompressType, CompressNothingLeft
<1>6. ASSUME NEW g \in Timed, g.exists,
             deployment' = Compress([deployment EXCEPT ![d] = g])
      PROVE  /\ deployment' \in [Deployments -> DeploymentState]
             /\ \A e \in Deployments :
                  ~deployment'[e].exists => deployment'[e] = NoDeployment
  <2> DEFINE f == [deployment EXCEPT ![d] = g]
  <2>1. f \in [Deployments -> Timed]
    BY <1>0, <1>2
  <2>2. \A e \in Deployments : ~f[e].exists => f[e] = NoDeployment
    BY <1>0, <1>6
  <2>3. deployment' = Compress(f)
    BY <1>6
  <2> HIDE DEF f, Compress
  <2> QED BY <2>1, <2>2, <2>3, CompressType, CompressNothingLeft
<1>7. /\ deployment[d] \in Timed
      /\ deployment[d].hash \in Specs \cup {NoHash} /\ deployment[d].at \in Nat
  BY <1>0, <1>2 DEF Timed
<1>8. CASE DeploymentReports(d)
  <2>1. PICK c \in {"Unknown", "Requested"} \cup Failures
                     \cup (IF d \in Shared THEN {"True"} ELSE {}),
             t \in Now \cup ({deployment[d].at} \ {0}) :
          deployment' = Compress([deployment EXCEPT ![d].cond = c, ![d].at = t])
    BY <1>8 DEF DeploymentReports
  <2>2. c \in Cond
    BY NodeSetAssumption DEF Cond, FalseConds
  <2>3. t \in Nat
    BY <1>7, NowType DEF TypeInv
  <2>4. deployment[d].exists
    BY <1>8 DEF DeploymentReports
  <2> DEFINE g == [deployment[d] EXCEPT !.cond = c, !.at = t]
  <2>5. g \in Timed /\ g.exists
    BY <1>7, <2>2, <2>3, <2>4 DEF Timed
  <2>6. [deployment EXCEPT ![d].cond = c, ![d].at = t] = [deployment EXCEPT ![d] = g]
    BY <1>0
  <2> HIDE DEF g
  <2>7. deployment' = Compress([deployment EXCEPT ![d] = g])
    BY <2>1, <2>6
  <2> QED BY <1>3, <1>6, <2>5, <2>7
<1>9. CASE DeploymentCompletes(d)
  <2>1. PICK h \in Recordable \cup {deployment[d].hash}, t \in Now :
          deployment' = Compress([deployment EXCEPT
                          ![d].cond = "True", ![d].hash = h, ![d].at = t])
    BY <1>9 DEF DeploymentCompletes
  <2>2. h \in Specs \cup {NoHash} /\ "True" \in Cond
    BY <1>7 DEF TypeInv, TypeOK, StoredNodeSet, Recordable, Cond
  <2>3. t \in Nat
    BY NowType DEF TypeInv
  <2>4. deployment[d].exists
    BY <1>9 DEF DeploymentCompletes
  <2> DEFINE g == [deployment[d] EXCEPT !.cond = "True", !.hash = h, !.at = t]
  <2>5. g \in Timed /\ g.exists
    BY <1>7, <2>2, <2>3, <2>4 DEF Timed
  <2>6. [deployment EXCEPT ![d].cond = "True", ![d].hash = h, ![d].at = t]
          = [deployment EXCEPT ![d] = g]
    BY <1>0
  <2> HIDE DEF g
  <2>7. deployment' = Compress([deployment EXCEPT ![d] = g])
    BY <2>1, <2>6
  <2> QED BY <1>3, <1>6, <2>5, <2>7
<1> QED BY <1>4, <1>5, <1>8, <1>9 DEF DeploymentMoves

LEMMA EnvironmentType ==
  ASSUME TypeInv, Move, Environment
  PROVE  TypeInv'
<1>0. moves' \in 0..MaxMoves
  BY NodeSetAssumption DEF Move, TypeInv, TypeOK
<1>1. CASE InputChange
  <2>1. /\ input' \in InputViews /\ queued' \in BOOLEAN
        /\ UNCHANGED <<nodeSet, inventory, deployment, caches, worker, faults>>
    BY <1>1 DEF InputChange, TypeInv, TypeOK
  <2> QED BY <1>0, <2>1 DEF TypeInv, TypeOK, NothingLeft, ReadStored, caches, worker
<1>2. CASE \E d \in Deployments : DeploymentMoves(d)
  <2>1. /\ deployment' \in [Deployments -> DeploymentState]
        /\ \A e \in Deployments : ~deployment'[e].exists => deployment'[e] = NoDeployment
        /\ UNCHANGED <<nodeSet, inventory, input, caches, queued, worker, faults>>
    BY <1>2, DeploymentMoveType
  <2> QED BY <1>0, <2>1 DEF TypeInv, TypeOK, NothingLeft, ReadStored, caches, worker
<1> QED BY <1>1, <1>2 DEF Environment

LEMMA TypeInvNext == TypeInv /\ [Next]_vars => TypeInv'
<1> SUFFICES ASSUME TypeInv, [Next]_vars PROVE TypeInv'
  OBVIOUS
<1>1. CASE Reconcile
  BY <1>1, SetupType, CheckType, EndType DEF Reconcile
<1>2. CASE Faults
  BY <1>2, CheckType, EndType DEF Faults
<1>3. CASE Watches \/ Edit
  BY <1>3, WatchType DEF Watches
<1>4. CASE Move /\ Environment
  BY <1>4, EnvironmentType
<1>5. CASE UNCHANGED vars
  BY <1>5 DEF TypeInv, TypeOK, NothingLeft, ReadStored, vars, env, caches, worker
<1> QED BY <1>1, <1>2, <1>3, <1>4, <1>5 DEF Next

\* The objects, caches and worker state of the NodeSet controller and of the
\* Deployments it reads keep their types, for every number of Deployments: the
\* status that Reconcile patches, the inventory it generates and the relative
\* times of the Deployments that checkDeployment sorts by.
THEOREM TypeCorrect == Spec => []TypeOK
<1>1. Spec => []TypeInv
  BY TypeInvInit, TypeInvNext, PTL DEF Spec
<1>2. TypeInv => TypeOK
  BY DEF TypeInv
<1> QED BY <1>1, <1>2, PTL

=============================================================================

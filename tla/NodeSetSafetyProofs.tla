------------------------ MODULE NodeSetSafetyProofs ------------------------
(***************************************************************************)
(* What a NodeSet controller that has nothing left to do says of the       *)
(* Deployments and of the inventory is right.                              *)
(***************************************************************************)
EXTENDS NodeSetProofs

-----------------------------------------------------------------------------
(* The inductive invariant *)

\* The cache never runs ahead of the store.
CacheBehind == cached.generation <= nodeSet.generation

\* The cached Deployments can be sorted.
SeenDated == \A d \in Deployments : d \in Listed /\ (seen[d].exists => seen[d].at # 0)

\* A Deployment that succeeded, and the newest one if that can be told.
Decides(d) ==
  /\ IsTrue(seen[d].cond)
  /\ SeenDated => \A e \in Listed : seen[e].at <= seen[d].at

\* What the conditions say holds for the cached Deployments, and for the
\* inventory when it was made from generation gen.
Justified(conds, gen) ==
  /\ IsTrue(conds["DeploymentReady"]) =>
       /\ \E d \in Listed : Decides(d)
       /\ \A d \in Listed : ~IsError(seen[d].cond)
  /\ IsTrue(conds["SetupReady"]) /\ (\A d \in Listed : ~IsFalse(seen[d].cond)) =>
       inventory = gen

\* The hash that a reconcile of obj starts from.
StartHash(obj) ==
  IF obj.spec # obj.status.deployedConfigHash THEN obj.spec ELSE obj.status.configHash

\* A reconcile that nothing has overtaken works on the cached NodeSet.
ReadCurrent ==
  pc # "idle" => /\ ~queued => read = cached
                 /\ cur.configHash = StartHash(read)

\* Before checkDeployment the two conditions are not True; afterwards they are
\* justified, unless a change came in between and has queued a request.
CurJustified ==
  /\ pc \in {"setup", "check"} => /\ ~IsTrue(cur.conds["DeploymentReady"])
                                  /\ ~IsTrue(cur.conds["SetupReady"])
  /\ pc = "patch" /\ ~queued => Justified(cur.conds, read.generation)

\* Without a request and with a cache that has caught up, the stored status is
\* what a reconcile of the stored NodeSet has come to.
StatusJustified ==
  pc = "idle" /\ ~queued /\ cached = nodeSet =>
    /\ Justified(nodeSet.status.conds, nodeSet.generation)
    /\ nodeSet.spec # nodeSet.status.deployedConfigHash =>
         nodeSet.status.configHash = nodeSet.spec

SafeInv == CacheBehind /\ ReadCurrent /\ CurJustified /\ StatusJustified

-----------------------------------------------------------------------------
(* What checkDeployment concludes *)

LEMMA ErrorsFound ==
  ASSUME TypeInv, NEW q \in Orders
  PROVE  Errors(q) = {} <=> \A d \in Listed : ~IsError(seen[d].cond)
<1>1. \A d \in Listed : d \in Deployments
  BY NodeSetAssumption
<1>2. \A d \in Listed : IsError(seen[d].cond) => seen[d].cond # "Absent"
  BY DEF IsError
<1>3. \A d \in Listed : IsError(seen[d].cond) => \E i \in DOMAIN q : q[i] = d
  BY <1>1, <1>2, OrderFacts
<1> HIDE DEF IsError
<1> QED BY <1>3 DEF Errors, CondAt

\* An order without a descent between neighbours is sorted, when every
\* Deployment has a time: after the last one that is newer than the Deployment
\* at the end, there would be a descent.
LEMMA OrderSorted ==
  ASSUME TypeInv, NEW q \in Orders, SeenDated, NEW i \in DOMAIN q
  PROVE  seen[q[i]].at <= seen[q[Cardinality(Present)]].at
<1> DEFINE m == Cardinality(Present)
           at(j) == seen[q[j]].at
           T == {j \in 1..m : at(j) > at(m)}
<1>0. m \in Nat /\ DOMAIN q = 1..m
  BY OrderFacts
<1>1. \A j \in 1..m : at(j) \in Nat /\ at(j) # 0
  <2>1. \A j \in 1..m : q[j] \in Present
    BY <1>0 DEF Orders
  <2>2. \A d \in Deployments : seen[d].at \in Nat
    BY NodeSetAssumption, FS_CardinalityType DEF TypeInv, TypeOK, DeploymentState
  <2> QED BY <2>1, <2>2 DEF Present, SeenDated
<1>2. \A j \in 1..m : j > 1 => ~(at(j) < at(j - 1))
  <2>1. \A j \in DOMAIN q : j > 1 => ~Before(q[j], q[j - 1])
    BY DEF Orders
  <2>2. \A j \in 1..m : j > 1 => j - 1 \in 1..m
    BY <1>0
  <2> QED BY <1>0, <1>1, <2>1, <2>2 DEF Before
<1> HIDE DEF at, m
<1>3. T = {}
  <2> SUFFICES ASSUME T # {} PROVE FALSE
    OBVIOUS
  <2>1. T \in SUBSET Nat /\ \A x \in T : x <= m
    BY <1>0
  <2>2. PICK k \in T : \A y \in T : y <= k
    <3> HIDE DEF T
    <3> QED BY <1>0, <2>1, NatMaximum
  <2>3. m \in 1..m /\ k \in 1..m /\ at(k) > at(m)
    BY <1>0, <2>2
  <2>4. k # m
    BY <1>1, <2>3
  <2>5. k + 1 \in 1..m /\ k + 1 > 1 /\ (k + 1) - 1 = k
    BY <1>0, <2>3, <2>4
  <2>6. k + 1 \notin T
    BY <2>2, <2>3
  <2>7. ~(at(k + 1) > at(m))
    BY <2>5, <2>6
  <2>8. ~(at(k + 1) < at(k))
    BY <1>2, <2>5
  <2> QED BY <1>1, <2>3, <2>5, <2>7, <2>8
<1>4. i \in 1..m /\ m \in 1..m
  BY <1>0
<1>5. ~(at(i) > at(m))
  BY <1>3, <1>4
<1>6. at(i) <= at(m)
  BY <1>1, <1>4, <1>5
<1> QED BY <1>6 DEF at, m

\* The verdict True has a Deployment that succeeded behind it, the newest one
\* if the order tells, and none failed.
LEMMA VerdictSound ==
  ASSUME TypeInv, NEW q \in Orders, IsTrue(Verdict(q))
  PROVE  /\ \E d \in Listed : Decides(d)
         /\ \A d \in Listed : ~IsError(seen[d].cond)
<1>1. Errors(q) = {} /\ IsTrue(LastCond(q))
  BY DEF Verdict, Failed, IsTrue
<1>2. Visited(q) # {} /\ IsTrue(seen[q[LastOf(Visited(q))]].cond)
  BY <1>1 DEF LastCond, CondAt, IsTrue
<1> DEFINE last == LastOf(Visited(q))
<1>3. last \in DOMAIN q /\ q[last] \in Listed
  BY <1>2, VisitedFacts
<1>4. ASSUME SeenDated, NEW e \in Listed
      PROVE  seen[e].at <= seen[q[last]].at
  <2> DEFINE m == Cardinality(Present)
  <2>1. m \in Nat /\ DOMAIN q = 1..m /\ \A i \in 1..m : q[i] \in Deployments
    BY OrderFacts
  <2>2. Visited(q) = 1..m
    BY <1>1, <1>4, <2>1 DEF Visited, SeenDated
  <2>3. m \in 1..m
    BY <1>3, <2>1
  <2>4. last = m
    <3>1. last \in 1..m /\ \A j \in 1..m : j <= last
      <4> HIDE DEF m
      <4>1. 1..m \in SUBSET (1..m) /\ 1..m # {}
        BY <2>3
      <4>2. LastOf(1..m) \in 1..m /\ \A j \in 1..m : j <= LastOf(1..m)
        BY <2>1, <4>1, LastOfIn
      <4> QED BY <2>2, <4>2
    <3> HIDE DEF last, m
    <3> QED BY <2>1, <2>3, <3>1
  <2>5. e \in Deployments /\ seen[q[m]].at \in Nat
    <3>1. \A d \in Deployments : seen[d].at \in Nat
      BY NodeSetAssumption, FS_CardinalityType DEF TypeInv, TypeOK, DeploymentState
    <3> QED BY <2>1, <2>3, <3>1, NodeSetAssumption
  <2>6. CASE seen[e].exists
    <3>1. PICK i \in DOMAIN q : q[i] = e
      BY <2>5, <2>6, OrderFacts
    <3>2. seen[q[i]].at <= seen[q[m]].at
      BY <1>4, OrderSorted
    <3> QED BY <2>4, <3>1, <3>2
  <2>7. CASE ~seen[e].exists
    <3>1. seen[e].at = 0
      BY <2>5, <2>7 DEF TypeInv, NothingLeft, NoDeployment
    <3>2. seen[e].at <= seen[q[m]].at
      BY <2>5, <3>1
    <3> QED BY <2>4, <3>2
  <2> QED BY <2>6, <2>7
<1>5. Decides(q[last])
  BY <1>2, <1>4 DEF Decides
<1> HIDE DEF IsTrue, Visited, LastOf, Decides
<1> QED BY <1>1, <1>3, <1>5, ErrorsFound

\* The inventory is skipped only for a Deployment that runs or has failed.
LEMMA InventorySkipped ==
  ASSUME TypeInv, NEW q \in Orders, ~GeneratesInventory(q)
  PROVE  \E d \in Listed : IsFalse(seen[d].cond)
<1>1. CASE Failed(q)
  <2>1. PICK d \in Listed : IsError(seen[d].cond)
    BY <1>1, ErrorsFound DEF Failed
  <2> QED BY <2>1 DEF IsError, IsFalse, FalseConds
<1>2. CASE Running(q)
  <2>1. Visited(q) # {} /\ IsFalse(seen[q[LastOf(Visited(q))]].cond)
    BY <1>2 DEF Running, LastCond, CondAt, IsFalse, FalseConds
  <2> HIDE DEF IsFalse, Visited, LastOf
  <2> QED BY <2>1, VisitedFacts
<1> QED BY <1>1, <1>2 DEF GeneratesInventory

-----------------------------------------------------------------------------
(* The steps *)

LEMMA SafeInvInit == Init => SafeInv
BY NodeSetAssumption DEF Init, SafeInv, CacheBehind, ReadCurrent, CurJustified, StatusJustified

\* Steps of the setup.
LEMMA SetupSafe ==
  ASSUME TypeInv, SafeInv, Fetch \/ SetupStops \/ SetupDone
  PROVE  SafeInv'
<1> USE DEF SafeInv
<1>c. /\ {"DeploymentReady", "SetupReady"} \subseteq NodeSetConds
      /\ cur \in StatusesWith(Cond)
  BY DEF NodeSetConds, TypeInv, TypeOK
<1>1. CASE Fetch
  <2>1. /\ pc' = "setup" /\ queued' = FALSE /\ read' = cached /\ cur' = Reset(cached)
        /\ UNCHANGED <<nodeSet, inventory, caches>>
    BY <1>1 DEF Fetch
  <2>2. cached \in StoredNodeSet
    BY DEF TypeInv, TypeOK
  <2>3. Reset(cached).configHash = StartHash(cached)
    BY <2>2 DEF Reset, StartHash, StoredNodeSet, Statuses, StatusesWith
  <2>4. ReadCurrent'
    BY <2>1, <2>3 DEF ReadCurrent, caches, StartHash
  <2>5. CurJustified'
    BY <2>1, <2>2, ResetType DEF CurJustified, IsTrue
  <2> QED BY <2>1, <2>4, <2>5 DEF CacheBehind, StatusJustified, caches
<1>2. CASE SetupStops
  <2>1. PICK k \in DOMAIN Steps :
          /\ ~Passes(Steps[k])
          /\ cur' = [cur EXCEPT !.conds =
                       [c \in NodeSetConds |->
                          IF c = StepCond[Steps[k]] THEN Reports(Steps[k])
                          ELSE Passed(k - 1)[c]]]
          /\ Return(StopRequeues(Steps[k]))
    BY <1>2 DEF SetupStops
  <2> DEFINE f == [c \in NodeSetConds |->
                     IF c = StepCond[Steps[k]] THEN Reports(Steps[k])
                     ELSE Passed(k - 1)[c]]
  <2>2. k - 1 \in 0..Len(Steps)
    BY StepsType
  <2>3. pc = "setup"
    BY <1>2 DEF SetupStops
  <2>4. /\ Passed(k - 1)["DeploymentReady"] = cur.conds["DeploymentReady"]
        /\ Passed(k - 1)["SetupReady"] = cur.conds["SetupReady"]
    BY <2>2, PassedType DEF TypeInv
  <2> HIDE DEF Passed, Reports, StepCond, Steps
  <2>5. ~IsTrue(f["DeploymentReady"]) /\ ~IsTrue(f["SetupReady"])
    BY <1>c, <2>1, <2>3, <2>4 DEF CurJustified, Passes, IsTrue
  <2>6. cur'.conds = f /\ cur'.configHash = cur.configHash
    <3> HIDE DEF f
    <3> QED BY <1>c, <2>1 DEF f, Statuses, StatusesWith
  <2>7. pc' = "patch" /\ UNCHANGED <<nodeSet, inventory, read, env, caches, queued>>
    BY <1>2, <2>1 DEF SetupStops, Return
  <2> HIDE DEF f
  <2>8. CurJustified'
    BY <2>5, <2>6, <2>7 DEF CurJustified, Justified
  <2> QED BY <2>3, <2>6, <2>7, <2>8
             DEF CacheBehind, ReadCurrent, StatusJustified, StartHash, caches
<1>3. CASE SetupDone
  <2>1. /\ pc = "setup" /\ pc' = "check"
        /\ cur' = [cur EXCEPT !.conds = Passed(Len(Steps))]
        /\ UNCHANGED <<nodeSet, inventory, env, caches, queued, read, again>>
    BY <1>3 DEF SetupDone
  <2>2. Len(Steps) \in 0..Len(Steps)
    BY StepsType
  <2>3. /\ Passed(Len(Steps))["DeploymentReady"] = cur.conds["DeploymentReady"]
        /\ Passed(Len(Steps))["SetupReady"] = cur.conds["SetupReady"]
    BY <2>2, PassedType DEF TypeInv
  <2>4. cur'.conds = Passed(Len(Steps)) /\ cur'.configHash = cur.configHash
    BY <1>c, <2>1 DEF Statuses, StatusesWith
  <2> HIDE DEF Passed
  <2> QED BY <2>1, <2>3, <2>4
             DEF CacheBehind, ReadCurrent, CurJustified, StatusJustified, StartHash, caches
<1> QED BY <1>1, <1>2, <1>3

\* Steps of checkDeployment and of the inventory.
LEMMA CheckSafe ==
  ASSUME TypeInv, SafeInv, CheckDeploymentError \/ InventoryError \/ CheckDeployment
  PROVE  SafeInv'
<1> USE DEF SafeInv
<1>0. /\ pc = "check" /\ pc' = "patch"
      /\ UNCHANGED <<nodeSet, read, env, caches, queued>>
  BY DEF CheckDeploymentError, InventoryError, CheckDeployment, Return
<1>1. ASSUME cur'.configHash = cur.configHash,
             Justified(cur.conds, read.generation)'
      PROVE  SafeInv'
  BY <1>0, <1>1 DEF CacheBehind, ReadCurrent, CurJustified, StatusJustified, StartHash, caches
<1>2. /\ cur \in StatusesWith(Cond)
      /\ cur.conds \in [NodeSetConds -> Cond]
      /\ ~IsTrue(cur.conds["DeploymentReady"]) /\ ~IsTrue(cur.conds["SetupReady"])
  BY <1>0 DEF TypeInv, TypeOK, Statuses, StatusesWith, CurJustified
<1>3. CASE CheckDeploymentError
  <2>1. cur' = [cur EXCEPT !.conds["DeploymentReady"] = "Error"]
    BY <1>3 DEF CheckDeploymentError
  <2>2. /\ cur'.configHash = cur.configHash
        /\ ~IsTrue(cur'.conds["DeploymentReady"]) /\ ~IsTrue(cur'.conds["SetupReady"])
    BY <1>2, <2>1 DEF Statuses, StatusesWith, NodeSetConds, IsTrue
  <2> QED BY <1>1, <2>2 DEF Justified
<1>4. CASE InventoryError
  <2>1. PICK q \in Orders : cur' = [Checked(q) EXCEPT !.conds["SetupReady"] = "Error"]
    BY <1>4 DEF InventoryError
  <2>2. /\ Checked(q) \in StatusesWith(Cond) /\ Checked(q).conds = cur.conds
        /\ Checked(q).configHash = cur.configHash
    BY CheckedType
  <2> HIDE DEF Checked
  <2>3. /\ cur'.configHash = cur.configHash
        /\ ~IsTrue(cur'.conds["DeploymentReady"]) /\ ~IsTrue(cur'.conds["SetupReady"])
    BY <1>2, <2>1, <2>2 DEF Statuses, StatusesWith, NodeSetConds, IsTrue
  <2> QED BY <1>1, <2>3 DEF Justified
<1>5. CASE CheckDeployment
  <2>1. PICK q \in Orders :
          /\ cur' = [Checked(q) EXCEPT !.conds["SetupReady"] = "True",
                                       !.conds["DeploymentReady"] = Verdict(q)]
          /\ IF GeneratesInventory(q) THEN GenerateNodeSetInventory
             ELSE UNCHANGED inventory
    BY <1>5 DEF CheckDeployment
  <2>2. /\ Checked(q) \in StatusesWith(Cond) /\ Checked(q).conds = cur.conds
        /\ Checked(q).configHash = cur.configHash
    BY CheckedType
  <2>3. cur'.conds["DeploymentReady"] = Verdict(q)
    <3> HIDE DEF Checked, Verdict
    <3> QED BY <2>1, <2>2 DEF Statuses, StatusesWith, NodeSetConds
  <2>4. cur'.configHash = cur.configHash
    BY <2>1, <2>2 DEF Statuses, StatusesWith
  <2>5. inventory' = read.generation \/ \E d \in Listed : IsFalse(seen[d].cond)
    BY <2>1, InventorySkipped DEF GenerateNodeSetInventory
  <2>6. IsTrue(Verdict(q)) => /\ \E d \in Listed : Decides(d)
                              /\ \A d \in Listed : ~IsError(seen[d].cond)
    BY VerdictSound
  <2>7. seen' = seen /\ read' = read
    BY <1>0 DEF caches
  <2> HIDE DEF Checked, Verdict
  <2>8. Justified(cur.conds, read.generation)'
    BY <2>3, <2>5, <2>6, <2>7 DEF Justified, Decides, SeenDated
  <2> QED BY <1>1, <2>4, <2>8
<1> QED BY <1>3, <1>4, <1>5

(***************************************************************************)
(* A patch that leaves the cached NodeSet equal to the stored one has      *)
(* changed nothing: the status it would have written was there already.    *)
(***************************************************************************)
LEMMA PatchedUnchanged ==
  ASSUME NEW old \in Statuses, NEW new \in StatusesWith(Cond), NEW stored \in Statuses,
         old = PatchedStatus(old, new, stored)
  PROVE  /\ new.conds = old.conds
         /\ new.configHash = old.configHash
         /\ new.deployedConfigHash = old.deployedConfigHash
<1>1. /\ old.conds = Merge(old.conds, new.conds, stored.conds)
      /\ old.configHash = Merge(old.configHash, new.configHash, stored.configHash)
      /\ old.deployedConfigHash =
           Merge(old.deployedConfigHash, new.deployedConfigHash, stored.deployedConfigHash)
  <2> DEFINE p == PatchedStatus(old, new, stored)
  <2>1. /\ p.conds = Merge(old.conds, new.conds, stored.conds)
        /\ p.configHash = Merge(old.configHash, new.configHash, stored.configHash)
        /\ p.deployedConfigHash =
             Merge(old.deployedConfigHash, new.deployedConfigHash, stored.deployedConfigHash)
    BY DEF PatchedStatus
  <2> HIDE DEF p, Merge
  <2>2. old = p
    BY DEF p
  <2> QED BY <2>1, <2>2
<1> QED BY <1>1 DEF Merge

\* The end of a reconcile.
LEMMA EndSafe ==
  ASSUME TypeInv, SafeInv, PatchInstance \/ PatchInstanceError \/ Crash
  PROVE  SafeInv'
<1> USE DEF SafeInv
<1>0. pc' = "idle"
  BY IdleType DEF PatchInstance, PatchInstanceError, Crash
<1>1. ReadCurrent' /\ CurJustified'
  BY <1>0 DEF ReadCurrent, CurJustified
<1>2. CASE PatchInstance
  <2>1. /\ nodeSet' = [nodeSet EXCEPT !.status =
                         PatchedStatus(read.status, SetReady, nodeSet.status)]
        /\ queued' = (queued \/ again)
        /\ pc = "patch" /\ UNCHANGED <<inventory, env, caches>>
    BY <1>2 DEF PatchInstance
  <2>2. /\ nodeSet \in StoredNodeSet /\ cached \in StoredNodeSet
        /\ read \in StoredNodeSet /\ cur \in StatusesWith(Cond) /\ SetReady \in StatusesWith(Cond)
    BY <2>1, SetReadyType DEF TypeInv, TypeOK, ReadStored
  <2> DEFINE st == PatchedStatus(read.status, SetReady, nodeSet.status)
  <2> HIDE DEF SetReady, st
  <2>3. /\ nodeSet'.generation = nodeSet.generation /\ nodeSet'.spec = nodeSet.spec
        /\ nodeSet'.status = st
    BY <2>1, <2>2 DEF StoredNodeSet, st
  <2>4. CacheBehind'
    BY <2>1, <2>3 DEF CacheBehind, caches
  <2>5. ASSUME ~queued', cached' = nodeSet'
        PROVE  /\ Justified(nodeSet.status.conds, nodeSet.generation)'
               /\ nodeSet'.spec # nodeSet'.status.deployedConfigHash =>
                    nodeSet'.status.configHash = nodeSet'.spec
    <3>1. ~queued /\ read = cached /\ cached' = cached
      BY <2>1, <2>5 DEF ReadCurrent, caches
    <3>2. nodeSet' = read
      BY <2>5, <3>1
    <3>3. read.status = st
      BY <2>3, <3>2
    <3>4. /\ SetReady.conds = read.status.conds
          /\ SetReady.configHash = read.status.configHash
          /\ SetReady.deployedConfigHash = read.status.deployedConfigHash
      BY <2>2, <3>3, PatchedUnchanged DEF StoredNodeSet, st
    <3>5. /\ read.status.conds["DeploymentReady"] = cur.conds["DeploymentReady"]
          /\ read.status.conds["SetupReady"] = cur.conds["SetupReady"]
          /\ read.status.configHash = cur.configHash
          /\ read.status.deployedConfigHash = cur.deployedConfigHash
      BY <3>4, SetReadyType DEF TypeInv, NodeSetConds
    <3>6. Justified(cur.conds, read.generation)
      BY <2>1, <3>1 DEF CurJustified
    <3>7. Justified(nodeSet.status.conds, nodeSet.generation)'
      BY <2>1, <3>2, <3>5, <3>6 DEF Justified, Decides, SeenDated, caches
    <3>8. read.spec # read.status.deployedConfigHash => read.status.configHash = read.spec
      BY <2>1, <3>5 DEF ReadCurrent, StartHash
    <3> QED BY <3>2, <3>7, <3>8
  <2>6. StatusJustified'
    BY <2>5 DEF StatusJustified
  <2> QED BY <1>1, <2>4, <2>6
<1>3. CASE PatchInstanceError
  <2>1. queued' = TRUE /\ UNCHANGED <<nodeSet, inventory, env, caches>>
    BY <1>3 DEF PatchInstanceError
  <2> QED BY <1>1, <2>1 DEF CacheBehind, StatusJustified, caches
<1>4. CASE Crash
  <2>1. cached' = nodeSet /\ queued' = TRUE /\ UNCHANGED nodeSet
    BY <1>4 DEF Crash
  <2>2. nodeSet.generation \in Int
    BY DEF TypeInv, TypeOK, StoredNodeSet
  <2> QED BY <1>1, <2>1, <2>2 DEF CacheBehind, StatusJustified
<1> QED BY <1>2, <1>3, <1>4

\* Changes that reach the controller through its watches: what it relies on is
\* left alone, or a request is queued.
LEMMA WatchSafe ==
  ASSUME TypeInv, SafeInv, SyncNodeSet \/ SyncDeployments \/ DeploymentEvent
  PROVE  SafeInv'
<1> USE DEF SafeInv
<1>0. nodeSet.generation \in Int
  BY DEF TypeInv, TypeOK, StoredNodeSet
<1>1. CASE SyncNodeSet \/ DeploymentEvent
  <2>1. /\ queued' = TRUE /\ UNCHANGED <<nodeSet, worker>>
        /\ cached' = nodeSet \/ cached' = cached
    BY <1>1 DEF SyncNodeSet, DeploymentEvent, caches
  <2> QED BY <1>0, <2>1 DEF CacheBehind, ReadCurrent, CurJustified, StatusJustified,
                            StartHash, worker
<1>2. CASE SyncDeployments
  <2>1. /\ seen' = deployment
        /\ queued' = (queued \/ \E d \in Listed : seen[d] # deployment[d])
        /\ UNCHANGED <<nodeSet, inventory, cached, worker>>
    BY <1>2 DEF SyncDeployments
  <2>2. ASSUME ~queued'
        PROVE  ~queued /\ \A d \in Listed : seen'[d] = seen[d]
    BY <2>1, <2>2
  <2>d. ASSUME ~queued', NEW d \in Listed, Decides(d)
        PROVE  Decides(d)'
    <3>1. SeenDated' => SeenDated
      BY <2>2, <2>d DEF SeenDated
    <3>2. \A e \in Listed : seen'[e] = seen[e]
      BY <2>2, <2>d
    <3> QED BY <2>d, <3>1, <3>2 DEF Decides
  <2>3. ASSUME ~queued', NEW conds, NEW gen, Justified(conds, gen)
        PROVE  /\ IsTrue(conds["DeploymentReady"]) =>
                    /\ \E d \in Listed : Decides(d)'
                    /\ \A d \in Listed : ~IsError(seen'[d].cond)
               /\ IsTrue(conds["SetupReady"])
                  /\ (\A d \in Listed : ~IsFalse(seen'[d].cond)) => inventory' = gen
    BY <2>1, <2>2, <2>3, <2>d DEF Justified
  <2>4. CurJustified'
    BY <2>1, <2>2, <2>3 DEF CurJustified, Justified, worker
  <2>5. StatusJustified'
    BY <2>1, <2>2, <2>3 DEF StatusJustified, Justified, worker
  <2> QED BY <2>1, <2>2, <2>4, <2>5 DEF CacheBehind, ReadCurrent, StartHash, worker
<1> QED BY <1>1, <1>2

\* Users and other controllers: an edit leaves the cache behind until a watch
\* delivers it; the rest is not read by the controller itself.
LEMMA EnvironmentSafe ==
  ASSUME TypeInv, SafeInv, Edit \/ (Move /\ Environment)
  PROVE  SafeInv'
<1> USE DEF SafeInv
<1>1. CASE Edit
  <2>1. PICK s \in Specs : nodeSet' = [nodeSet EXCEPT !.spec = s, !.generation = @ + 1]
    BY <1>1 DEF Edit
  <2>2. nodeSet \in StoredNodeSet /\ cached \in StoredNodeSet
    BY DEF TypeInv, TypeOK
  <2>3. nodeSet'.generation = nodeSet.generation + 1
    BY <2>1, <2>2 DEF StoredNodeSet
  <2>4. UNCHANGED <<inventory, caches, queued, worker>>
    BY <1>1 DEF Edit
  <2>5. nodeSet.generation \in Int /\ cached.generation \in Int
    BY <2>2 DEF StoredNodeSet
  <2>6. CacheBehind' /\ cached'.generation # nodeSet'.generation
    BY <2>3, <2>4, <2>5 DEF CacheBehind, caches
  <2> QED BY <2>4, <2>6 DEF ReadCurrent, CurJustified, StatusJustified, StartHash,
                            Justified, Decides, SeenDated, worker, caches
<1>2. CASE Environment
  <2>1. /\ UNCHANGED <<nodeSet, inventory, caches, worker>>
        /\ queued => queued'
    <3>1. CASE InputChange
      BY <3>1 DEF InputChange
    <3>2. CASE \E d \in Deployments : DeploymentMoves(d)
      BY <3>2, DeploymentMoveType
    <3> QED BY <1>2, <3>1, <3>2 DEF Environment
  <2> QED BY <2>1 DEF CacheBehind, ReadCurrent, CurJustified, StatusJustified,
                      StartHash, Justified, Decides, SeenDated, caches, worker
<1> QED BY <1>1, <1>2

LEMMA SafeInvNext == TypeInv /\ SafeInv /\ [Next]_vars => SafeInv'
<1> SUFFICES ASSUME TypeInv, SafeInv, [Next]_vars PROVE SafeInv'
  OBVIOUS
<1>1. CASE Reconcile
  BY <1>1, SetupSafe, CheckSafe, EndSafe DEF Reconcile
<1>2. CASE Faults
  BY <1>2, CheckSafe, EndSafe DEF Faults
<1>3. CASE Watches
  BY <1>3, WatchSafe DEF Watches
<1>4. CASE Edit \/ (Move /\ Environment)
  BY <1>4, EnvironmentSafe
<1>5. CASE UNCHANGED vars
  <2>1. \A d \in Listed : Decides(d)' = Decides(d)
    BY <1>5 DEF Decides, SeenDated, vars, caches
  <2> QED BY <1>5, <2>1
          DEF SafeInv, CacheBehind, ReadCurrent, CurJustified, StatusJustified,
              StartHash, Justified, vars, caches, worker
<1> QED BY <1>1, <1>2, <1>3, <1>4, <1>5 DEF Next

-----------------------------------------------------------------------------
(* Where the two conditions come from, for the composition *)

Decided == {"DeploymentReady", "SetupReady"}

\* Only checkDeployment makes one of them True in memory.
LEMMA CheckedWrites ==
  ASSUME TypeInv, [Next]_vars, ~CheckDeployment, NEW c \in Decided, IsTrue(cur'.conds[c])
  PROVE  IsTrue(cur.conds[c])
<1>0. c \in NodeSetConds /\ cur \in StatusesWith(Cond)
  BY DEF Decided, NodeSetConds, TypeInv, TypeOK
<1>1. CASE UNCHANGED cur
  BY <1>1
<1>2. CASE Idle
  BY <1>0, <1>2 DEF Idle, EmptyStatus, IsTrue
<1>3. CASE Fetch
  <2>1. cached \in StoredNodeSet /\ cur' = Reset(cached)
    BY <1>3 DEF Fetch, TypeInv, TypeOK
  <2> QED BY <2>1, ResetType DEF Decided, IsTrue
<1>4. CASE SetupStops
  <2>1. PICK k \in DOMAIN Steps :
          /\ ~Passes(Steps[k])
          /\ cur' = [cur EXCEPT !.conds =
                       [e \in NodeSetConds |->
                          IF e = StepCond[Steps[k]] THEN Reports(Steps[k])
                          ELSE Passed(k - 1)[e]]]
    BY <1>4 DEF SetupStops
  <2>2. k - 1 \in 0..Len(Steps)
    BY StepsType
  <2>3. Passed(k - 1)[c] = cur.conds[c]
    BY <2>2, PassedType DEF TypeInv, Decided
  <2> HIDE DEF Passed, Reports, StepCond, Steps
  <2> QED BY <1>0, <2>1, <2>3 DEF Statuses, StatusesWith, Passes, IsTrue
<1>5. CASE SetupDone
  <2>1. cur' = [cur EXCEPT !.conds = Passed(Len(Steps))]
    BY <1>5 DEF SetupDone
  <2>2. Len(Steps) \in 0..Len(Steps)
    BY StepsType
  <2>3. Passed(Len(Steps))[c] = cur.conds[c]
    BY <2>2, PassedType DEF TypeInv, Decided
  <2> HIDE DEF Passed
  <2> QED BY <1>0, <2>1, <2>3 DEF Statuses, StatusesWith
<1>6. CASE CheckDeploymentError
  BY <1>0, <1>6 DEF CheckDeploymentError, Statuses, StatusesWith, IsTrue
<1>7. CASE InventoryError
  <2>1. PICK q \in Orders : cur' = [Checked(q) EXCEPT !.conds["SetupReady"] = "Error"]
    BY <1>7 DEF InventoryError
  <2>2. Checked(q) \in StatusesWith(Cond) /\ Checked(q).conds = cur.conds
    BY CheckedType
  <2> HIDE DEF Checked
  <2> QED BY <1>0, <2>1, <2>2 DEF Statuses, StatusesWith, IsTrue
<1>8. CASE Move /\ Environment
  <2>1. UNCHANGED worker
    BY <1>8, DeploymentMoveType DEF Environment, InputChange
  <2> QED BY <1>1, <2>1 DEF worker
<1>9. CASE Watches \/ Edit \/ UNCHANGED vars
  BY <1>1, <1>9 DEF Watches, SyncNodeSet, SyncDeployments, DeploymentEvent, Edit,
                    vars, worker
<1> QED BY <1>2, <1>3, <1>4, <1>5, <1>6, <1>7, <1>8, <1>9
        DEF Next, Reconcile, Faults, PatchInstance, PatchInstanceError, Crash

\* A condition that is True in the stored status was so before, or comes from a
\* reconcile that ends.
LEMMA PatchWrites ==
  ASSUME TypeInv, [Next]_vars, NEW c \in Decided, IsTrue(nodeSet'.status.conds[c])
  PROVE  \/ IsTrue(nodeSet.status.conds[c])
         \/ pc = "patch" /\ IsTrue(cur.conds[c])
<1>0. c \in NodeSetConds \ {"Ready"} /\ nodeSet \in StoredNodeSet
  BY DEF Decided, NodeSetConds, TypeInv, TypeOK
<1>1. CASE UNCHANGED nodeSet
  BY <1>1
<1>2. CASE PatchInstance
  <2>1. nodeSet'.status.conds =
          Merge(read.status.conds, SetReady.conds, nodeSet.status.conds)
    BY <1>0, <1>2 DEF PatchInstance, StoredNodeSet, PatchedStatus
  <2>2. SetReady.conds[c] = cur.conds[c] /\ pc = "patch"
    BY <1>0, <1>2, SetReadyType DEF PatchInstance, TypeInv
  <2> QED BY <2>1, <2>2 DEF Merge
<1>3. CASE Edit
  <2>1. PICK s \in Specs : nodeSet' = [nodeSet EXCEPT !.spec = s, !.generation = @ + 1]
    BY <1>3 DEF Edit
  <2> QED BY <1>0, <2>1 DEF StoredNodeSet
<1>4. CASE Move /\ Environment
  <2>1. UNCHANGED nodeSet
    BY <1>4, DeploymentMoveType DEF Environment, InputChange
  <2> QED BY <1>1, <2>1
<1>5. UNCHANGED nodeSet \/ PatchInstance \/ Edit \/ (Move /\ Environment)
  BY DEF Next, Reconcile, Faults, Watches, Fetch, SetupStops, SetupDone, CheckDeployment,
         CheckDeploymentError, InventoryError, PatchInstanceError, Crash, Return,
         SyncNodeSet, SyncDeployments, DeploymentEvent, vars
<1> QED BY <1>1, <1>2, <1>3, <1>4, <1>5

\* Only checkDeployment writes the inventory, from the NodeSet that was read.
LEMMA InventoryWrites ==
  ASSUME TypeInv, [Next]_vars, inventory' # inventory
  PROVE  CheckDeployment /\ inventory' = read.generation /\ inventory' >= 1
<1>1. CheckDeployment
  <2>1. CASE Move /\ Environment
    BY <2>1 DEF Environment, InputChange, DeploymentMoves, Create, Delete,
                DeploymentReports, DeploymentCompletes
  <2>2. CASE Watches \/ Edit \/ UNCHANGED vars
    BY <2>2 DEF Watches, SyncNodeSet, SyncDeployments, DeploymentEvent, Edit, vars
  <2> QED BY <2>1, <2>2
          DEF Next, Reconcile, Faults, Fetch, SetupStops, SetupDone, PatchInstance,
              CheckDeploymentError, InventoryError, PatchInstanceError, Crash
<1>2. inventory' = read.generation /\ pc = "check"
  BY <1>1 DEF CheckDeployment, GenerateNodeSetInventory
<1>3. read \in StoredNodeSet
  BY <1>2 DEF TypeInv, ReadStored
<1> QED BY <1>1, <1>2, <1>3, NodeSetAssumption DEF StoredNodeSet

\* The cache takes over what is stored.
LEMMA CachedWrites ==
  ASSUME [Next]_vars
  PROVE  cached' \in {cached, nodeSet}
<1>1. CASE Move /\ Environment
  BY <1>1 DEF Environment, InputChange, DeploymentMoves, Create, Delete,
              DeploymentReports, DeploymentCompletes, caches
<1>2. CASE Watches \/ Edit \/ UNCHANGED vars
  BY <1>2 DEF Watches, SyncNodeSet, SyncDeployments, DeploymentEvent, Edit, vars, caches
<1> QED BY <1>1, <1>2
        DEF Next, Reconcile, Faults, Fetch, SetupStops, SetupDone, PatchInstance,
            CheckDeployment, CheckDeploymentError, InventoryError, PatchInstanceError,
            Crash, Return, caches

-----------------------------------------------------------------------------
(* The hash of the spec in the status, for the composition with Deployment *)

\* Before a status has the hash of a spec it reports nothing a Deployment waits
\* for, and no Deployment has recorded a hash.
HashFirst(st) ==
  st.configHash = NoHash =>
    ~IsTrue(st.conds["SetupReady"]) /\ st.deployedConfigHash = NoHash

\* Copies of the status are not ahead of it.
HashBehind(st) == st.configHash # NoHash => nodeSet.status.configHash # NoHash

\* Until the first edit there is one hash.
FirstHash(h) == nodeSet.generation = 1 => h \in {nodeSet.spec, NoHash}

HashInv ==
  /\ HashFirst(nodeSet.status) /\ HashFirst(cached.status) /\ HashFirst(read.status)
  /\ HashBehind(cached.status) /\ HashBehind(read.status)
  /\ pc # "idle" => cur.configHash # NoHash
  /\ FirstHash(nodeSet.status.configHash) /\ FirstHash(cached.status.configHash)
  /\ FirstHash(cur.configHash) /\ FirstHash(cached.spec)

LEMMA HashInvEmpty ==
  ASSUME pc = "idle", read = NoNodeSet, cur = EmptyStatus, cached = nodeSet,
         nodeSet.status = EmptyStatus
  PROVE  HashInv
<1>1. HashFirst(EmptyStatus)
  BY DEF HashFirst, EmptyStatus, NodeSetConds, IsTrue
<1>2. EmptyStatus.configHash = NoHash /\ NoNodeSet.status = EmptyStatus
  BY DEF EmptyStatus, NoNodeSet
<1> QED BY <1>1, <1>2 DEF HashInv, HashBehind, FirstHash

\* Between its start and its end a reconcile leaves the hash alone.
LEMMA HashUntouched ==
  ASSUME TypeInv, [Next]_vars
  PROVE  \/ Fetch \/ Idle \/ UNCHANGED <<read, pc, cur>>
         \/ pc # "idle" /\ pc' # "idle" /\ UNCHANGED read /\ cur'.configHash = cur.configHash
<1>0. cur \in StatusesWith(Cond)
  BY DEF TypeInv, TypeOK
<1>1. CASE SetupStops
  BY <1>0, <1>1 DEF SetupStops, Return, Statuses, StatusesWith
<1>2. CASE SetupDone
  BY <1>0, <1>2 DEF SetupDone, Statuses, StatusesWith
<1>3. CASE CheckDeploymentError
  BY <1>0, <1>3 DEF CheckDeploymentError, Return, Statuses, StatusesWith
<1>4. ASSUME NEW q \in Orders
      PROVE  Checked(q) \in StatusesWith(Cond) /\ Checked(q).configHash = cur.configHash
  BY <1>0, CheckedType DEF Checked, Statuses, StatusesWith
<1>5. CASE InventoryError
  <2>1. PICK q \in Orders : cur' = [Checked(q) EXCEPT !.conds["SetupReady"] = "Error"]
    BY <1>5 DEF InventoryError
  <2> HIDE DEF Checked
  <2> QED BY <1>4, <1>5, <2>1 DEF InventoryError, Return, Statuses, StatusesWith
<1>6. CASE CheckDeployment
  <2>1. PICK q \in Orders :
          cur' = [Checked(q) EXCEPT !.conds["SetupReady"] = "True",
                                    !.conds["DeploymentReady"] = Verdict(q)]
    BY <1>6 DEF CheckDeployment
  <2>2. pc = "check" /\ pc' = "patch" /\ UNCHANGED read
    BY <1>6 DEF CheckDeployment, Return
  <2> HIDE DEF Checked, Verdict
  <2> QED BY <1>4, <2>1, <2>2 DEF Statuses, StatusesWith
<1>7. CASE Move /\ Environment
  <2>1. UNCHANGED worker
    BY <1>7, DeploymentMoveType DEF Environment, InputChange
  <2> QED BY <2>1 DEF worker
<1>8. CASE Watches \/ Edit \/ UNCHANGED vars
  BY <1>8 DEF Watches, SyncNodeSet, SyncDeployments, DeploymentEvent, Edit, vars, worker
<1> QED BY <1>1, <1>2, <1>3, <1>5, <1>6, <1>7, <1>8
        DEF Next, Reconcile, Faults, PatchInstance, PatchInstanceError, Crash

\* Only an edit changes the spec, and it counts.
LEMMA SpecKept ==
  ASSUME TypeInv, [Next]_vars, ~PatchInstance
  PROVE  UNCHANGED nodeSet \/ (nodeSet'.status = nodeSet.status /\ nodeSet'.generation > 1)
<1>0. nodeSet \in StoredNodeSet
  BY DEF TypeInv, TypeOK
<1>1. CASE Edit
  <2>1. PICK s \in Specs : nodeSet' = [nodeSet EXCEPT !.spec = s, !.generation = @ + 1]
    BY <1>1 DEF Edit
  <2> QED BY <1>0, <2>1, NodeSetAssumption DEF StoredNodeSet
<1>2. CASE Move /\ Environment
  BY <1>2, DeploymentMoveType DEF Environment, InputChange
<1> QED BY <1>1, <1>2
        DEF Next, Reconcile, Faults, Watches, Fetch, SetupStops, SetupDone, CheckDeployment,
            CheckDeploymentError, InventoryError, PatchInstanceError, Crash, Return,
            SyncNodeSet, SyncDeployments, DeploymentEvent, vars

LEMMA HashInvNext == TypeInv /\ HashInv /\ [Next]_vars => HashInv'
<1> SUFFICES ASSUME TypeInv, HashInv, [Next]_vars PROVE HashInv'
  OBVIOUS
<1>0. /\ nodeSet \in StoredNodeSet /\ cached \in StoredNodeSet /\ cur \in StatusesWith(Cond)
      /\ cached' \in {cached, nodeSet}
  BY CachedWrites DEF TypeInv, TypeOK
\* The stored status and its copy in the cache.
<1>1. /\ \/ nodeSet'.spec = nodeSet.spec /\ nodeSet'.generation = nodeSet.generation
         \/ nodeSet'.generation > 1
      /\ HashFirst(nodeSet'.status)
      /\ nodeSet.status.configHash # NoHash => nodeSet'.status.configHash # NoHash
      /\ FirstHash(nodeSet.status.configHash)'
  <2>1. CASE ~PatchInstance
    BY <2>1, SpecKept DEF HashInv, FirstHash, HashFirst
  <2>2. CASE PatchInstance
    <3>1. /\ nodeSet'.spec = nodeSet.spec /\ nodeSet'.generation = nodeSet.generation
          /\ nodeSet'.status.configHash =
               Merge(read.status.configHash, SetReady.configHash, nodeSet.status.configHash)
      BY <1>0, <2>2 DEF PatchInstance, StoredNodeSet, PatchedStatus
    <3>2. SetReady.configHash = cur.configHash /\ cur.configHash # NoHash
      BY <1>0, <2>2 DEF SetReady, Statuses, StatusesWith, PatchInstance, HashInv
    <3>3. nodeSet'.status.configHash # NoHash
      BY <3>1, <3>2 DEF Merge, HashInv, HashBehind
    <3> QED BY <3>1, <3>2, <3>3 DEF Merge, HashInv, HashFirst, FirstHash
  <2> QED BY <2>1, <2>2
<1>2. /\ HashFirst(cached'.status) /\ HashBehind(cached.status)'
      /\ FirstHash(cached.status.configHash)' /\ FirstHash(cached.spec)'
  BY <1>0, <1>1 DEF HashInv, HashFirst, HashBehind, FirstHash
\* The reconcile in progress.
<1>3. CASE Fetch
  <2>1. read' = cached /\ cur' = Reset(cached) /\ UNCHANGED nodeSet
    BY <1>3 DEF Fetch
  <2>2. cur'.configHash = IF cached.spec # cached.status.deployedConfigHash
                          THEN cached.spec ELSE cached.status.configHash
    BY <1>0, <2>1 DEF Reset, StoredNodeSet, Statuses, StatusesWith
  <2>3. cached.spec # NoHash
    BY <1>0, NodeSetAssumption DEF StoredNodeSet
  <2>4. cur'.configHash # NoHash
    BY <2>2, <2>3 DEF HashInv, HashFirst
  <2> QED BY <1>1, <1>2, <2>1, <2>2, <2>4 DEF HashInv, HashBehind, HashFirst, FirstHash
<1>4. CASE Idle
  <2>1. /\ pc' = "idle" /\ cur'.configHash = NoHash /\ read'.status.configHash = NoHash
        /\ HashFirst(read'.status)
    BY <1>4 DEF Idle, EmptyStatus, NoNodeSet, HashFirst, NodeSetConds, IsTrue
  <2> QED BY <1>1, <1>2, <2>1 DEF HashInv, HashBehind, FirstHash
<1>5. ASSUME UNCHANGED read, cur'.configHash = cur.configHash, pc' # "idle" => pc # "idle"
      PROVE  HashInv'
  BY <1>1, <1>2, <1>5 DEF HashInv, HashBehind, HashFirst, FirstHash
<1> QED BY <1>3, <1>4, <1>5, HashUntouched

LEMMA Invariant == Spec => [](TypeInv /\ SafeInv)
BY TypeInvInit, TypeInvNext, SafeInvInit, SafeInvNext, PTL DEF Spec

-----------------------------------------------------------------------------
(* The properties *)

\* A NodeSet controller with nothing left to do that reports DeploymentReady
\* does so because of a success that is not older than any failure, and not
\* older than any Deployment when the sort of checkDeployment can tell them
\* apart, for any number of Deployments met in any order: the loop keeps the
\* verdict of the last one and stops at a failure, and a Deployment that
\* changes behind it is a request (deploymentWatcherFn).
THEOREM NewestShows == Spec => []NewestDecides
<1>1. ASSUME SafeInv, Settled, IsTrue(nodeSet.status.conds["DeploymentReady"])
      PROVE  \E d \in Listed :
               /\ IsTrue(deployment[d].cond)
               /\ \A e \in Listed :
                    IsError(deployment[e].cond) \/ AllDated
                      => deployment[e].at <= deployment[d].at
  <2>1. seen = deployment /\ Justified(nodeSet.status.conds, nodeSet.generation)
    BY <1>1 DEF SafeInv, StatusJustified, Settled
  <2>2. PICK d \in Listed : Decides(d)
    BY <1>1, <2>1 DEF Justified
  <2>3. \A e \in Listed : ~IsError(deployment[e].cond)
    BY <1>1, <2>1 DEF Justified
  <2>4. IsTrue(deployment[d].cond)
    BY <2>1, <2>2 DEF Decides
  <2>5. AllDated => \A e \in Listed : deployment[e].at <= deployment[d].at
    BY <2>1, <2>2 DEF Decides, SeenDated, AllDated
  <2> QED BY <2>3, <2>4, <2>5
<1>2. SafeInv => NewestDecides
  BY <1>1 DEF NewestDecides
<1> QED BY <1>2, Invariant, PTL

\* A NodeSet controller with nothing left to do that reports SetupReady has an
\* inventory of the last generation, unless one of its Deployments is running
\* or failed and Reconcile left the inventory alone.
THEOREM InventoryUpToDate == Spec => []InventoryFresh
<1>1. SafeInv => InventoryFresh
  BY DEF SafeInv, StatusJustified, Justified, InventoryFresh, Settled
<1> QED BY <1>1, Invariant, PTL

\* A spec that has not been deployed is what configHash announces once nothing
\* is left to do, although Reconcile writes only what differs from the cached
\* copy it has read.
THEOREM EditsReachStatus == Spec => []EditsVisible
<1>1. SafeInv => EditsVisible
  BY DEF SafeInv, StatusJustified, EditsVisible, Settled
<1> QED BY <1>1, Invariant, PTL

=============================================================================

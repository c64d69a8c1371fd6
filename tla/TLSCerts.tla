------------------------------ MODULE TLSCerts ------------------------------
(***************************************************************************)
(* The TLS certificates of one service on one NodeSet: EnsureTLSCerts and  *)
(* createSecretsDataStructure (pkg/deployment/cert.go), and the mounting   *)
(* of what they leave by addCertMounts (pkg/deployment/deployment.go).     *)
(*                                                                         *)
(* Every node of the NodeSet has a certificate, which cert-manager issues  *)
(* and renews.  The certificates are packed into numbered secrets of a     *)
(* bounded size; a reconcile changes at most one secret and then asks to   *)
(* be run again.  A reconcile that finds all of them as wanted goes on and *)
(* mounts them, as many as the label numberOfSecrets of the first says.    *)
(*                                                                         *)
(* Secrets are read through one informer, which delivers their changes in  *)
(* order and late: history holds the states of the secrets from the one    *)
(* the cache shows to the one the API server holds.                        *)
(***************************************************************************)
EXTENDS Naturals, Sequences, FiniteSets, SequencesExt, FiniteSetsExt, Conditions

CONSTANTS
  Nodes,         \* the names of nodes, as numbers: names are compared
  Sizes,         \* the sizes of a node's three entries (CA, certificate, key)
  SecretMaxSize, \* spec.secretMaxSize
  MaxEdits,      \* bound on the changes of spec.nodes
  MaxRenewals,   \* bound on the renewals of certificates
  MaxLag,        \* bound on how many changes the cache is behind
  MaxFaults      \* bound on the API errors and crashes

ASSUME NodesAssumption == Nodes \subseteq Nat /\ IsFiniteSet(Nodes)
ASSUME SizesAssumption == Sizes \subseteq Nat \ {0} /\ SecretMaxSize \in Nat
ASSUME BoundsAssumption ==
  MaxEdits \in Nat /\ MaxRenewals \in Nat /\ MaxLag \in Nat \ {0} /\ MaxFaults \in Nat

VARIABLES
  nodes,     \* spec.nodes of the NodeSet
  requested, \* the nodes with a Certificate object
  history,   \* the states of the secrets, from the cached to the stored one
  pending,   \* whether a Deployment of the service is not finished yet
  mounts,    \* the number of secrets it has mounted
  pc,        \* the next step of the reconcile
  todo,      \* the nodes whose certificate has not been read yet
  certsData, \* the certificates that have been read
  ci,        \* the nodes of each secret to write
  totalSize, \* the size of the last of them
  i,         \* the secret that is written next
  fresh,     \* whether the cache was up to date when the reconcile began
  edits, renewals, faults

worker == <<pc, todo, certsData, ci, totalSize, i, fresh>>
bounds == <<edits, renewals, faults>>
vars == <<nodes, requested, history, pending, mounts, worker, bounds>>

-----------------------------------------------------------------------------
(* Certificates and secrets *)

\* The certificate of a node that has none.
NoCert == [version |-> 0, size |-> 0]

Cert == [version : 1..(MaxRenewals + 1), size : Sizes]

Indices == 1..Cardinality(Nodes)

\* A secret: the certificates it holds and its label numberOfSecrets, which is
\* 0 only when the secret does not exist.
NoSecret == [data |-> [n \in Nodes |-> NoCert], number |-> 0]

Exists(secret) == secret.number > 0

Holds(secret) == {n \in Nodes : secret.data[n] # NoCert}

Cached == Head(history)
Stored == Last(history)

Store(s) == Len(history) <= MaxLag /\ history' = Append(history, s)

-----------------------------------------------------------------------------
(* The reconcile *)

Init ==
  /\ nodes \in SUBSET Nodes
  /\ requested = {}
  /\ history = <<[issued |-> [n \in Nodes |-> NoCert],
                  secrets |-> [k \in Indices |-> NoSecret]]>>
  /\ pending = TRUE
  /\ mounts = 0
  /\ pc = "idle"
  /\ todo = {}
  /\ certsData = << >>
  /\ ci = << >>
  /\ totalSize = SecretMaxSize
  /\ i = 1
  /\ fresh = FALSE
  /\ edits = 0 /\ renewals = 0 /\ faults = 0

Fault == faults < MaxFaults /\ faults' = faults + 1

\* The worker's memory between two reconciles.
Idle ==
  /\ pc' = "idle"
  /\ todo' = {} /\ certsData' = << >> /\ ci' = << >> /\ totalSize' = SecretMaxSize
  /\ i' = 1 /\ fresh' = FALSE

\* EnsureTLSCerts is called with the NodeSet as the reconcile has read it.
Begin ==
  /\ pc = "idle" /\ pending
  /\ pc' = "certs"
  /\ todo' = nodes
  /\ fresh' = (Len(history) = 1)
  /\ UNCHANGED <<nodes, requested, history, pending, mounts, certsData, ci, totalSize, i, bounds>>

\* The nodes are visited in any order; a certificate that has been issued is
\* put into certsData.
ReadCert(n) ==
  /\ pc = "certs" /\ n \in todo
  /\ Cached.issued[n] # NoCert
  /\ requested' = requested \cup {n}
  /\ todo' = todo \ {n}
  /\ certsData' = [m \in DOMAIN certsData \cup {n} |->
                     IF m = n THEN Cached.issued[n] ELSE certsData[m]]
  /\ UNCHANGED <<nodes, history, pending, mounts, pc, ci, totalSize, i, fresh, bounds>>

\* One that has not is requested, and the reconcile asks to be run again.
AwaitCert(n) ==
  /\ pc = "certs" /\ n \in todo
  /\ Cached.issued[n] = NoCert
  /\ requested' = requested \cup {n}
  /\ Idle
  /\ UNCHANGED <<nodes, history, pending, mounts, bounds>>

(***************************************************************************)
(* createSecretsDataStructure: once all have been read, the nodes are      *)
(* taken in the order of their names, each into the current secret if it   *)
(* fits and into a new one if not.  The total starts at the limit, so that *)
(* the first node begins a secret.                                         *)
(***************************************************************************)
Unpacked == DOMAIN certsData \ UNION Range(ci)

\* Defect: the size of the node that begins a secret is not counted.
CreateSecretsDataStructureUncounted ==
  /\ pc = "certs" /\ todo = {} /\ Unpacked # {}
  /\ LET n == Min(Unpacked)
         sz == certsData[n].size
     IN  IF totalSize + sz > SecretMaxSize
         THEN ci' = Append(ci, {n}) /\ totalSize' = 0
         ELSE /\ ci' = [ci EXCEPT ![Len(ci)] = @ \cup {n}]
              /\ totalSize' = totalSize + sz
  /\ UNCHANGED <<nodes, requested, history, pending, mounts, pc, todo, certsData, i, fresh, bounds>>

CreateSecretsDataStructure ==
  /\ pc = "certs" /\ todo = {} /\ Unpacked # {}
  /\ LET n == Min(Unpacked)
         sz == certsData[n].size
     IN  IF totalSize + sz > SecretMaxSize
         THEN ci' = Append(ci, {n}) /\ totalSize' = sz
         ELSE /\ ci' = [ci EXCEPT ![Len(ci)] = @ \cup {n}]
              /\ totalSize' = totalSize + sz
  /\ UNCHANGED <<nodes, requested, history, pending, mounts, pc, todo, certsData, i, fresh, bounds>>

Packed ==
  /\ pc = "certs" /\ todo = {} /\ Unpacked = {}
  /\ pc' = "write"
  /\ UNCHANGED <<nodes, requested, history, pending, mounts, todo, certsData, ci, totalSize, i,
                 fresh, bounds>>

\* The i-th secret as it should be.
Wanted ==
  [data |-> [n \in Nodes |-> IF n \in ci[i] THEN certsData[n] ELSE NoCert],
   number |-> Len(ci)]

Writing == pc = "write" /\ i <= Len(ci)

\* The cache shows the secret as it should be.
SecretUnchanged ==
  /\ Writing
  /\ Cached.secrets[i] = Wanted
  /\ i' = i + 1
  /\ UNCHANGED <<nodes, requested, history, pending, mounts, pc, todo, certsData, ci, totalSize, fresh,
                 bounds>>

\* CreateOrPatch creates a secret the cache does not show, and else patches the
\* entries in which the cached and the wanted secret differ.
Written(cached, stored) ==
  [data |-> [n \in Nodes |->
               Merge(cached.data[n], Wanted.data[n], stored.data[n])],
   number |-> Merge(cached.number, Wanted.number, stored.number)]

\* Defect: after a write the reconcile goes on instead of running again.
WriteSecretNoRequeue ==
  /\ Writing
  /\ Cached.secrets[i] # Wanted
  /\ Exists(Cached.secrets[i]) \/ ~Exists(Stored.secrets[i])
  /\ Store([Stored EXCEPT !.secrets[i] = Written(Cached.secrets[i], @)])
  /\ pc' = "mount"
  /\ UNCHANGED <<nodes, requested, pending, mounts, todo, certsData, ci, totalSize, i, fresh,
                 bounds>>

WriteSecret ==
  /\ Writing
  /\ Cached.secrets[i] # Wanted
  /\ Exists(Cached.secrets[i]) \/ ~Exists(Stored.secrets[i])
  /\ Store([Stored EXCEPT !.secrets[i] = Written(Cached.secrets[i], @)])
  /\ Idle
  /\ UNCHANGED <<nodes, requested, pending, mounts, bounds>>

\* A secret that exists and is not in the cache yet cannot be created.
\* Defect: the error of a creation is not returned, and the Deployment ends.
AlreadyExistsLost ==
  /\ Writing
  /\ ~Exists(Cached.secrets[i]) /\ Exists(Stored.secrets[i])
  /\ pending' = FALSE
  /\ Idle
  /\ UNCHANGED <<nodes, requested, history, mounts, bounds>>

AlreadyExists ==
  /\ Writing
  /\ ~Exists(Cached.secrets[i]) /\ Exists(Stored.secrets[i])
  /\ Idle
  /\ UNCHANGED <<nodes, requested, history, pending, mounts, bounds>>

Ensured ==
  /\ pc = "write" /\ i > Len(ci)
  /\ pc' = "mount"
  /\ UNCHANGED <<nodes, requested, history, pending, mounts, todo, certsData, ci, totalSize, i,
                 fresh, bounds>>

\* addCertMounts mounts as many secrets as the label of the first one says.
Mountable ==
  LET s == Cached.secrets
  IN  1 \in Indices /\ Exists(s[1]) /\ \A k \in 1..s[1].number : Exists(s[k])

\* Defect: the loop over the secrets makes one more turn.
AddCertMountsOneMore ==
  /\ pc = "mount"
  /\ Mountable
  /\ mounts' = Cached.secrets[1].number + 1
  /\ pending' = FALSE
  /\ Idle
  /\ UNCHANGED <<nodes, requested, history, bounds>>

AddCertMounts ==
  /\ pc = "mount"
  /\ Mountable
  /\ mounts' = Cached.secrets[1].number
  /\ pending' = FALSE
  /\ Idle
  /\ UNCHANGED <<nodes, requested, history, bounds>>

\* A secret is not found: the error is returned.
AddCertMountsError ==
  /\ pc = "mount"
  /\ ~Mountable
  /\ Idle
  /\ UNCHANGED <<nodes, requested, history, pending, mounts, bounds>>

\* Any call of a reconcile may fail; the error makes it run again.
CallError ==
  /\ pc # "idle"
  /\ Fault
  /\ Idle
  /\ UNCHANGED <<nodes, requested, history, pending, mounts, edits, renewals>>

Crash ==
  /\ Fault
  /\ Idle
  /\ history' = <<Stored>>
  /\ UNCHANGED <<nodes, requested, pending, mounts, edits, renewals>>

-----------------------------------------------------------------------------
(* cert-manager, the cache and the users *)

\* A requested certificate is issued.
Issue(n) ==
  /\ n \in requested
  /\ Stored.issued[n] = NoCert
  /\ \E z \in Sizes :
       Store([Stored EXCEPT !.issued[n] = [version |-> 1, size |-> z]])
  /\ UNCHANGED <<nodes, requested, pending, mounts, worker, bounds>>

\* A certificate is renewed; the new one may have another size.
Renew(n) ==
  /\ renewals < MaxRenewals
  /\ Stored.issued[n] # NoCert
  /\ \E z \in Sizes :
       Store([Stored EXCEPT !.issued[n] =
                [version |-> @.version + 1, size |-> z]])
  /\ renewals' = renewals + 1
  /\ UNCHANGED <<nodes, requested, pending, mounts, worker, edits, faults>>

Sync ==
  /\ Len(history) > 1
  /\ history' = Tail(history)
  /\ UNCHANGED <<nodes, requested, pending, mounts, worker, bounds>>

\* Nodes are added to and removed from the NodeSet.
Edit ==
  /\ edits < MaxEdits
  /\ \E s \in SUBSET Nodes : s # nodes /\ nodes' = s
  /\ edits' = edits + 1
  /\ UNCHANGED <<requested, history, pending, mounts, worker, renewals, faults>>

\* Another Deployment of the service is created.
NewDeployment ==
  /\ ~pending
  /\ pending' = TRUE
  /\ mounts' = 0
  /\ UNCHANGED <<nodes, requested, history, worker, bounds>>

Reconcile ==
  \/ Begin \/ CreateSecretsDataStructure \/ Packed
  \/ SecretUnchanged \/ WriteSecret \/ AlreadyExists \/ Ensured
  \/ AddCertMounts \/ AddCertMountsError
  \/ \E n \in Nodes : ReadCert(n) \/ AwaitCert(n)

Next ==
  \/ Reconcile \/ CallError \/ Crash
  \/ Sync \/ Edit \/ NewDeployment
  \/ \E n \in Nodes : Issue(n) \/ Renew(n)

Spec == Init /\ [][Next]_vars

\* An error or a requeue brings the reconcile back, the informer delivers, and
\* cert-manager issues what is requested.
Fairness ==
  /\ WF_vars(Reconcile)
  /\ WF_vars(Sync)
  /\ \A n \in Nodes : WF_vars(Issue(n))

FairSpec == Spec /\ Fairness

-----------------------------------------------------------------------------
(* Properties *)

Secret == [data : [Nodes -> Cert \cup {NoCert}], number : 0..Cardinality(Nodes)]

Snapshot == [issued : [Nodes -> Cert \cup {NoCert}], secrets : [Indices -> Secret]]

\* Every variable keeps its type.
TypeOK ==
  /\ nodes \subseteq Nodes /\ requested \subseteq Nodes /\ todo \subseteq Nodes
  /\ history \in Seq(Snapshot)
  /\ Len(history) \in 1..(MaxLag + 1)
  /\ pending \in BOOLEAN
  /\ mounts \in 0..Cardinality(Nodes)
  /\ pc \in {"idle", "certs", "write", "mount"}
  /\ DOMAIN certsData \subseteq Nodes
  /\ \A n \in DOMAIN certsData : certsData[n] \in Cert
  /\ ci \in Seq(SUBSET Nodes)
  /\ totalSize \in Nat
  /\ i \in 1..(Len(ci) + 1)
  /\ fresh \in BOOLEAN
  /\ edits \in 0..MaxEdits /\ renewals \in 0..MaxRenewals /\ faults \in 0..MaxFaults

\* The size of the certificates of a set of nodes.
TotalSize(s) ==
  LET Sum[t \in SUBSET DOMAIN certsData] ==
        IF t = {} THEN 0 ELSE Sum[t \ {Max(t)}] + certsData[Max(t)].size
  IN  Sum[s]

(***************************************************************************)
(* What the packing promises, without saying how it is done: each node's   *)
(* three entries are in one secret and in one only, no secret is larger    *)
(* than spec.secretMaxSize unless it holds a single node, and no secret    *)
(* was begun while the first node it holds still fitted into the one       *)
(* before (createSecretsDataStructure).                                    *)
(***************************************************************************)
PackingSound ==
  pc \in {"write", "mount"} =>
    /\ UNION Range(ci) = DOMAIN certsData
    /\ \A j, k \in DOMAIN ci : j < k => \A a \in ci[j], b \in ci[k] : a < b
    /\ \A k \in DOMAIN ci :
         /\ ci[k] # {}
         /\ TotalSize(ci[k]) <= SecretMaxSize \/ Cardinality(ci[k]) = 1
         /\ k > 1 => TotalSize(ci[k - 1] \cup {Min(ci[k])}) > SecretMaxSize

(***************************************************************************)
(* When a reconcile that began with an up to date cache mounts the         *)
(* secrets, they hold the certificate of every node as this reconcile has  *)
(* read it, of no other node, and of none twice, whatever earlier          *)
(* reconciles, node lists and packings left behind and wherever they       *)
(* stopped (EnsureTLSCerts, addCertMounts).  With a cache that is behind,  *)
(* a secret that is to become again what the cache still shows passes for  *)
(* written.                                                                *)
(***************************************************************************)
MountsAll ==
  fresh /\ mounts = 0 /\ mounts' > 0 /\ DOMAIN certsData # {} =>
    /\ \A n \in Nodes :
         {Stored.secrets[k].data[n] : k \in 1..mounts'} \ {NoCert}
           = IF n \in DOMAIN certsData THEN {certsData[n]} ELSE {}
    /\ \A j, k \in 1..mounts' :
         j # k => Holds(Stored.secrets[j]) \cap Holds(Stored.secrets[k]) = {}

MountsComplete == [][MountsAll]_vars

(***************************************************************************)
(* A Deployment gets its certificates mounted once its NodeSet has nodes,  *)
(* although every write ends the reconcile, a lagging cache makes it write *)
(* again or fail, and renewals repack (EnsureTLSCerts).                    *)
(***************************************************************************)
CertsSettle == <>[](nodes # {}) => []<>(mounts > 0)

=============================================================================

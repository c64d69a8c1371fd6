------------------------------ MODULE Rollout ------------------------------
(***************************************************************************)
(* What a Deployment promises, without controllers, caches or conditions:  *)
(* on each NodeSet the services of a list are executed one after the       *)
(* other, each one only after those before it have succeeded; when every   *)
(* NodeSet has got through a list, the Deployment is deployed; nothing     *)
(* that has succeeded or is deployed is ever taken back.                   *)
(*                                                                         *)
(* The list of a NodeSet is chosen anew at every step, because the users   *)
(* may edit it between two reconciles.                                     *)
(***************************************************************************)
EXTENDS Naturals, Sequences

CONSTANTS
  Deployments, NodeSets, Services,
  NamedNodeSets,   \* the NodeSets that each Deployment names
  Lists            \* the lists of services each may be asked to execute

VARIABLES
  started,    \* the executions <<service, deployment, NodeSet>> that exist
  succeeded,  \* those that have succeeded
  deployed    \* the Deployments that are deployed

vars == <<started, succeeded, deployed>>

Init == started = {} /\ succeeded = {} /\ deployed = {}

\* The services of list l before position i have succeeded.
Through(d, n, l, i) == \A j \in 1..(i - 1) : <<l[j], d, n>> \in succeeded

Start(d, n) ==
  \E l \in Lists[d] : \E i \in DOMAIN l :
    /\ Through(d, n, l, i)
    /\ started' = started \cup {<<l[i], d, n>>}
    /\ UNCHANGED <<succeeded, deployed>>

Succeed(e) ==
  /\ e \in started
  /\ succeeded' = succeeded \cup {e}
  /\ UNCHANGED <<started, deployed>>

Complete(d) ==
  /\ \A n \in NamedNodeSets[d] : \E l \in Lists[d] : Through(d, n, l, Len(l) + 1)
  /\ deployed' = deployed \cup {d}
  /\ UNCHANGED <<started, succeeded>>

Next ==
  \/ \E d \in Deployments, n \in NodeSets : Start(d, n)
  \/ \E e \in started : Succeed(e)
  \/ \E d \in Deployments : Complete(d)

Spec == Init /\ [][Next]_vars

=============================================================================

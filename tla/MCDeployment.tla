---------------------------- MODULE MCDeployment ----------------------------
(***************************************************************************)
(* Small instances of Deployment for TLC: the values of its constants.     *)
(***************************************************************************)
EXTENDS Deployment, TLC

CONSTANTS d1, n1, n2, s1, s2, h1, h2

View(ready, services, hash) ==
  [found |-> TRUE, setupReady |-> ready, services |-> services, configHash |-> hash]

MissingNodeSet ==
  [found |-> FALSE, setupReady |-> FALSE, services |-> << >>, configHash |-> h1]

\* spec.nodeSets
MCOneNodeSet == d1 :> <<n1>>
MCTwoNodeSets == d1 :> <<n1, n2>>
MCNodeSetTwice == d1 :> <<n1, n1>>

\* spec.servicesOverride
MCNoOverride == d1 :> << >>
MCOverride == d1 :> <<s1>>

\* What a NodeSet may look like.
MCFixed == {View(TRUE, <<s1, s2>>, h1)}
MCOneService == {View(TRUE, <<s1>>, h1)}
MCSetup ==
  {View(TRUE, <<s1, s2>>, h1), View(TRUE, <<s1, s2, s2>>, h1), MissingNodeSet}
MCReordered == {View(TRUE, <<s1, s2>>, h1), View(TRUE, <<s2, s1>>, h2)}

\* Every service uses its own certificates, or s2 those of s1.
MCOwnCerts == [s \in Services |-> s]
MCSharedCerts == s1 :> s1 @@ s2 :> s1

\* No service has a name that is cut.
MCFullNames == [s \in Services |-> s]

\* Condition types of the services.  strcase.ToCamel drops '-' and '.' and
\* starts a word after a digit: the services "net-1" and "net1" share a type.
MCDistinctTypes == s1 :> "ServiceS1DeploymentReady" @@ s2 :> "ServiceS2DeploymentReady"
MCOneType == s1 :> "ServiceS1DeploymentReady"
MCSharedTypes == s1 :> "ServiceNet1DeploymentReady" @@ s2 :> "ServiceNet1DeploymentReady"

\* One fault, or retries of the job of one execution.
MCRetryOrFault ==
  faults + Cardinality({x \in ExecutionNames : aee[x].retries > 0}) <= 1

=============================================================================

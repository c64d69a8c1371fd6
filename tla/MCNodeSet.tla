----------------------------- MODULE MCNodeSet -----------------------------
(***************************************************************************)
(* Small instances of NodeSet for TLC: what its inputs may look like.      *)
(***************************************************************************)
EXTENDS NodeSet, TLC

AllReady == [s \in StepNames |-> "ready"]

With(s, state) == [AllReady EXCEPT ![s] = state]

\* The inputs are there from the start.
MCReady == {AllReady}

\* Each step in turn is where the setup stops, in each way it can.
MCAnyStep ==
  {AllReady, With("ipsets", "new"), With("ipsets", "waiting"), With("dns", "waiting"),
   With("ssh", "waiting"), With("sa", "waiting"), With("baremetal", "waiting")}
     \cup {With(s, "failing") : s \in StepNames}

\* A Deployment that was just created, when there is no other.
FirstCreated ==
  \E d \in Deployments : deployment = [x \in Deployments |->
    [NoDeployment EXCEPT !.exists = (x = d)]]

\* The setup with an edit or a fault and no Deployment, or two Deployments when
\* the setup has nothing to wait for.  One spec is the first as well as another.
MCSetupOrDeployments ==
  /\ nodeSet.generation = 1 => nodeSet.spec = CHOOSE s \in Specs : TRUE
  /\ IF \A d \in Deployments : ~deployment[d].exists /\ ~seen[d].exists
     THEN moves <= 2 /\ (nodeSet.generation - 1) + faults <= 1
     ELSE /\ input = AllReady /\ nodeSet.generation = 1 /\ faults = 0
          /\ FirstCreated => moves = 1

\* Deployments that only their names tell apart.
MCSymmetry == Permutations(Deployments)

=============================================================================

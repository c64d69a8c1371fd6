---------------------------- MODULE MCDataPlane ----------------------------
(***************************************************************************)
(* Small instances of DataPlane for TLC.                                   *)
(***************************************************************************)
EXTENDS DataPlane, TLC

CONSTANT s1

\* The names of the setup steps are those of NodeSet's StepNames.
AllReady ==
  [s \in {"services", "ipsets", "dns", "ssh", "sa", "version", "baremetal"} |-> "ready"]

MCReady == {AllReady}

\* The IP sets may become unready again.
MCUnready == {AllReady, [AllReady EXCEPT !["ipsets"] = "waiting"]}

MCServiceList == <<s1>>

\* Where no property is about them, what is recorded only for the properties does
\* not tell states apart.
MCView == <<deploymentVars, nodeSetVars, faults>>

\* An edit or a fault, not both.
MCOneDisturbance == (object.generation - 1) + faults <= 1

\* Specs that only their names tell apart.
MCSymmetry == Permutations(Specs)

=============================================================================

---------------------------- MODULE MCReplication ----------------------------
(***************************************************************************)
(* Instances of Replication for TLC.                                       *)
(***************************************************************************)
EXTENDS Replication

CONSTANTS p1, p2, r1, r2, A, B

TwoTasks == {p1, p2}
TwoReplicas == {r1, r2}
TwoSymbols == {A, B}
OneTimestamp == {1}
\* The first symbol to be written is A, without loss of generality.
TwoTicks == << {<< A, 1 >>}, {<< A, 1 >>, << B, 1 >>} >>
\* Two replicas that are pushed to one after the other, a page holding one
\* record; one replica and pushes that overlap, a page holding two.
BothDeployments ==
    { [replicas |-> {r1, r2}, urls |-> << r1, r2 >>, limit |-> 1, tasks |-> {p1}],
      [replicas |-> {r1}, urls |-> << r1 >>, limit |-> 2, tasks |-> {p1, p2}] }
=============================================================================

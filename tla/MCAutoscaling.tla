--------------------------- MODULE MCAutoscaling ---------------------------
(* Instances of Autoscaling for TLC.                                       *)
EXTENDS Autoscaling, TLC

CONSTANTS a,   \* the identity of the target
          svc, \* the service-linked role
          cpu  \* a metric

ATarget ==
  {[id |-> a, cap |-> 1, role |-> Nil, ref |-> Nil, susp |-> Nil]}

APolicy ==
  {[type |-> "track", step |-> Nil,
    track |-> [num |-> 2, list |-> <<>>, other |-> cpu]]}

NoLists == {<<>>}

Still == [aws |-> 0, controller |-> 0]
===========================================================================

------------------------- MODULE MCScalableTarget -------------------------
(* Instances of ScalableTarget for TLC.                                    *)
EXTENDS ScalableTarget, TLC

CONSTANTS a, b,   \* identities
          svc, r1 \* role ARNs: the service-linked role, the Role CR's

On  == [f \in Flags |-> TRUE]
Undecided == [f \in Flags |-> Nil]

S(i, cap, role, ref, susp) ==
  [id |-> i, cap |-> cap, role |-> role, ref |-> ref, susp |-> susp]

(* Every field set and unset, a reference with and without a "from", an    *)
(* int64 capacity that is no int32.                                        *)
VariedSpecs == {S(a, 1, Nil, Nil, Nil),
                S(a, 2, Nil, "named", On),
                S(a, Nil, r1, Nil, Undecided),
                S(a, 1, Nil, "empty", Nil),
                S(a, 9, Nil, Nil, Nil)}

(* Specs on which a reconcile can come to rest: with an unset capacity or  *)
(* an empty RoleRef every reconcile finds a delta and registers again.     *)
SettledSpecs == {S(a, 1, Nil, Nil, Undecided), S(a, 2, Nil, "named", On)}

RenamedSpecs == {S(a, 1, Nil, Nil, Nil), S(b, 1, Nil, Nil, Nil)}

RoleLifecycle == {Nil,
                  [terminal |-> FALSE, synced |-> FALSE, arn |-> Nil],
                  [terminal |-> FALSE, synced |-> TRUE, arn |-> r1]}

Suspended == {S(a, 3, r1, Nil, On)}

(* Which clocks tick.                                                      *)
Still == [c \in ClockNames |-> 0]
OwnClock == [aws |-> 0, controller |-> 1]
BothClocks == [c \in ClockNames |-> 1]
===========================================================================

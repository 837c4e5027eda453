-------------------------- MODULE MCScalingPolicy -------------------------
(* Instances of ScalingPolicy for TLC.                                     *)
EXTENDS ScalingPolicy, TLC

CONSTANTS x, y,   \* elements of slices
          cpu, io \* values of the other leaves: metrics

C(num, list, other) == [num |-> num, list |-> list, other |-> other]
S(type, step, track) == [type |-> type, step |-> step, track |-> track]

MCLists == {<<>>, <<x>>, <<y>>}

(* Either type, leaves set and unset, an int64 that is no int32, slices of *)
(* equal length, sections of both types.                                   *)
VariedSpecs ==
  {S("step", C(1, <<x>>, cpu), Nil),
   S("step", C(1, <<y>>, cpu), Nil),
   S("track", Nil, C(Nil, <<>>, io)),
   S("track", Nil, C(9, Nil, Nil)),
   S(Nil, Nil, C(2, Nil, cpu)),
   S("track", C(1, Nil, cpu), C(1, Nil, cpu))}

(* Specs on which a reconcile can come to rest: with a leaf unset that AWS *)
(* fills in, every reconcile finds a delta and puts the policy again.      *)
SettledSpecs ==
  {S("step", C(1, <<x>>, cpu), Nil), S("track", Nil, C(2, <<>>, io))}

Drifted == {S("track", Nil, C(2, <<y>>, cpu))}

(* Which clocks tick.                                                      *)
Still == [c \in ClockNames |-> 0]
BothClocks == [c \in ClockNames |-> 1]
===========================================================================

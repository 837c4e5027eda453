----------------------- MODULE ScalingPolicyResource ----------------------
(* The data of the ScalingPolicy resource manager and the functions that   *)
(* transform it: what sdkFind makes of a Describe answer, how a delta is   *)
(* computed, what PutScalingPolicy is sent and what is kept of its answer. *)
(*                                                                         *)
(* A policy is named by policyName, resourceID, scalableDimension and      *)
(* serviceNamespace, which the CRD requires and no function here changes;  *)
(* they are left out.  Of a configuration, num stands for its int32 leaves *)
(* (cooldowns, adjustments), list for its slice (StepAdjustments, the      *)
(* Dimensions of a customized metric), other for the remaining pointers.   *)
EXTENDS AckResource, Sequences

CONSTANTS Numbers,     \* numbers a user may write (int64)
          Lists,       \* slices a user may write, the empty one included
          Others,      \* values of the other leaves
          DefaultOther \* what AWS fills in for one that is left out, or Nil

Types == {"step", "track"}

Configs == [num : Opt(Numbers), list : Opt(Lists), other : Opt(Others)]

Specs == [type : Opt(Types), step : Opt(Configs), track : Opt(Configs)]

(* CloudWatch alarms are told apart by the metric they watch.              *)
Alarms == Opt(Others)

Statuses == [alarms : Alarms, ctime : Opt(Times), lmt : Opt(Stamps),
             conds : Conditions]

NoStatus == [alarms |-> Nil, ctime |-> Nil, lmt |-> Nil, conds |-> NoConditions]

Resources == [spec : Specs, status : Statuses]

(* A policy as DescribeScalingPolicies returns it: one configuration, the  *)
(* one of its type, and no empty slice.                                    *)
StoredConfigs == {c \in Configs : c.list # <<>> /\ (c.num = Nil \/ FitsInt32(c.num))}
Policies == [type : Types, config : StoredConfigs, alarms : Alarms, ctime : Times]

ASSUME PolicyResourceAssumption ==
  /\ Numbers \subseteq Int
  /\ <<>> \in Lists
  /\ DefaultOther \in Opt(Others)
  /\ Nil \notin Lists \cup Others \cup Types \cup Configs \cup Policies \cup Resources

---------------------------------------------------------------------------
(* sdkFind and the payloads.                                               *)

(* The observed resource: the spec of the first policy in the answer, the  *)
(* rest from the resource that was asked for.  Nil is ackerr.NotFound.     *)
SdkFind(r, p) ==
  IF p = Nil THEN Nil
  ELSE [spec   |-> [type  |-> p.type,
                    step  |-> IF p.type = "step" THEN p.config ELSE Nil,
                    track |-> IF p.type = "track" THEN p.config ELSE Nil],
        status |-> CustomSetLastModifiedTimeToCreationTime(
                     [r.status EXCEPT !.alarms = p.alarms, !.ctime = p.ctime])]

\* only the numbers of the first section checked
StepRangeCheck(s) == s.step # Nil /\ s.step.num # Nil => FitsInt32(s.step.num)

(* The payload is refused before any call if a number is no int32.         *)
PayloadOK(s) ==
  \A k \in Types : s[k] # Nil /\ s[k].num # Nil => FitsInt32(s[k].num)

\* the slice left out of the payload
PayloadWithoutList(s) ==
  [s EXCEPT !.step  = IF @ = Nil THEN Nil ELSE [@ EXCEPT !.list = Nil],
            !.track = IF @ = Nil THEN Nil ELSE [@ EXCEPT !.list = Nil]]

(* The type and both sections, as the spec has them.                       *)
Payload(s) == [type |-> s.type, step |-> s.step, track |-> s.track]

(* PutScalingPolicy needs a registered target, a type and a configuration  *)
(* of that type and no other; what it is not told it keeps.                *)
TypeAfter(p, input) == IF input.type # Nil \/ p = Nil THEN input.type ELSE p.type

Accepted(registered, p, input) ==
  LET type == TypeAfter(p, input)
  IN  /\ registered
      /\ type # Nil
      /\ \A k \in Types \ {type} : input[k] = Nil
      /\ input[type] # Nil \/ (p # Nil /\ p.type = type)

(* A configuration that is given replaces the stored one; target tracking  *)
(* makes its own alarms.                                                   *)
Stored(config) ==
  [config EXCEPT !.list  = IF @ = <<>> THEN Nil ELSE @,
                 !.other = IF @ = Nil THEN DefaultOther ELSE @]

PutPolicy(p, input, time) ==
  LET type   == TypeAfter(p, input)
      config == IF input[type] # Nil THEN Stored(input[type]) ELSE p.config
  IN  [type   |-> type,
       config |-> config,
       alarms |-> IF type = "track" THEN config.other ELSE Nil,
       ctime  |-> IF p = Nil THEN time ELSE p.ctime]

(* What Create and Update keep of the answer: its alarms.                  *)
SdkCreated(desired, p) == [desired EXCEPT !.status.alarms = p.alarms]

\* the alarms of the answer dropped
UpdatedWithoutAlarms(desired, p, clocks) ==
  [desired EXCEPT !.status.lmt = Stamp(clocks, "controller")]

(* customSetLastModifiedTimeToCurrentTime reads the controller's clock.    *)
SdkUpdated(desired, p, clocks) ==
  [desired EXCEPT !.status.alarms = p.alarms,
                  !.status.lmt = Stamp(clocks, "controller")]

---------------------------------------------------------------------------
(* Delta.                                                                  *)

\* slices compared by their length only
SameLength(x, y) ==
  (IF x = Nil THEN 0 ELSE Len(x)) = (IF y = Nil THEN 0 ELSE Len(y))

\* a missing slice told apart from an empty one
SameOrBothNil(x, y) == x = y

(* Slices differ if their lengths do, or else their elements: a missing    *)
(* slice is an empty one.                                                  *)
SameList(x, y) == x = y \/ {x, y} = {Nil, <<>>}

(* Every other leaf, and a section as a whole, differs when one is nil and *)
(* the other is not.                                                       *)
SameConfig(x, y) ==
  IF x = Nil \/ y = Nil THEN x = y
  ELSE x.num = y.num /\ x.other = y.other /\ SameList(x.list, y.list)

NewResourceDelta(a, b) ==
  {k \in Types : ~SameConfig(a[k], b[k])} \cup
  (IF a.type # b.type THEN {"type"} ELSE {})
===========================================================================

---------------------- MODULE ScalableTargetResource ----------------------
(* The data of the ScalableTarget resource manager and the functions that  *)
(* transform it: what sdkFind makes of a Describe answer, how a delta is   *)
(* computed, what Register is sent, how late initialization and references *)
(* are worked out.                                                         *)
(*                                                                         *)
(* id stands for resourceID + scalableDimension + serviceNamespace, which  *)
(* the CRD requires; cap for the pair minCapacity/maxCapacity, which every *)
(* function treats alike; a SuspendedState is a function on Flags.         *)
EXTENDS AckResource

CONSTANTS Ids,          \* identities of scalable targets
          Caps,         \* capacities a user may write (int64)
          Roles,        \* role ARNs
          ServiceRole,  \* the service-linked role AWS fills in
          Flags         \* the flags of SuspendedState

(* RoleRef: absent, without a "from", naming nothing, or naming a Role CR. *)
Refs == Opt({"empty", "unnamed", "named"})

Specs == [id : Ids, cap : Opt(Caps), role : Opt(Roles), ref : Refs,
          susp : Opt([Flags -> Opt(BOOLEAN)])]

Statuses == [ctime : Opt(Times), lmt : Opt(Stamps), conds : Conditions]

Resources == [spec : Specs, status : Statuses]

NoStatus == [ctime |-> Nil, lmt |-> Nil, conds |-> NoConditions]

(* A target as DescribeScalableTargets returns it: AWS fills in the role   *)
(* and every flag.                                                         *)
Targets == [cap : {n \in Caps : FitsInt32(n)}, role : Roles,
            susp : [Flags -> BOOLEAN], ctime : Times]

(* A Role CR as the IAM controller leaves it.                              *)
RoleCRs == [terminal : BOOLEAN, synced : BOOLEAN, arn : Opt(Roles)]

ASSUME ResourceAssumption ==
  /\ Caps \subseteq Int
  /\ ServiceRole \in Roles
  /\ Nil \notin Ids \cup Roles
  /\ Nil \notin {"empty", "unnamed", "named"}
  /\ Nil \notin [Flags -> Opt(BOOLEAN)]
  /\ Nil \notin Targets
  /\ Nil \notin Resources
  /\ Nil \notin RoleCRs

---------------------------------------------------------------------------
(* sdkFind and the payloads.                                               *)

(* The observed resource: the spec of the first target in the answer, the  *)
(* rest from the resource that was asked for.  Nil is ackerr.NotFound.     *)
SdkFind(r, t) ==
  IF t = Nil THEN Nil
  ELSE [spec   |-> [r.spec EXCEPT !.cap = t.cap, !.role = t.role, !.susp = t.susp],
        status |-> CustomSetLastModifiedTimeToCreationTime(
                     [r.status EXCEPT !.ctime = t.ctime])]

(* The payload is refused before any call if a capacity is no int32.       *)
NoRangeCheck(s) == TRUE
PayloadOK(s) == s.cap # Nil => FitsInt32(s.cap)

\* the role left out of the payload
PayloadWithoutRole(s) == [cap |-> s.cap, role |-> Nil, susp |-> s.susp]

Payload(s) == [cap |-> s.cap, role |-> s.role, susp |-> s.susp]

(* What Register does with a payload in which absent fields are nil: an    *)
(* upsert that keeps what it is not told and needs capacities to create.   *)
Accepted(t, p) == t # Nil \/ p.cap # Nil
Registered(t, p, time) ==
  LET old == IF t # Nil THEN t
             ELSE [cap |-> p.cap, role |-> ServiceRole,
                   susp |-> [f \in Flags |-> FALSE], ctime |-> time]
  IN  [cap   |-> IF p.cap # Nil THEN p.cap ELSE old.cap,
       role  |-> IF p.role # Nil THEN p.role ELSE old.role,
       susp  |-> IF p.susp = Nil THEN old.susp
                 ELSE [f \in Flags |-> IF p.susp[f] # Nil THEN p.susp[f]
                                       ELSE old.susp[f]],
       ctime |-> old.ctime]

(* customSetLastModifiedTimeToCurrentTime reads the controller's clock.    *)
SdkUpdated(desired, clocks) ==
  [desired EXCEPT !.status.lmt = Stamp(clocks, "controller")]

---------------------------------------------------------------------------
(* Delta.                                                                  *)

\* defaults not copied from the observed resource
NoDefaults(a, b) == a

\* AWS's initial value taken as the default
FalseDefaults(a, b) == IF a.susp = Nil THEN [a EXCEPT !.susp = [f \in Flags |-> FALSE]]
                       ELSE a

CustomSetDefaults(a, b) ==
  IF b.susp = Nil THEN a
  ELSE LET given == IF a.susp = Nil THEN [f \in Flags |-> Nil] ELSE a.susp
       IN  [a EXCEPT !.susp = [f \in Flags |-> IF given[f] = Nil THEN b.susp[f]
                                               ELSE given[f]]]

\* only the capacities compared
DeltaOfCapacity(a, b) == IF a.cap # b.cap THEN {"cap"} ELSE {}

(* The paths that differ once the defaults are set in a.                   *)
NewResourceDelta(a, b) ==
  LET d == CustomSetDefaults(a, b) IN {f \in DOMAIN d : d[f] # b[f]}

---------------------------------------------------------------------------
(* Late initialization of RoleARN.                                         *)

LateInitializeFromReadOneOutput(observed, latest) ==
  IF observed.spec.role # Nil /\ latest.spec.role = Nil
  THEN [latest EXCEPT !.spec.role = observed.spec.role] ELSE latest

LateInitializeFailed(latest) ==
  [latest EXCEPT !.status.conds.late = "False", !.status.conds.synced = "False"]

IncompleteLateInitialization(latest) == latest.spec.role = Nil

---------------------------------------------------------------------------
(* References.                                                             *)

\* the resolved value kept
KeepResolvedReferences(s) == s

ClearResolvedReferences(s) ==
  IF s.ref # Nil THEN [s EXCEPT !.role = Nil] ELSE s

GetReferencedResourceState(cr) ==
  cr # Nil /\ ~cr.terminal /\ cr.synced /\ cr.arn # Nil

(* Resolution overwrites RoleARN even when RoleRef and RoleARN are both    *)
(* set, which is reported as an error.                                     *)
ResolveReferences(s, cr) ==
  LET both == s.ref # Nil /\ s.role # Nil
      lost == \/ s.ref = "unnamed"
              \/ s.ref = "named" /\ ~GetReferencedResourceState(cr)
  IN  [spec |-> IF s.ref = "named" /\ ~lost THEN [s EXCEPT !.role = cr.arn] ELSE s,
       ok   |-> ~both /\ ~lost]

===========================================================================

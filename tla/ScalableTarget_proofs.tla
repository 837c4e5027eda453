----------------------- MODULE ScalableTarget_proofs -----------------------
(* Proofs about ScalableTarget for any specs, capacities, roles, flags and *)
(* bounds.  The claims about orphans are for users who do not edit the     *)
(* identity of a target (~Renames).                                        *)
EXTENDS ScalableTarget, TLAPS

---------------------------------------------------------------------------
(* The operators of the resource manager return what their names say.      *)

(* What is read off a clock.                                               *)
LEMMA ClockTypes ==
  ASSUME NEW clocks \in Clocks
  PROVE  clocks.aws \in Times /\ Stamp(clocks, "controller") \in Stamps
  BY DEF Clocks, ClockNames, Stamp, Stamps

(* The queue of a key stays a queue, whoever queues the key.               *)
LEMMA QueueTypes ==
  /\ {} \in Queues /\ {"now"} \in Queues
  /\ \A q \in Queues : /\ q \cup {"now"} \in Queues
                       /\ q \ {"now"} \in Queues
                       /\ \A e : q \cup Requeued(e) \in Queues
  BY DEF Queues, Requeued

LEMMA SdkFindType ==
  ASSUME NEW r \in Resources, NEW t \in Opt(Targets)
  PROVE  /\ SdkFind(r, t) \in Opt(Resources)
         /\ SdkFind(r, t) = Nil <=> t = Nil
         /\ t # Nil => SdkFind(r, t).spec.id = r.spec.id
<1>1. CASE t = Nil
  BY <1>1 DEF SdkFind, Opt
<1>2. CASE t # Nil
  <2> DEFINE s == [r.spec EXCEPT !.cap = t.cap, !.role = t.role, !.susp = t.susp]
             st == [r.status EXCEPT !.ctime = t.ctime]
  <2>1. t \in Targets
    BY <1>2 DEF Opt
  <2>2. t.susp \in [Flags -> Opt(BOOLEAN)]
    BY <2>1 DEF Targets, Opt
  <2>3. s \in Specs /\ s.id = r.spec.id
    BY <2>1, <2>2 DEF Targets, Specs, Resources, Opt
  <2>4. st \in Statuses
    BY <2>1 DEF Targets, Resources, Statuses, Opt
  <2>5. CustomSetLastModifiedTimeToCreationTime(st) \in Statuses
    BY <2>4 DEF CustomSetLastModifiedTimeToCreationTime, Statuses, Opt,
              Stamps, ClockNames
  <2>6. SdkFind(r, t) = [spec |-> s,
                         status |-> CustomSetLastModifiedTimeToCreationTime(st)]
    BY <1>2 DEF SdkFind
  <2>7. SdkFind(r, t) \in Resources
    BY <2>3, <2>5, <2>6 DEF Resources
  <2>8. SdkFind(r, t) # Nil
    BY <2>7, ResourceAssumption
  <2>9. SdkFind(r, t).spec.id = r.spec.id
    <3> HIDE DEF s, st
    <3> QED
      BY <2>3, <2>6
  <2> QED
    BY <1>2, <2>7, <2>8, <2>9 DEF Opt
<1> QED
  BY <1>1, <1>2

LEMMA RegisteredType ==
  ASSUME NEW t \in Opt(Targets), NEW p, NEW time \in Times,
         p.cap \in Opt(Caps), p.role \in Opt(Roles),
         p.susp \in Opt([Flags -> Opt(BOOLEAN)]),
         p.cap # Nil => FitsInt32(p.cap),
         Accepted(t, p)
  PROVE  Registered(t, p, time) \in Targets
<1> DEFINE old == IF t # Nil THEN t
                  ELSE [cap |-> p.cap, role |-> ServiceRole,
                        susp |-> [f \in Flags |-> FALSE], ctime |-> time]
           susp == IF p.susp = Nil THEN old.susp
                   ELSE [f \in Flags |-> IF p.susp[f] # Nil THEN p.susp[f]
                                         ELSE old.susp[f]]
<1>1. old \in Targets
  BY ResourceAssumption DEF Accepted, Targets, Opt
<1>2. susp \in [Flags -> BOOLEAN]
  BY <1>1 DEF Targets, Opt
<1>3. Registered(t, p, time)
        = [cap   |-> IF p.cap # Nil THEN p.cap ELSE old.cap,
           role  |-> IF p.role # Nil THEN p.role ELSE old.role,
           susp  |-> susp,
           ctime |-> old.ctime]
  BY DEF Registered
<1> HIDE DEF old, susp
<1> QED
  BY <1>1, <1>2, <1>3 DEF Targets, Opt

LEMMA PayloadType ==
  ASSUME NEW s \in Specs, PayloadOK(s)
  PROVE  /\ Payload(s).cap \in Opt(Caps)
         /\ Payload(s).role \in Opt(Roles)
         /\ Payload(s).susp \in Opt([Flags -> Opt(BOOLEAN)])
         /\ Payload(s).cap # Nil => FitsInt32(Payload(s).cap)
  BY DEF Payload, PayloadOK, Specs

LEMMA ConditionsType ==
  ASSUME NEW r \in Resources, NEW e \in Errors
  PROVE  /\ OnError(r, e) \in Resources /\ OnError(r, e).spec = r.spec
         /\ OnSuccess(r) \in Resources /\ OnSuccess(r).spec = r.spec
<1>1. r.status.conds \in Conditions
  BY DEF Resources, Statuses
<1>2. UpdateConditions(r.status.conds, e) \in Conditions
  BY <1>1 DEF UpdateConditions, Conditions, ConditionStatus, Opt
<1>3. UpdateConditions(r.status.conds, Nil) \in Conditions
  BY <1>1 DEF UpdateConditions, Conditions, ConditionStatus, Opt
<1> QED
  BY <1>2, <1>3 DEF OnError, OnSuccess, Resources, Statuses

LEMMA LateInitType ==
  ASSUME NEW o \in Resources, NEW r \in Resources
  PROVE  /\ LateInitializeFromReadOneOutput(o, r) \in Resources
         /\ LateInitializeFromReadOneOutput(o, r).spec.id = r.spec.id
  BY DEF LateInitializeFromReadOneOutput, Resources, Specs

LEMMA LateInitFailedType ==
  ASSUME NEW r \in Resources
  PROVE  /\ LateInitializeFailed(r) \in Resources
         /\ LateInitializeFailed(r).spec = r.spec
<1>1. LateInitializeFailed(r)
        = [r EXCEPT !.status = [r.status EXCEPT
             !.conds = [r.status.conds EXCEPT !.late = "False",
                                              !.synced = "False"]]]
  BY DEF LateInitializeFailed, Resources, Statuses, Conditions
<1>2. [r.status.conds EXCEPT !.late = "False", !.synced = "False"]
        \in Conditions
  BY DEF Resources, Statuses, Conditions, ConditionStatus, Opt
<1> QED
  BY <1>1, <1>2 DEF Resources, Statuses

LEMMA DefaultsType ==
  ASSUME NEW a \in Specs, NEW b \in Specs
  PROVE  /\ CustomSetDefaults(a, b) \in Specs
         /\ CustomSetDefaults(a, b).id = a.id
<1> DEFINE given == IF a.susp = Nil THEN [f \in Flags |-> Nil] ELSE a.susp
           susp  == [f \in Flags |-> IF given[f] = Nil THEN b.susp[f]
                                     ELSE given[f]]
<1>1. CASE b.susp = Nil
  BY <1>1 DEF CustomSetDefaults
<1>2. CASE b.susp # Nil
  <2>1. given \in [Flags -> Opt(BOOLEAN)]
    BY DEF Specs, Opt
  <2>2. susp \in [Flags -> Opt(BOOLEAN)]
    BY <1>2, <2>1 DEF Specs, Opt
  <2>3. CustomSetDefaults(a, b) = [a EXCEPT !.susp = susp]
    BY <1>2 DEF CustomSetDefaults
  <2> HIDE DEF susp
  <2> QED
    BY <2>2, <2>3 DEF Specs, Opt
<1> QED
  BY <1>1, <1>2

LEMMA ResolveType ==
  ASSUME NEW s \in Specs, NEW cr \in Opt(RoleCRs)
  PROVE  /\ ResolveReferences(s, cr).spec \in Specs
         /\ ResolveReferences(s, cr).spec.id = s.id
         /\ ResolveReferences(s, cr).ok \in BOOLEAN
  BY DEF ResolveReferences, GetReferencedResourceState, RoleCRs, Specs, Opt

LEMMA ClearType ==
  ASSUME NEW s \in Specs
  PROVE  /\ ClearResolvedReferences(s) \in Specs
         /\ ClearResolvedReferences(s).id = s.id
  BY DEF ClearResolvedReferences, Specs, Opt

LEMMA MergeSpecType ==
  ASSUME NEW stored \in Specs, NEW from \in Specs, NEW to \in Specs
  PROVE  /\ MergePatch(stored, from, to) \in Specs
         /\ stored.id = to.id => MergePatch(stored, from, to).id = stored.id
  BY DEF MergePatch, Specs

LEMMA MergeStatusType ==
  ASSUME NEW stored \in Statuses, NEW from \in Statuses, NEW to \in Statuses
  PROVE  MergePatch(stored, from, to) \in Statuses
  BY DEF MergePatch, Statuses

---------------------------------------------------------------------------
(* Type correctness.  It needs to know where the worker has a resource in  *)
(* hand: desired from Fetch on, latest from the first manager call on.     *)
Present ==
  /\ (pc # "idle") => desired # Nil
  /\ (pc \in {"readback", "update", "late", "patch", "delete", "finish"})
       => latest # Nil

TypeInv == TypeOK /\ Present

(* What the worker's steps leave of TypeInv when only these change.        *)
LEMMA SpendType ==
  ASSUME TypeOK, NEW k \in {"user", "foreign", "fault"}, Spend(k)
  PROVE  left' \in [user : 0 .. MaxUser, foreign : 0 .. MaxForeign,
                    fault : 0 .. MaxFaults]
<1>1. left \in [user : 0 .. MaxUser, foreign : 0 .. MaxForeign,
                fault : 0 .. MaxFaults]
  BY DEF TypeOK
<1> QED
  BY <1>1, TargetAssumption DEF Spend

LEMMA ReadOneType ==
  ASSUME TypeOK, NEW r \in Resources
  PROVE  /\ ReadOne(r) \in Opt(Resources)
         /\ ReadOne(r) = Nil <=> aws[r.spec.id] = Nil
         /\ ReadOne(r) # Nil => ReadOne(r) \in Resources
         /\ ReadOne(r) # Nil => ReadOne(r).spec.id = r.spec.id
<1>1. r.spec.id \in Ids
  BY DEF Resources, Specs
<1>2. aws[r.spec.id] \in Opt(Targets)
  BY <1>1 DEF TypeOK
<1>3. ReadOne(r) = SdkFind(r, aws[r.spec.id])
  BY DEF ReadOne
<1>4. /\ ReadOne(r) \in Opt(Resources)
      /\ ReadOne(r) = Nil <=> aws[r.spec.id] = Nil
      /\ aws[r.spec.id] # Nil => ReadOne(r).spec.id = r.spec.id
  BY <1>2, <1>3, SdkFindType
<1> QED
  BY <1>4 DEF Opt

(* Register, whoever calls it, keeps the types of AWS and of made.         *)
LEMMA RegisterType ==
  ASSUME TypeOK, NEW s \in Specs, NEW input,
         input = Payload(s), PayloadOK(s), Accepted(aws[s.id], input),
         aws' = [aws EXCEPT ![s.id] = Registered(@, input, now.aws)]
  PROVE  aws' \in [Ids -> Opt(Targets)]
<1>1. s.id \in Ids
  BY DEF Specs
<1>2. /\ aws \in [Ids -> Opt(Targets)] /\ aws[s.id] \in Opt(Targets)
      /\ now \in Clocks /\ now.aws \in Times
  BY <1>1, ClockTypes DEF TypeOK
<1>3. Registered(aws[s.id], input, now.aws) \in Targets
  BY <1>2, PayloadType, RegisteredType
<1> QED
  BY <1>1, <1>2, <1>3 DEF Opt

LEMMA InitType == Init => TypeInv
<1> SUFFICES ASSUME Init PROVE TypeInv
  OBVIOUS
<1>1. NoStatus \in Statuses
  BY DEF NoStatus, Statuses, NoConditions, Conditions, ConditionStatus, Opt
<1>2. spec \in Specs /\ roleCR \in Opt(RoleCRs)
  BY TargetAssumption DEF Init
<1>3. now \in Clocks /\ now.aws \in Times
  BY ClockTypes DEF Init, Epoch, Clocks, Times
<1>4. left \in [user : 0 .. MaxUser, foreign : 0 .. MaxForeign,
                fault : 0 .. MaxFaults]
  BY TargetAssumption DEF Init
<1>5. /\ aws \in [Ids -> Opt(Targets)]
      /\ desired \in Opt(Resources) /\ latest \in Opt(Resources)
      /\ err \in Errors
  BY DEF Init, Opt, Errors
<1> QED
  BY <1>1, <1>2, <1>3, <1>4, <1>5, QueueTypes
     DEF Init, TypeInv, TypeOK, Present, Steps

LEMMA EnvironmentType == TypeInv /\ Environment => TypeInv'
<1> SUFFICES ASSUME TypeInv, Environment PROVE TypeInv'
  OBVIOUS
<1> DEFINE LeftType == left' \in [user : 0 .. MaxUser, foreign : 0 .. MaxForeign,
                                  fault : 0 .. MaxFaults]
<1>0. TypeOK /\ Present
  BY DEF TypeInv
<1>a. NoStatus \in Statuses
  BY DEF NoStatus, Statuses, NoConditions, Conditions, ConditionStatus, Opt
<1> USE DEF TypeOK, Present, TypeInv, crVars, worldVars, reqVars
<1>1. CASE UserCreate
  <2>1. LeftType
    BY <1>1, <1>0, SpendType DEF UserCreate
  <2>2. spec' \in Specs
    BY <1>1, TargetAssumption DEF UserCreate
  <2> QED
    BY <1>1, <1>a, <2>1, <2>2, QueueTypes DEF UserCreate
<1>2. CASE UserEdit
  <2>1. LeftType
    BY <1>2, <1>0, SpendType DEF UserEdit
  <2>2. spec' \in Specs
    <3>1. PICK s \in UserSpecs, role \in {Nil, spec.role} :
            spec' = IF s.role = Nil THEN [s EXCEPT !.role = role] ELSE s
      BY <1>2 DEF UserEdit
    <3>2. s \in Specs /\ role \in Opt(Roles)
      BY <3>1, TargetAssumption DEF Specs, Opt
    <3> QED
      BY <3>1, <3>2 DEF Specs
  <2> QED
    BY <1>2, <2>1, <2>2, QueueTypes DEF UserEdit
<1>3. CASE UserDelete
  <2>1. LeftType
    BY <1>3, <1>0, SpendType DEF UserDelete
  <2> QED
    BY <1>3, <1>a, <2>1, QueueTypes DEF UserDelete
<1>4. CASE ForeignRegister
  <2>1. LeftType
    BY <1>4, <1>0, SpendType DEF ForeignRegister
  <2>2. aws' \in [Ids -> Opt(Targets)]
    <3>1. PICK i \in Ids, s \in ForeignSpecs :
            aws' = [aws EXCEPT ![i] = Registered(@, s, now.aws)]
      BY <1>4 DEF ForeignRegister
    <3>2. /\ s \in Specs /\ s.cap # Nil /\ FitsInt32(s.cap)
          /\ s.cap \in Opt(Caps) /\ s.role \in Opt(Roles)
          /\ s.susp \in Opt([Flags -> Opt(BOOLEAN)])
          /\ Accepted(aws[i], s)
      BY <3>1, TargetAssumption DEF Specs, Accepted
    <3>3. Registered(aws[i], s, now.aws) \in Targets
      BY <1>0, <3>1, <3>2, ClockTypes, RegisteredType
    <3> QED
      BY <3>1, <3>3 DEF Opt
  <2> QED
    BY <1>4, <2>1, <2>2 DEF ForeignRegister
<1>5. CASE ForeignDeregister
  <2>1. LeftType
    BY <1>5, <1>0, SpendType DEF ForeignDeregister
  <2>2. aws' \in [Ids -> Opt(Targets)] /\ made' \subseteq Ids
    BY <1>5 DEF ForeignDeregister, Opt
  <2> QED
    BY <1>5, <2>1, <2>2 DEF ForeignDeregister
<1>6. CASE RoleChange
  <2>1. LeftType
    BY <1>6, <1>0, SpendType DEF RoleChange
  <2> QED
    BY <1>6, <2>1, TargetAssumption DEF RoleChange
<1>7. CASE Tick
  BY <1>7 DEF Tick, Clocks, Times
<1>8. CASE Resync
  BY <1>8, QueueTypes DEF Resync
<1>9. CASE Crash
  <2>1. LeftType
    BY <1>9, <1>0, SpendType DEF Crash
  <2> QED
    BY <1>9, <2>1, QueueTypes DEF Crash, Idle, Opt, Steps, Errors
<1> QED
  BY <1>1, <1>2, <1>3, <1>4, <1>5, <1>6, <1>7, <1>8, <1>9 DEF Environment

(* Every step of the worker from "read" on has its resources in hand.      *)
LEMMA InHand ==
  ASSUME TypeInv
  PROVE  /\ pc # "idle" => desired \in Resources
         /\ pc \in {"readback", "update", "late", "patch", "delete", "finish"}
              => latest \in Resources
  BY DEF TypeInv, TypeOK, Present, Opt

LEMMA WorkerType == TypeInv /\ Worker => TypeInv'
<1> SUFFICES ASSUME TypeInv, Worker PROVE TypeInv'
  OBVIOUS
<1> DEFINE LeftType == left' \in [user : 0 .. MaxUser, foreign : 0 .. MaxForeign,
                                  fault : 0 .. MaxFaults]
<1>0. TypeOK /\ Present
  BY DEF TypeInv
<1>h. /\ (pc # "idle") => desired \in Resources
      /\ (pc \in {"readback", "update", "late", "patch", "delete", "finish"})
           => latest \in Resources
  BY InHand
<1>e. /\ "error" \in Errors /\ "terminal" \in Errors /\ "requeue" \in Errors
      /\ "notfound" \in Errors /\ Nil \in Errors
  BY DEF Errors, Opt
<1>f. \A r \in Resources : r \in Opt(Resources) /\ r # Nil
  BY ResourceAssumption DEF Opt
<1>g. /\ Nil \in Opt(Resources)
      /\ \A r \in Resources : r.spec \in Specs /\ r.status \in Statuses
  BY DEF Opt, Resources
<1> USE DEF TypeOK, Present, TypeInv, crVars, worldVars, reqVars, Steps
<1>1. CASE FetchGone
  BY <1>1, QueueTypes DEF FetchGone
<1>2. CASE Fetch
  <2>1. [status EXCEPT !.conds = NoConditions] \in Statuses
    BY DEF Statuses, NoConditions, Conditions, ConditionStatus, Opt
  <2>2. desired' \in Resources
    BY <1>2, <2>1 DEF Fetch, Resources
  <2>3. desired' \in Opt(Resources) /\ desired' # Nil
    BY <2>2, <1>f
  <2> QED
    BY <1>2, <2>3, QueueTypes DEF Fetch
<1>3. CASE Resolve
  <2> DEFINE res == ResolveReferences(desired.spec, roleCR)
             r   == [desired EXCEPT !.spec = res.spec]
  <2>1. desired \in Resources
    BY <1>3, <1>h DEF Resolve
  <2>2. desired.spec \in Specs
    BY <2>1, <1>g
  <2>3. res.spec \in Specs
    BY <2>2, ResolveType
  <2> HIDE DEF res
  <2>4. r \in Resources
    BY <2>1, <2>3 DEF Resources
  <2>5. r \in Opt(Resources) /\ r # Nil
    BY <2>4, <1>f
  <2>6. /\ pc = "resolve"
        /\ desired' = r
        /\ \/ pc' = "read" /\ UNCHANGED <<latest, err>>
           \/ FinishWith(r, "error")
        /\ UNCHANGED <<crVars, worldVars, aws, queue, isManaged, isDeleting,
                       made, dirty, left>>
    BY <1>3 DEF Resolve, res
  <2> HIDE DEF r
  <2> QED
    BY <2>5, <2>6, <1>e DEF FinishWith
<1>4. CASE ReadFails
  <2>1. LeftType
    BY <1>4, <1>0, SpendType DEF ReadFails
  <2>2. PICK r \in {desired, latest} :
          r \in Resources /\ FinishWith(OnError(r, "error"), "error")
    BY <1>4, <1>h DEF ReadFails
  <2>3. OnError(r, "error") \in Resources
    BY <2>2, <1>e, ConditionsType
  <2> QED
    BY <1>4, <2>1, <2>2, <2>3, <1>e, <1>f DEF ReadFails, FinishWith
<1>5. CASE ReadNotFound
  BY <1>5 DEF ReadNotFound
<1>6. CASE ReadUnmanaged
  <2>1. ReadOne(desired) \in Resources
    BY <1>6, <1>0, <1>h, ReadOneType DEF ReadUnmanaged
  <2>2. OnSuccess(ReadOne(desired)) \in Resources
    BY <2>1, <1>e, ConditionsType
  <2>3. OnError(OnSuccess(ReadOne(desired)), "terminal") \in Resources
    BY <2>2, <1>e, ConditionsType
  <2> QED
    BY <1>6, <2>3, <1>e, <1>f DEF ReadUnmanaged, FinishWith
<1>7. CASE ReadManaged
  <2> DEFINE observed == ReadOne(desired)
             s == CustomSetDefaults(desired.spec, observed.spec)
  <2>1. desired \in Resources /\ observed \in Resources
    BY <1>7, <1>0, <1>h, ReadOneType DEF ReadManaged
  <2>2. OnSuccess(observed) \in Resources
    BY <2>1, <1>e, ConditionsType
  <2>3. s \in Specs
    BY <2>1, <1>g, DefaultsType
  <2> HIDE DEF s
  <2>4. [desired EXCEPT !.spec = s] \in Resources
    BY <2>1, <2>3 DEF Resources
  <2>5. /\ pc = "read"
        /\ latest' = OnSuccess(observed)
        /\ desired' = [desired EXCEPT !.spec = s]
        /\ pc' \in {"late", "update"}
        /\ UNCHANGED <<crVars, worldVars, aws, queue, isManaged, isDeleting,
                       err, made, dirty, left>>
    BY <1>7 DEF ReadManaged, s
  <2> HIDE DEF observed
  <2> QED
    BY <2>2, <2>4, <2>5, <1>f
<1>8. CASE ReadToDelete
  <2>1. ReadOne(desired) \in Resources
    BY <1>8, <1>0, <1>h, ReadOneType DEF ReadToDelete
  <2>2. OnSuccess(ReadOne(desired)) \in Resources
    BY <2>1, <1>e, ConditionsType
  <2> QED
    BY <1>8, <2>2, <1>f DEF ReadToDelete
<1>9. CASE Manage
  BY <1>9, <1>e, <1>g, QueueTypes DEF Manage, Idle
<1>10. CASE Create
  <2>1. desired \in Resources /\ desired.spec \in Specs
    BY <1>10, <1>h, <1>g DEF Create
  <2>2. OnError(desired, "error") \in Resources /\ OnSuccess(desired) \in Resources
    BY <2>1, <1>e, ConditionsType
  <2>3. LeftType /\ aws' \in [Ids -> Opt(Targets)] /\ made' \subseteq Ids
    BY <1>10, <1>0, <2>1, SpendType, RegisterType
       DEF Create, Register, Specs
  <2> QED
    BY <1>10, <2>2, <2>3, <1>e, <1>f DEF Create, Register, FinishWith
<1>11. CASE ReadBackNotFound
  BY <1>11, <1>h, <1>f, <1>e DEF ReadBackNotFound, FinishWith
<1>12. CASE ReadBack
  <2>1. latest \in Resources /\ ReadOne(latest) \in Resources
    BY <1>12, <1>0, <1>h, ReadOneType DEF ReadBack
  <2>2. OnSuccess(ReadOne(latest)).status \in Statuses
    BY <2>1, <1>e, <1>g, ConditionsType
  <2>3. latest' \in Resources
    BY <1>12, <2>1, <2>2 DEF ReadBack, Resources
  <2> QED
    BY <1>12, <2>3, <1>f DEF ReadBack
<1>13. CASE Update
  <2>1. /\ desired \in Resources /\ desired.spec \in Specs
        /\ latest \in Resources
    BY <1>13, <1>h, <1>g DEF Update
  <2>2. SdkUpdated(desired, now) \in Resources
    BY <2>1, ClockTypes DEF SdkUpdated, Resources, Statuses, Opt
  <2>3. /\ OnError(latest, "error") \in Resources
        /\ OnSuccess(SdkUpdated(desired, now)) \in Resources
    BY <2>1, <2>2, <1>e, ConditionsType
  <2>4. LeftType /\ aws' \in [Ids -> Opt(Targets)] /\ made' \subseteq Ids
    BY <1>13, <1>0, <2>1, SpendType, RegisterType
       DEF Update, Register, Specs
  <2> QED
    BY <1>13, <2>3, <2>4, <1>e, <1>f DEF Update, Register, FinishWith
<1>14. CASE LateInitialize
  <2> DEFINE observed == ReadOne(latest)
             filled == LateInitializeFromReadOneOutput(observed, latest)
  <2>1. /\ desired \in Resources /\ latest \in Resources
        /\ observed \in Resources
    BY <1>14, <1>0, <1>h, ReadOneType DEF LateInitialize
  <2> HIDE DEF observed
  <2>2. filled \in Resources
    BY <2>1, LateInitType
  <2> HIDE DEF filled
  <2>3. /\ LateInitializeFailed(filled) \in Resources
        /\ [filled EXCEPT !.status.conds.late = "True"] \in Resources
        /\ [desired EXCEPT !.spec = latest.spec] \in Resources
    <3>1. LateInitializeFailed(filled) \in Resources
      BY <2>2, LateInitFailedType
    <3>2. [filled EXCEPT !.status.conds.late = "True"] \in Resources
      BY <2>2 DEF Resources, Statuses, Conditions, ConditionStatus, Opt
    <3>3. [desired EXCEPT !.spec = latest.spec] \in Resources
      BY <2>1 DEF Resources
    <3> QED
      BY <3>1, <3>2, <3>3
  <2>4. /\ pc = "late"
        /\ \/ latest' = LateInitializeFailed(filled) /\ err' = "requeue"
           \/ latest' = [filled EXCEPT !.status.conds.late = "True"] /\ err' = Nil
        /\ desired' = [desired EXCEPT !.spec = latest.spec]
        /\ pc' \in {"finish", "patch"}
        /\ UNCHANGED <<crVars, worldVars, aws, queue, isManaged, isDeleting,
                       made, dirty, left>>
    BY <1>14 DEF LateInitialize, observed, filled
  <2> QED
    BY <2>3, <2>4, <1>e, <1>f
<1>15. CASE LateInitializeFails
  <2>1. LeftType
    BY <1>15, <1>0, SpendType DEF LateInitializeFails
  <2>2. LateInitializeFailed(latest) \in Resources
    BY <1>15, <1>h, LateInitFailedType DEF LateInitializeFails
  <2> QED
    BY <1>15, <2>1, <2>2, <1>e, <1>f DEF LateInitializeFails
<1>16. CASE PatchSpec
  <2>1. desired.spec \in Specs /\ latest.spec \in Specs
    BY <1>16, <1>h, <1>g DEF PatchSpec
  <2>2. /\ ClearResolvedReferences(desired.spec) \in Specs
        /\ ClearResolvedReferences(latest.spec) \in Specs
    BY <2>1, ClearType
  <2>3. spec' \in Specs
    BY <1>16, <2>2, MergeSpecType DEF PatchSpec
  <2> QED
    BY <1>16, <2>3, QueueTypes DEF PatchSpec
<1>17. CASE Delete
  <2>1. latest \in Resources /\ OnError(latest, "error") \in Resources
    BY <1>17, <1>h, <1>e, ConditionsType DEF Delete
  <2>2. LeftType
    BY <1>17, <1>0, SpendType DEF Delete
  <2>3. aws' \in [Ids -> Opt(Targets)] /\ made' \subseteq Ids
    BY <1>17, <1>0 DEF Delete, Opt
  <2> QED
    BY <1>17, <2>1, <2>2, <2>3, <1>e, <1>f DEF Delete, FinishWith
<1>18. CASE Unmanage
  <2>1. NoStatus \in Statuses
    BY DEF NoStatus, Statuses, NoConditions, Conditions, ConditionStatus, Opt
  <2> QED
    BY <1>18, <2>1, <1>e, <1>g DEF Unmanage, Idle
<1>19. CASE Finish
  <2> DEFINE to == IF isDeleting THEN latest.status
                   ELSE [latest.status EXCEPT !.conds = EnsureSynced(@, err)]
  <2>1. desired.status \in Statuses /\ latest.status \in Statuses
    BY <1>19, <1>h, <1>g DEF Finish
  <2>2. latest.status.conds \in Conditions
    BY <2>1 DEF Statuses
  <2>3. EnsureSynced(latest.status.conds, err) \in Conditions
    BY <2>2 DEF EnsureSynced, Conditions, ConditionStatus, Opt
  <2>4. to \in Statuses
    BY <2>1, <2>3 DEF Statuses
  <2> HIDE DEF to
  <2>5. MergePatch(status, desired.status, to) \in Statuses
    BY <2>1, <2>4, MergeStatusType
  <2>6. status' = IF phase = "absent" THEN status
                  ELSE MergePatch(status, desired.status, to)
    BY <1>19 DEF Finish, to
  <2>7. status' \in Statuses
    BY <2>5, <2>6
  <2> QED
    BY <1>19, <2>7, <1>e, <1>g, QueueTypes DEF Finish, Idle
<1> QED
  BY <1>1, <1>2, <1>3, <1>4, <1>5, <1>6, <1>7, <1>8, <1>9, <1>10, <1>11,
     <1>12, <1>13, <1>14, <1>15, <1>16, <1>17, <1>18, <1>19 DEF Worker

LEMMA TypeInvAlways == Spec => []TypeInv
<1>1. TypeInv /\ UNCHANGED vars => TypeInv'
  BY DEF TypeInv, TypeOK, Present, vars
<1>2. TypeInv /\ [Next]_vars => TypeInv'
  BY <1>1, WorkerType, EnvironmentType DEF Next
<1> QED
  BY <1>2, InitType, PTL DEF Spec

(* Every variable of the reconciler, the CR and AWS stays in its type: no  *)
(* capacity beyond int32 reaches AWS and no step is left without the       *)
(* resource it works on.                                                   *)
THEOREM TypeCorrect == Spec => []TypeOK
<1>1. TypeInv => TypeOK
  BY DEF TypeInv
<1> QED
  BY <1>1, TypeInvAlways, PTL

---------------------------------------------------------------------------
(* Who owns what.  The worker's copy of the finalizer and of the deletion  *)
(* timestamp may be old but never wrong: nobody else sets or removes the   *)
(* finalizer, and a deletion is not taken back.                            *)
OwnerInv ==
  /\ (phase = "absent") => ~managed
  /\ (phase = "deleting") => managed
  /\ (pc # "idle") => isManaged = managed
  /\ (pc # "idle" /\ isDeleting) => phase = "deleting"
  /\ (pc \in {"create", "readback", "update", "late", "patch", "delete",
              "unmanage"}) => isManaged
  /\ (pc = "manage") => ~isManaged
  /\ (pc \in {"delete", "unmanage"}) => isDeleting

(* All copies of the spec name the same target: without renames.           *)
IdInv ==
  /\ (pc # "idle") => desired.spec.id = spec.id
  /\ (latest # Nil) => latest.spec.id = spec.id

(* What the controller made is the target the CR names, it is in AWS, and  *)
(* it is gone before the finalizer comes off.                              *)
MadeInv ==
  /\ made \subseteq {spec.id}
  /\ \A i \in made : aws[i] # Nil
  /\ (made # {}) => managed
  /\ (pc = "unmanage") => made = {}

OwnInv == TypeInv /\ OwnerInv

Inv == OwnInv /\ IdInv /\ MadeInv

LEMMA InitOwner == Init => OwnInv
  BY InitType DEF Init, OwnInv, OwnerInv

LEMMA NextOwner == OwnInv /\ [Next]_vars => OwnInv'
<1> SUFFICES ASSUME OwnInv, [Next]_vars PROVE OwnerInv'
  <2>1. TypeInv /\ UNCHANGED vars => TypeInv'
    BY DEF TypeInv, TypeOK, Present, vars
  <2> QED
    BY <2>1, WorkerType, EnvironmentType DEF OwnInv, Next
<1> USE DEF OwnInv, OwnerInv, TypeInv, TypeOK, crVars, worldVars, reqVars, Steps
<1>1. CASE UNCHANGED vars
  BY <1>1 DEF vars
<1>2. CASE Environment
  <2>1. CASE UserCreate
    BY <2>1 DEF UserCreate
  <2>2. CASE UserEdit
    BY <2>2 DEF UserEdit
  <2>3. CASE UserDelete
    BY <2>3 DEF UserDelete
  <2>4. CASE ForeignRegister \/ ForeignDeregister \/ RoleChange \/ Tick \/ Resync
    BY <2>4 DEF ForeignRegister, ForeignDeregister, RoleChange, Tick, Resync
  <2>5. CASE Crash
    BY <2>5 DEF Crash, Idle
  <2> QED
    BY <1>2, <2>1, <2>2, <2>3, <2>4, <2>5 DEF Environment
<1>3. CASE FetchGone \/ Fetch \/ Resolve
  <2>1. CASE FetchGone
    BY <2>1 DEF FetchGone
  <2>2. CASE Fetch
    <3>1. /\ UNCHANGED <<phase, managed>>
          /\ pc' = "resolve"
          /\ isManaged' = managed
          /\ isDeleting' => phase = "deleting"
      BY <2>2 DEF Fetch
    <3> QED
      BY <3>1
  <2>3. CASE Resolve
    <3>1. /\ UNCHANGED <<phase, managed, isManaged, isDeleting>>
          /\ pc = "resolve"
          /\ pc' \in {"read", "finish"}
      BY <2>3 DEF Resolve, FinishWith
    <3> QED
      BY <3>1
  <2> QED
    BY <1>3, <2>1, <2>2, <2>3
<1>4. CASE ReadFails \/ ReadNotFound \/ ReadUnmanaged \/ ReadManaged
           \/ ReadToDelete
  BY <1>4 DEF ReadFails, ReadNotFound, ReadUnmanaged, ReadManaged,
              ReadToDelete, FinishWith
<1>5. CASE Manage
  BY <1>5 DEF Manage, Idle
<1>6. CASE Create \/ Update
  BY <1>6 DEF Create, Update, Register, FinishWith
<1>7. CASE ReadBack \/ ReadBackNotFound \/ LateInitialize
           \/ LateInitializeFails \/ PatchSpec
  BY <1>7 DEF ReadBack, ReadBackNotFound, LateInitialize, LateInitializeFails,
              PatchSpec, FinishWith
<1>8. CASE Delete
  BY <1>8 DEF Delete, FinishWith
<1>9. CASE Unmanage \/ Finish
  BY <1>9 DEF Unmanage, Finish, Idle
<1> QED
  BY <1>1, <1>2, <1>3, <1>4, <1>5, <1>6, <1>7, <1>8, <1>9 DEF Next, Worker

---------------------------------------------------------------------------
(* Nobody changes the identity in the spec: not the users, by assumption,  *)
(* and not the patch of the controller.                                    *)
LEMMA SameId ==
  ASSUME ~Renames, Inv, [Next]_vars
  PROVE  spec'.id = spec.id
<1>1. CASE UserCreate
  BY <1>1 DEF UserCreate
<1>2. CASE UserEdit
  <2>1. PICK s \in UserSpecs, role \in {Nil, spec.role} :
          /\ s.id = spec.id
          /\ spec' = IF s.role = Nil THEN [s EXCEPT !.role = role] ELSE s
    BY <1>2 DEF UserEdit
  <2>2. s \in Specs
    BY <2>1, TargetAssumption
  <2> QED
    BY <2>1, <2>2 DEF Specs
<1>3. CASE PatchSpec
  <2>1. desired \in Resources /\ latest \in Resources
    BY <1>3, InHand DEF PatchSpec, Inv, OwnInv
  <2>2. /\ desired.spec \in Specs /\ latest.spec \in Specs /\ spec \in Specs
        /\ latest.spec.id = spec.id
    BY <1>3, <2>1, ResourceAssumption
       DEF PatchSpec, Resources, Inv, OwnInv, TypeInv, TypeOK, IdInv
  <2> QED
    BY <1>3, <2>2, ClearType, MergeSpecType DEF PatchSpec
<1>4. ASSUME ~UserCreate, ~UserEdit, ~PatchSpec PROVE spec' = spec
  BY <1>4 DEF Inv, Next, Worker, Environment, UserDelete, ForeignRegister,
     ForeignDeregister, RoleChange, Tick, Resync, Crash, FetchGone, Fetch,
     Resolve, ReadFails, ReadNotFound, ReadUnmanaged, ReadManaged,
     ReadToDelete, Manage, Create, ReadBack, ReadBackNotFound, Update,
     LateInitialize, LateInitializeFails, Delete, Unmanage, Finish,
     crVars, vars
<1> QED
  BY <1>1, <1>2, <1>3, <1>4

LEMMA NextId ==
  ASSUME ~Renames, Inv, [Next]_vars
  PROVE  IdInv'
<1>0. spec'.id = spec.id
  BY SameId
<1>1. TypeOK /\ TypeInv /\ IdInv
  BY DEF Inv, OwnInv, TypeInv
<1>h. /\ (pc # "idle") => desired \in Resources /\ desired.spec \in Specs
      /\ (pc \in {"readback", "update", "late", "patch", "delete", "finish"})
           => latest \in Resources /\ latest # Nil
  BY <1>1, InHand, ResourceAssumption DEF Resources
<1>e. "error" \in Errors /\ "terminal" \in Errors
  BY DEF Errors, Opt
<1> USE DEF IdInv
<1>2. CASE UNCHANGED <<pc, reqVars, latest>>
  BY <1>0, <1>1, <1>2 DEF reqVars
<1>3. CASE Crash \/ Unmanage \/ Finish
  BY <1>3 DEF Crash, Unmanage, Finish, Idle
<1>4. CASE Fetch
  BY <1>0, <1>1, <1>4 DEF Fetch
<1>5. CASE Resolve
  <2>1. /\ pc = "resolve" /\ desired \in Resources
        /\ desired' = [desired EXCEPT
                         !.spec = ResolveReferences(desired.spec, roleCR).spec]
        /\ latest' \in {latest, desired'}
    BY <1>5, <1>h DEF Resolve, FinishWith
  <2>2. desired'.spec.id = desired.spec.id
    BY <2>1, <1>1, <1>h, ResolveType DEF Resources, TypeOK
  <2> QED
    BY <2>1, <2>2, <1>0, <1>1
<1>6. CASE ReadFails
  <2>1. PICK r \in {desired, latest} :
          /\ r \in Resources /\ r.spec.id = spec.id
          /\ latest' = OnError(r, "error")
    BY <1>1, <1>6, <1>h DEF ReadFails, FinishWith
  <2>2. latest'.spec.id = spec.id
    BY <2>1, <1>e, ConditionsType
  <2> QED
    BY <2>2, <1>0, <1>1, <1>6 DEF ReadFails, FinishWith, reqVars
<1>7. CASE ReadUnmanaged \/ ReadToDelete
  <2>1. ReadOne(desired) \in Resources /\ ReadOne(desired).spec.id = spec.id
    BY <1>1, <1>7, <1>h, ReadOneType DEF ReadUnmanaged, ReadToDelete
  <2>2. /\ OnSuccess(ReadOne(desired)).spec.id = spec.id
        /\ OnError(OnSuccess(ReadOne(desired)), "terminal").spec.id = spec.id
    BY <2>1, <1>e, ConditionsType
  <2> QED
    BY <2>2, <1>0, <1>1, <1>7
       DEF ReadUnmanaged, ReadToDelete, FinishWith, reqVars
<1>8. CASE ReadManaged
  <2>1. ReadOne(desired) \in Resources /\ ReadOne(desired).spec.id = spec.id
    BY <1>1, <1>8, <1>h, ReadOneType DEF ReadManaged
  <2>2. OnSuccess(ReadOne(desired)).spec.id = spec.id
    BY <2>1, <1>e, ConditionsType
  <2>3. CustomSetDefaults(desired.spec, ReadOne(desired).spec).id = spec.id
    BY <2>1, <1>1, <1>8, <1>h, DefaultsType DEF ReadManaged, Resources
  <2>4. desired \in Resources
    BY <1>8, <1>h DEF ReadManaged
  <2>5. desired'.spec = CustomSetDefaults(desired.spec, ReadOne(desired).spec)
    BY <1>8, <2>4 DEF ReadManaged, Resources
  <2>6. latest' = OnSuccess(ReadOne(desired))
    BY <1>8 DEF ReadManaged
  <2> QED
    BY <2>2, <2>3, <2>5, <2>6, <1>0
<1>9. CASE ReadNotFound
  BY <1>0, <1>1, <1>9 DEF ReadNotFound, reqVars
<1>10. CASE Manage
  BY <1>0, <1>1, <1>10 DEF Manage, Idle
<1>11. CASE Create
  <2>1. /\ OnError(desired, "error").spec.id = spec.id
        /\ OnSuccess(desired).spec.id = spec.id
    BY <1>1, <1>11, <1>h, <1>e, ConditionsType DEF Create
  <2> QED
    BY <2>1, <1>0, <1>1, <1>11 DEF Create, Register, FinishWith, reqVars
<1>12. CASE Update
  <2>1. /\ SdkUpdated(desired, now) \in Resources
        /\ SdkUpdated(desired, now).spec = desired.spec
    BY <1>1, <1>12, <1>h, ClockTypes
       DEF Update, TypeOK, SdkUpdated, Resources, Statuses, Opt
  <2>2. /\ OnError(latest, "error").spec.id = spec.id
        /\ OnSuccess(SdkUpdated(desired, now)).spec.id = spec.id
    BY <1>1, <1>12, <1>h, <1>e, <2>1, ConditionsType DEF Update
  <2> QED
    BY <2>2, <1>0, <1>1, <1>12 DEF Update, Register, FinishWith, reqVars
<1>13. CASE ReadBack \/ ReadBackNotFound
  <2>1. latest \in Resources /\ latest # Nil
    BY <1>13, <1>h DEF ReadBack, ReadBackNotFound
  <2>2. latest'.spec = latest.spec
    BY <1>13, <2>1 DEF ReadBack, ReadBackNotFound, FinishWith, Resources
  <2> QED
    BY <2>1, <2>2, <1>0, <1>1, <1>13
       DEF ReadBack, ReadBackNotFound, FinishWith, reqVars
<1>14. CASE LateInitialize
  <2> DEFINE observed == ReadOne(latest)
             filled == LateInitializeFromReadOneOutput(observed, latest)
  <2>1. /\ desired \in Resources /\ latest \in Resources
        /\ latest.spec.id = spec.id
        /\ observed \in Resources
    BY <1>1, <1>14, <1>h, ReadOneType DEF LateInitialize
  <2> HIDE DEF observed
  <2>2. filled \in Resources /\ filled.spec.id = spec.id
    BY <2>1, LateInitType
  <2> HIDE DEF filled
  <2>3. /\ LateInitializeFailed(filled).spec.id = spec.id
        /\ [filled EXCEPT !.status.conds.late = "True"].spec.id = spec.id
        /\ [desired EXCEPT !.spec = latest.spec].spec.id = spec.id
    BY <2>1, <2>2, LateInitFailedType DEF Resources
  <2>4. /\ \/ latest' = LateInitializeFailed(filled)
           \/ latest' = [filled EXCEPT !.status.conds.late = "True"]
        /\ desired' = [desired EXCEPT !.spec = latest.spec]
    BY <1>14 DEF LateInitialize, observed, filled
  <2> QED
    BY <2>3, <2>4, <1>0
<1>15. CASE LateInitializeFails
  <2>1. LateInitializeFailed(latest).spec.id = spec.id
    BY <1>1, <1>15, <1>h, LateInitFailedType DEF LateInitializeFails
  <2> QED
    BY <2>1, <1>0, <1>1, <1>15 DEF LateInitializeFails, reqVars
<1>16. CASE PatchSpec \/ Delete
  <2>1. latest \in Resources /\ latest # Nil /\ latest.spec.id = spec.id
    BY <1>1, <1>16, <1>h DEF PatchSpec, Delete
  <2>2. OnError(latest, "error").spec.id = spec.id
    BY <2>1, <1>e, ConditionsType
  <2> QED
    BY <2>1, <2>2, <1>0, <1>1, <1>16 DEF PatchSpec, Delete, FinishWith, reqVars
<1>17. CASE Environment /\ ~Crash
  <2>1. UNCHANGED <<pc, reqVars, latest>>
    BY <1>17 DEF Environment, UserCreate, UserEdit, UserDelete, ForeignRegister,
                 ForeignDeregister, RoleChange, Tick, Resync
  <2> QED
    BY <1>2, <2>1
<1>18. CASE FetchGone
  BY <1>2, <1>18 DEF FetchGone
<1>19. CASE UNCHANGED vars
  BY <1>2, <1>19 DEF vars, reqVars
<1> QED
  BY <1>3, <1>4, <1>5, <1>6, <1>7, <1>8, <1>9, <1>10, <1>11, <1>12, <1>13,
     <1>14, <1>15, <1>16, <1>17, <1>18, <1>19 DEF Next, Worker

(* The one way the set of made targets grows, and the ways AWS changes.    *)
LEMMA MadeChanges ==
  ASSUME Inv, [Next]_vars
  PROVE  \/ UNCHANGED <<aws, made>>
         \/ ForeignRegister
         \/ ForeignDeregister
         \/ /\ Create \/ Update
            /\ made' = made \cup {desired.spec.id}
            /\ \E t \in Targets : aws' = [aws EXCEPT ![desired.spec.id] = t]
         \/ /\ Delete
            /\ made' = made \ {latest.spec.id}
            /\ aws' = [aws EXCEPT ![latest.spec.id] = Nil]
<1>1. CASE Create \/ Update
  <2> DEFINE s == desired.spec
             t == Registered(aws[s.id], Payload(s), now.aws)
  <2>1. s \in Specs /\ s.id \in Ids
    BY <1>1, InHand DEF Create, Update, Inv, OwnInv, Resources, Specs
  <2>2. aws[s.id] \in Opt(Targets) /\ now \in Clocks /\ now.aws \in Times
    BY <2>1, ClockTypes DEF Inv, OwnInv, TypeInv, TypeOK
  <2>3. \/ UNCHANGED <<aws, made>>
        \/ /\ PayloadOK(s) /\ Accepted(aws[s.id], Payload(s))
           /\ aws' = [aws EXCEPT ![s.id] = t]
           /\ made' = made \cup {s.id}
    BY <1>1 DEF Create, Update, Register
  <2>4. CASE UNCHANGED <<aws, made>>
    BY <2>4
  <2>5. CASE /\ PayloadOK(s) /\ Accepted(aws[s.id], Payload(s))
             /\ aws' = [aws EXCEPT ![s.id] = t]
             /\ made' = made \cup {s.id}
    <3>1. t \in Targets
      BY <2>1, <2>2, <2>5, PayloadType, RegisteredType
    <3> QED
      BY <1>1, <2>5, <3>1
  <2> QED
    BY <2>3, <2>4, <2>5
<1>2. CASE Delete
  BY <1>2 DEF Delete
<1>3. ASSUME ~Create, ~Update, ~Delete, ~ForeignRegister, ~ForeignDeregister
      PROVE  UNCHANGED <<aws, made>>
  BY <1>3 DEF Inv, Next, Worker, Environment, UserCreate, UserEdit, UserDelete,
     RoleChange, Tick, Resync, Crash, FetchGone, Fetch, Resolve, ReadFails,
     ReadNotFound, ReadUnmanaged, ReadManaged, ReadToDelete, Manage, ReadBack,
     ReadBackNotFound, LateInitialize, LateInitializeFails, PatchSpec,
     Unmanage, Finish, vars
<1> QED
  BY <1>1, <1>2, <1>3

LEMMA ForeignRegisterAdds ==
  ASSUME TypeOK, ForeignRegister
  PROVE  /\ made' = made
         /\ \E i \in Ids, t \in Targets : aws' = [aws EXCEPT ![i] = t]
<1>1. PICK i \in Ids, s \in ForeignSpecs :
        aws' = [aws EXCEPT ![i] = Registered(@, s, now.aws)]
  BY DEF ForeignRegister
<1>2. /\ s.cap # Nil /\ FitsInt32(s.cap)
      /\ s.cap \in Opt(Caps) /\ s.role \in Opt(Roles)
      /\ s.susp \in Opt([Flags -> Opt(BOOLEAN)])
      /\ Accepted(aws[i], s)
  BY <1>1, TargetAssumption DEF Specs, Accepted
<1>3. Registered(aws[i], s, now.aws) \in Targets
  BY <1>1, <1>2, RegisteredType, ClockTypes DEF TypeOK
<1> QED
  BY <1>1, <1>3 DEF ForeignRegister

LEMMA NextMade ==
  ASSUME ~Renames, Inv, [Next]_vars
  PROVE  MadeInv'
<1>0. spec'.id = spec.id
  BY SameId
<1>1. /\ TypeOK /\ OwnerInv /\ OwnerInv' /\ IdInv /\ MadeInv
      /\ aws \in [Ids -> Opt(Targets)] /\ made \subseteq Ids
      /\ Nil \notin Targets
  BY NextOwner, ResourceAssumption DEF Inv, OwnInv, TypeInv, TypeOK
<1>2. /\ made' \subseteq {spec'.id}
      /\ \A i \in made' : aws'[i] # Nil
  <2>1. CASE UNCHANGED <<aws, made>>
    BY <1>0, <1>1, <2>1 DEF MadeInv
  <2>2. CASE ForeignRegister
    BY <1>0, <1>1, <2>2, ForeignRegisterAdds DEF MadeInv
  <2>3. CASE ForeignDeregister
    <3>1. PICK i \in Ids : aws' = [aws EXCEPT ![i] = Nil] /\ made' = made \ {i}
      BY <2>3 DEF ForeignDeregister
    <3> QED
      BY <1>0, <1>1, <3>1 DEF MadeInv
  <2>4. CASE /\ Create \/ Update
             /\ made' = made \cup {desired.spec.id}
             /\ \E t \in Targets : aws' = [aws EXCEPT ![desired.spec.id] = t]
    <3>1. desired.spec.id = spec.id /\ spec.id \in Ids
      BY <1>1, <2>4 DEF Create, Update, IdInv, TypeOK, Specs
    <3> QED
      BY <1>0, <1>1, <2>4, <3>1 DEF MadeInv
  <2>5. CASE /\ Delete
             /\ made' = made \ {latest.spec.id}
             /\ aws' = [aws EXCEPT ![latest.spec.id] = Nil]
    BY <1>0, <1>1, <2>5 DEF MadeInv
  <2> QED
    BY <2>1, <2>2, <2>3, <2>4, <2>5, MadeChanges
<1>3. (made' # {}) => managed'
  <2>1. CASE Create \/ Update
    <3>1. pc \in {"create", "update"} /\ managed' = managed
      BY <2>1 DEF Create, Update, crVars
    <3>2. isManaged /\ isManaged = managed
      BY <1>1, <3>1 DEF OwnerInv
    <3> QED
      BY <3>1, <3>2
  <2>2. CASE UserCreate
    BY <1>1, <2>2 DEF UserCreate, OwnerInv, MadeInv
  <2>3. CASE Manage
    BY <1>1, <2>3 DEF Manage, MadeInv
  <2>4. CASE Unmanage
    BY <1>1, <2>4 DEF Unmanage, MadeInv
  <2>5. ASSUME ~UserCreate, ~Manage, ~Unmanage PROVE managed' = managed
    BY <2>5 DEF Inv, Next, Worker, Environment, UserEdit, UserDelete,
       ForeignRegister, ForeignDeregister, RoleChange, Tick, Resync, Crash,
       FetchGone, Fetch, Resolve, ReadFails, ReadNotFound, ReadUnmanaged,
       ReadManaged, ReadToDelete, Create, ReadBack, ReadBackNotFound, Update,
       LateInitialize, LateInitializeFails, PatchSpec, Delete, Finish,
       crVars, vars
  <2>6. ASSUME ~Create, ~Update PROVE made' \subseteq made
    BY <2>6, MadeChanges, ForeignRegisterAdds, <1>1 DEF ForeignDeregister
  <2> QED
    BY <1>1, <2>1, <2>2, <2>3, <2>4, <2>5, <2>6 DEF MadeInv
<1>4. (pc' = "unmanage") => made' = {}
  <2> SUFFICES ASSUME pc' = "unmanage" PROVE made' = {}
    OBVIOUS
  <2>1. CASE ReadNotFound
    <3>1. desired \in Resources /\ desired.spec.id = spec.id
      BY <1>1, <2>1, InHand DEF ReadNotFound, IdInv, Inv, OwnInv
    <3>2. aws[spec.id] = Nil
      BY <1>1, <2>1, <3>1, ReadOneType DEF ReadNotFound
    <3> QED
      BY <1>1, <2>1, <3>2 DEF ReadNotFound, MadeInv
  <2>2. CASE Delete
    <3>1. latest.spec.id = spec.id
      BY <1>1, <2>2 DEF Delete, IdInv, Inv, OwnInv, TypeInv, Present
    <3>2. made' = made \ {latest.spec.id}
      BY <2>2 DEF Delete, FinishWith
    <3> QED
      BY <1>1, <3>1, <3>2 DEF MadeInv
  <2>3. CASE pc = "unmanage"
    <3>1. ~Create /\ ~Update
      BY <2>3 DEF Create, Update
    <3>2. made' \subseteq made
      BY <3>1, MadeChanges, ForeignRegisterAdds, <1>1 DEF ForeignDeregister
    <3> QED
      BY <1>1, <2>3, <3>2 DEF MadeInv
  <2>4. ASSUME ~ReadNotFound, ~Delete PROVE pc = "unmanage"
    BY <2>4 DEF Inv, Next, Worker, Environment, UserCreate, UserEdit,
       UserDelete, ForeignRegister, ForeignDeregister, RoleChange, Tick, Resync,
       Crash, FetchGone, Fetch, Resolve, ReadFails, ReadUnmanaged, ReadManaged,
       ReadToDelete, Manage, Create, ReadBack, ReadBackNotFound, Update,
       LateInitialize, LateInitializeFails, PatchSpec, Unmanage, Finish,
       Register, FinishWith, Idle, vars
  <2> QED
    BY <2>1, <2>2, <2>3, <2>4
<1> QED
  BY <1>2, <1>3, <1>4 DEF MadeInv

LEMMA NextInv ==
  ASSUME ~Renames, Inv, [Next]_vars
  PROVE  Inv'
<1>1. OwnInv'
  BY NextOwner DEF Inv
<1> QED
  BY <1>1, NextId, NextMade DEF Inv

LEMMA InvAlways ==
  ASSUME ~Renames
  PROVE  Spec => []Inv
<1>1. Init => Inv
  <2>1. Init => OwnInv
    BY InitOwner
  <2> QED
    BY <2>1 DEF Init, Inv, IdInv, MadeInv
<1>2. Inv /\ [Next]_vars => Inv'
  BY NextInv
<1> QED
  BY <1>1, <1>2, PTL DEF Spec

(* No target that the controller registered is left without a CR that      *)
(* carries the finalizer, as long as users keep the identity in the spec.  *)
THEOREM NothingOrphaned ==
  ASSUME ~Renames
  PROVE  Spec => []NoOrphan
<1>1. Inv => NoOrphan
  BY DEF Inv, OwnInv, TypeInv, TypeOK, OwnerInv, MadeInv, NoOrphan
<1> QED
  BY <1>1, InvAlways, PTL

(* A write to AWS in a step of the worker.                                 *)
LEMMA WritesStep ==
  ASSUME Inv, [Next]_vars, pc' # pc, NEW i \in Ids, aws'[i] # aws[i]
  PROVE  managed /\ phase # "absent" /\ i = spec.id
<1>1. /\ aws \in [Ids -> Opt(Targets)] /\ OwnerInv /\ IdInv
      /\ managed \in BOOLEAN /\ isManaged \in BOOLEAN
  BY DEF Inv, OwnInv, TypeInv, TypeOK
<1>2. ~ForeignRegister /\ ~ForeignDeregister
  BY DEF ForeignRegister, ForeignDeregister
<1>3. CASE /\ Create \/ Update
           /\ made' = made \cup {desired.spec.id}
           /\ \E t \in Targets : aws' = [aws EXCEPT ![desired.spec.id] = t]
  <2>1. pc \in {"create", "update"} /\ i = desired.spec.id
    BY <1>1, <1>3 DEF Create, Update
  <2>2. isManaged /\ isManaged = managed
    BY <1>1, <2>1 DEF OwnerInv
  <2> QED
    BY <1>1, <2>1, <2>2 DEF OwnerInv, IdInv
<1>4. CASE /\ Delete
           /\ made' = made \ {latest.spec.id}
           /\ aws' = [aws EXCEPT ![latest.spec.id] = Nil]
  <2>1. pc = "delete" /\ i = latest.spec.id /\ latest # Nil
    BY <1>1, <1>4 DEF Delete, Inv, OwnInv, TypeInv, Present
  <2>2. isManaged /\ isManaged = managed
    BY <1>1, <2>1 DEF OwnerInv
  <2> QED
    BY <1>1, <2>1, <2>2 DEF OwnerInv, IdInv
<1> QED
  BY <1>2, <1>3, <1>4, MadeChanges

(* The worker writes to AWS only under the finalizer of the CR that is     *)
(* stored at that moment, and only to the target the CR names.             *)
THEOREM WritesUnderFinalizer ==
  ASSUME ~Renames
  PROVE  Spec => WritesOnlyManaged
<1> DEFINE P == pc' # pc => \A i \in Ids : aws'[i] # aws[i]
                              => managed /\ phase # "absent" /\ i = spec.id
<1>1. Inv /\ [Next]_vars => [P]_vars
  BY WritesStep
<1> QED
  BY <1>1, InvAlways, PTL DEF Spec, WritesOnlyManaged

---------------------------------------------------------------------------
(* For compositions: the invariant holds of a CR that was just written, it *)
(* owes nothing to other actors on the same AWS, who may change it and take*)
(* from the common bounds, ...                                             *)
Bounds == [user : 0 .. MaxUser, foreign : 0 .. MaxForeign,
           fault : 0 .. MaxFaults]

LEMMA FreshInv ==
  ASSUME phase \in {"absent", "live"}, managed = FALSE, spec \in UserSpecs,
         status = NoStatus, roleCR \in RoleStates, now = Epoch,
         aws = [i \in Ids |-> Nil], made = {}, queue \in Queues,
         dirty \in BOOLEAN, left \in Bounds,
         pc = "idle", desired = Nil, isManaged = FALSE, isDeleting = FALSE,
         latest = Nil, err = Nil
  PROVE  Inv
<1>1. status \in Statuses
  BY DEF NoStatus, Statuses, NoConditions, Conditions, ConditionStatus, Opt
<1>2. /\ spec \in Specs /\ roleCR \in Opt(RoleCRs)
      /\ now \in Clocks /\ now.aws \in Times
  BY TargetAssumption, ClockTypes DEF Epoch, Clocks, Times
<1>3. aws \in [Ids -> Opt(Targets)]
  BY DEF Opt
<1>4. TypeInv
  BY <1>1, <1>2, <1>3
     DEF TypeInv, TypeOK, Present, Bounds, Opt, Steps, Errors
<1> QED
  BY <1>4 DEF Inv, OwnInv, OwnerInv, IdInv, MadeInv

LEMMA StrangerKeeps ==
  ASSUME Inv, UNCHANGED <<crVars, worldVars, queue, pc, reqVars, latest, err>>,
         aws' \in [Ids -> Opt(Targets)], left' \in Bounds,
         dirty' \in BOOLEAN, made' = {i \in made : aws'[i] # Nil}
  PROVE  Inv'
<1>1. TypeInv'
  BY DEF Inv, OwnInv, TypeInv, TypeOK, Present, Bounds, crVars, worldVars,
         reqVars
<1>2. OwnerInv' /\ IdInv'
  BY DEF Inv, OwnInv, OwnerInv, IdInv, crVars, reqVars
<1>3. MadeInv'
  BY DEF Inv, MadeInv, crVars
<1> QED
  BY <1>1, <1>2, <1>3 DEF Inv, OwnInv

(* ... to the death of the process, wherever this worker was, ...          *)
LEMMA ForgetKeeps ==
  ASSUME Inv, Idle, UNCHANGED <<crVars, worldVars, aws, made>>,
         queue' \in Queues, dirty' \in BOOLEAN, left' \in Bounds
  PROVE  Inv'
<1>1. TypeInv'
  BY DEF Inv, OwnInv, TypeInv, TypeOK, Present, Bounds, Idle, crVars, worldVars,
         Opt, Steps, Errors
<1>2. OwnerInv' /\ IdInv' /\ MadeInv'
  BY DEF Inv, OwnInv, OwnerInv, IdInv, MadeInv, Idle, crVars
<1> QED
  BY <1>1, <1>2 DEF Inv, OwnInv

(* ... and what they may rely on: the worker moves neither the clock nor   *)
(* the Role CR, ...                                                        *)
LEMMA WorkerLeavesWorld ==
  ASSUME Worker \/ UserCreate \/ UserDelete \/ Resync
  PROVE  UNCHANGED worldVars
<1>1. CASE Create \/ Update
  BY <1>1 DEF Create, Update
<1> QED
  BY <1>1 DEF Worker, FetchGone, Fetch, Resolve, ReadFails, ReadNotFound,
     ReadUnmanaged, ReadManaged, ReadToDelete, Manage, ReadBack,
     ReadBackNotFound, LateInitialize, LateInitializeFails, PatchSpec, Delete,
     Unmanage, Finish, UserCreate, UserDelete, Resync, worldVars

(* ... and it leaves in AWS what it made and what it neither made nor      *)
(* removed.                                                                *)
LEMMA WorkerMakes ==
  ASSUME Inv, Worker, NEW i \in Ids, aws'[i] # Nil
  PROVE  i \in made' \/ (aws[i] # Nil /\ i \notin made)
<1>1. aws \in [Ids -> Opt(Targets)]
  BY DEF Inv, OwnInv, TypeInv, TypeOK
<1>2. CASE ~Create /\ ~Update /\ ~Delete
  <2>1. UNCHANGED <<aws, made>>
    BY <1>2 DEF Worker, FetchGone, Fetch, Resolve, ReadFails, ReadNotFound,
       ReadUnmanaged, ReadManaged, ReadToDelete, Manage, ReadBack,
       ReadBackNotFound, LateInitialize, LateInitializeFails, PatchSpec,
       Unmanage, Finish
  <2> QED
    BY <2>1
<1>3. CASE Create \/ Update
  <2>1. \/ UNCHANGED <<aws, made>>
        \/ /\ made' = made \cup {desired.spec.id}
           /\ \E t : aws' = [aws EXCEPT ![desired.spec.id] = t]
    BY <1>3 DEF Create, Update, Register
  <2> QED
    BY <1>1, <2>1
<1>4. CASE Delete
  BY <1>1, <1>4 DEF Delete
<1> QED
  BY <1>2, <1>3, <1>4

---------------------------------------------------------------------------
(* Each step of the reconciler is a step of the finalizer protocol or      *)
(* stutters: Manage marks, Register makes, Deregister unmakes, Unmanage    *)
(* unmarks.                                                                *)
LEMMA StepRefines ==
  ASSUME ~Renames, Inv, [Next]_vars
  PROVE  [Protocol!Next]_(Protocol!protocolVars)
<1> USE DEF Protocol!protocolVars, crVars
<1>1. /\ TypeOK /\ OwnerInv /\ IdInv /\ MadeInv /\ made \subseteq Ids
      /\ managed \in BOOLEAN /\ isManaged \in BOOLEAN
      /\ phase \in {"absent", "live", "deleting"}
  BY DEF Inv, OwnInv, TypeInv, TypeOK
<1>2. CASE UserCreate
  <2>1. Protocol!CreateCR
    BY <1>1, <1>2 DEF UserCreate, Protocol!CreateCR, OwnerInv
  <2> QED
    BY <2>1 DEF Protocol!Next
<1>3. CASE UserDelete
  <2>1. Protocol!DeleteCR
    BY <1>3 DEF UserDelete, Protocol!DeleteCR
  <2> QED
    BY <2>1 DEF Protocol!Next
<1>4. CASE ForeignDeregister
  <2>1. PICK i \in Ids : made' = made \ {i}
    BY <1>4 DEF ForeignDeregister
  <2>2. Protocol!Unmake(i)
    BY <1>4, <2>1 DEF ForeignDeregister, Protocol!Unmake
  <2> QED
    BY <2>2 DEF Protocol!Next
<1>5. CASE Manage
  <2>1. CASE phase = "absent"
    BY <1>5, <2>1 DEF Manage
  <2>2. CASE phase # "absent"
    <3>1. ~isManaged /\ isManaged = managed
      BY <1>1, <1>5 DEF Manage, OwnerInv
    <3>2. phase = "live"
      BY <1>1, <2>2, <3>1 DEF OwnerInv
    <3>3. Protocol!MarkManaged
      BY <1>5, <2>2, <3>2 DEF Manage, Protocol!MarkManaged
    <3> QED
      BY <3>3 DEF Protocol!Next
  <2> QED
    BY <2>1, <2>2
<1>6. CASE Create \/ Update
  <2>1. /\ pc \in {"create", "update"}
        /\ UNCHANGED <<phase, managed>>
    BY <1>6 DEF Create, Update
  <2>2. isManaged /\ isManaged = managed
    BY <1>1, <2>1 DEF OwnerInv
  <2>3. desired.spec.id \in Ids
    BY <1>1, <2>1 DEF IdInv, TypeOK, Specs
  <2>4. PICK i \in Ids : i = desired.spec.id
    BY <2>3
  <2>5. CASE made' = made \cup {desired.spec.id}
    <3>1. Protocol!Make(i)
      BY <2>1, <2>2, <2>4, <2>5 DEF Protocol!Make
    <3> QED
      BY <3>1 DEF Protocol!Next
  <2>6. CASE made' = made
    BY <2>1, <2>6
  <2> QED
    BY <1>6, <2>5, <2>6 DEF Create, Update, Register
<1>7. CASE Delete
  <2>1. /\ pc = "delete"
        /\ UNCHANGED <<phase, managed>>
        /\ made' = made \/ made' = made \ {latest.spec.id}
    BY <1>7 DEF Delete
  <2>2. latest.spec.id \in Ids
    BY <1>1, <2>1, ResourceAssumption
       DEF IdInv, TypeOK, Specs, Inv, OwnInv, TypeInv, Present
  <2>3. PICK i \in Ids : i = latest.spec.id
    BY <2>2
  <2>4. CASE made' = made \ {latest.spec.id}
    <3>1. Protocol!Unmake(i)
      BY <2>1, <2>3, <2>4 DEF Protocol!Unmake
    <3> QED
      BY <3>1 DEF Protocol!Next
  <2> QED
    BY <2>1, <2>4
<1>8. CASE Unmanage
  <2>1. phase = "deleting" /\ made = {}
    BY <1>1, <1>8 DEF Unmanage, OwnerInv, MadeInv
  <2>2. Protocol!MarkUnmanaged
    BY <1>8, <2>1 DEF Unmanage, Protocol!MarkUnmanaged
  <2> QED
    BY <2>2 DEF Protocol!Next
<1>9. ASSUME ~UserCreate, ~UserDelete, ~ForeignDeregister, ~Manage, ~Create,
             ~Update, ~Delete, ~Unmanage
      PROVE  UNCHANGED <<phase, managed, made>>
  BY <1>9 DEF Inv, Next, Worker, Environment, UserEdit, ForeignRegister,
     RoleChange, Tick, Resync, Crash, FetchGone, Fetch, Resolve, ReadFails,
     ReadNotFound, ReadUnmanaged, ReadManaged, ReadToDelete, ReadBack,
     ReadBackNotFound, LateInitialize, LateInitializeFails, PatchSpec, Finish,
     vars
<1> QED
  BY <1>2, <1>3, <1>4, <1>5, <1>6, <1>7, <1>8, <1>9

(* The reconciler implements the finalizer protocol: AWS is changed only   *)
(* on behalf of a CR that carries the finalizer, and such a CR disappears  *)
(* only when nothing made for it is left.                                  *)
THEOREM ImplementsProtocol ==
  ASSUME ~Renames
  PROVE  Spec => FinalizerRefinement
<1>1. Init => Protocol!Init
  BY DEF Init, Protocol!Init
<1>2. Inv /\ [Next]_vars => [Protocol!Next]_(Protocol!protocolVars)
  BY StepRefines
<1> QED
  BY <1>1, <1>2, InvAlways, PTL DEF Spec, FinalizerRefinement, Protocol!Spec
============================================================================

--------------------- MODULE ScalableTargetSync_proofs ---------------------
(* Proofs about what ScalableTarget writes: that a status which claims     *)
(* Synced is honest, that an update spares what the user left out, that    *)
(* late initialization fills in the role and nothing else, and that        *)
(* LastModifiedTime never goes back.  Users may rename targets here.       *)
EXTENDS ScalableTarget_proofs

---------------------------------------------------------------------------
(* The fields that the operators of the resource manager set and keep.     *)

LEMMA SdkFindAllFields ==
  ASSUME NEW r \in Resources, NEW t \in Targets
  PROVE  /\ SdkFind(r, t) \in Resources
         /\ SdkFind(r, t).spec.id = r.spec.id
         /\ SdkFind(r, t).spec.ref = r.spec.ref
         /\ SdkFind(r, t).spec.cap = t.cap
         /\ SdkFind(r, t).spec.role = t.role
         /\ SdkFind(r, t).spec.susp = t.susp
         /\ SdkFind(r, t).status.conds = r.status.conds
         /\ SdkFind(r, t).status.lmt = IF r.status.lmt = Nil
                                       THEN [by |-> "aws", at |-> t.ctime]
                                       ELSE r.status.lmt
<1> DEFINE s  == [r.spec EXCEPT !.cap = t.cap, !.role = t.role, !.susp = t.susp]
           st == [r.status EXCEPT !.ctime = t.ctime]
           st2 == CustomSetLastModifiedTimeToCreationTime(st)
<1>1. t # Nil /\ t.ctime # Nil /\ t.ctime \in Times
  BY ResourceAssumption, AckAssumption DEF Targets, Times
<1>2. SdkFind(r, t) \in Resources
  BY <1>1, SdkFindType, ResourceAssumption DEF Opt
<1>3. /\ st \in Statuses /\ st.conds = r.status.conds
      /\ st.ctime = t.ctime /\ st.lmt = r.status.lmt
  BY <1>1 DEF Resources, Statuses, Opt
<1> HIDE DEF st
<1>4. /\ st2.conds = r.status.conds
      /\ st2.lmt = IF r.status.lmt = Nil THEN [by |-> "aws", at |-> t.ctime]
                   ELSE r.status.lmt
  BY <1>1, <1>3 DEF CustomSetLastModifiedTimeToCreationTime, Statuses, Opt, Stamps,
                    ClockNames
<1>5. /\ s.id = r.spec.id /\ s.ref = r.spec.ref
      /\ s.cap = t.cap /\ s.role = t.role /\ s.susp = t.susp
  BY DEF Resources, Specs
<1> HIDE DEF s, st2
<1>6. SdkFind(r, t) = [spec |-> s, status |-> st2]
  BY <1>1 DEF SdkFind, s, st, st2
<1>7. /\ SdkFind(r, t).spec = s
      /\ SdkFind(r, t).status = st2
  BY <1>6
<1> QED
  BY <1>2, <1>4, <1>5, <1>7

LEMMA SdkFindFields ==
  ASSUME NEW r \in Resources, NEW t \in Targets
  PROVE  /\ SdkFind(r, t) \in Resources
         /\ SdkFind(r, t).spec.id = r.spec.id
         /\ SdkFind(r, t).spec.ref = r.spec.ref
         /\ SdkFind(r, t).spec.cap = t.cap
         /\ SdkFind(r, t).spec.role = t.role
         /\ SdkFind(r, t).spec.susp = t.susp
         /\ SdkFind(r, t).status.conds = r.status.conds
  BY SdkFindAllFields

LEMMA ConditionsFields ==
  ASSUME NEW r \in Resources, NEW e \in Errors
  PROVE  /\ OnError(r, e).status.lmt = r.status.lmt
         /\ OnError(r, e).status.conds.synced = r.status.conds.synced
         /\ OnError(r, "terminal").status.conds.terminal = "True"
         /\ OnSuccess(r).status.lmt = r.status.lmt
         /\ OnSuccess(r).status.conds.synced = r.status.conds.synced
<1> DEFINE ce == UpdateConditions(r.status.conds, e)
           ct == UpdateConditions(r.status.conds, "terminal")
           cs == UpdateConditions(r.status.conds, Nil)
<1>1. r.status.conds \in Conditions
  BY DEF Resources, Statuses
<1>2. ce \in Conditions /\ ce.synced = r.status.conds.synced
  BY <1>1 DEF UpdateConditions, Conditions, ConditionStatus, Opt
<1>3. cs \in Conditions /\ cs.synced = r.status.conds.synced
  BY <1>1 DEF UpdateConditions, Conditions, ConditionStatus, Opt
<1>4. ct \in Conditions /\ ct.terminal = "True"
  BY <1>1 DEF UpdateConditions, Conditions, ConditionStatus, Opt
<1>5. /\ OnError(r, e) = [r EXCEPT !.status = [r.status EXCEPT !.conds = ce]]
      /\ OnError(r, "terminal")
           = [r EXCEPT !.status = [r.status EXCEPT !.conds = ct]]
      /\ OnSuccess(r) = [r EXCEPT !.status = [r.status EXCEPT !.conds = cs]]
  BY DEF OnError, OnSuccess, Resources, Statuses
<1> HIDE DEF ce, ct, cs
<1>6. /\ OnError(r, e).status.lmt = r.status.lmt
      /\ OnError(r, e).status.conds.synced = r.status.conds.synced
  BY <1>2, <1>5 DEF Resources, Statuses
<1>7. /\ OnSuccess(r).status.lmt = r.status.lmt
      /\ OnSuccess(r).status.conds.synced = r.status.conds.synced
  BY <1>3, <1>5 DEF Resources, Statuses
<1>8. OnError(r, "terminal").status.conds.terminal = "True"
  BY <1>4, <1>5 DEF Resources, Statuses
<1> QED
  BY <1>6, <1>7, <1>8

LEMMA LateInitFields ==
  ASSUME NEW o \in Resources, NEW r \in Resources
  PROVE  LET filled == LateInitializeFromReadOneOutput(o, r)
         IN  /\ filled \in Resources
             /\ filled.status = r.status
             /\ filled.spec = [r.spec EXCEPT !.role = filled.spec.role]
             /\ r.spec.role # Nil => filled.spec = r.spec
             /\ filled.spec.role # r.spec.role
                  => r.spec.role = Nil /\ filled.spec.role = o.spec.role
  BY LateInitType DEF LateInitializeFromReadOneOutput, Resources, Specs

LEMMA LateConditionFields ==
  ASSUME NEW r \in Resources
  PROVE  LET failed == LateInitializeFailed(r)
             done   == [r EXCEPT !.status.conds.late = "True"]
         IN  /\ failed.spec = r.spec /\ failed.status.lmt = r.status.lmt
             /\ failed.status.conds.synced = "False"
             /\ done.spec = r.spec /\ done.status.lmt = r.status.lmt
             /\ done.status.conds.synced = r.status.conds.synced
<1> DEFINE c == [r.status.conds EXCEPT !.late = "False", !.synced = "False"]
           d == [r.status.conds EXCEPT !.late = "True"]
<1>1. /\ LateInitializeFailed(r)
           = [r EXCEPT !.status = [r.status EXCEPT !.conds = c]]
      /\ [r EXCEPT !.status.conds.late = "True"]
           = [r EXCEPT !.status = [r.status EXCEPT !.conds = d]]
  BY DEF LateInitializeFailed, Resources, Statuses, Conditions
<1>2. c.synced = "False" /\ d.synced = r.status.conds.synced
  BY DEF Resources, Statuses, Conditions
<1> HIDE DEF c, d
<1>3. /\ LateInitializeFailed(r).spec = r.spec
      /\ LateInitializeFailed(r).status.lmt = r.status.lmt
      /\ LateInitializeFailed(r).status.conds = c
  BY <1>1 DEF Resources, Statuses
<1>4. /\ [r EXCEPT !.status.conds.late = "True"].spec = r.spec
      /\ [r EXCEPT !.status.conds.late = "True"].status.lmt = r.status.lmt
      /\ [r EXCEPT !.status.conds.late = "True"].status.conds = d
  BY <1>1 DEF Resources, Statuses
<1> QED
  BY <1>2, <1>3, <1>4

(* The defaults are AWS's own values, for the flags the user left out.     *)
LEMMA DefaultsFields ==
  ASSUME NEW a \in Specs, NEW b, b.susp \in [Flags -> BOOLEAN]
  PROVE  LET d == CustomSetDefaults(a, b)
         IN  /\ d \in Specs
             /\ d.id = a.id /\ d.cap = a.cap /\ d.role = a.role /\ d.ref = a.ref
             /\ d.susp # Nil
             /\ \A f \in Flags : d.susp[f] = IF a.susp # Nil /\ a.susp[f] # Nil
                                             THEN a.susp[f] ELSE b.susp[f]
<1> DEFINE given == IF a.susp = Nil THEN [f \in Flags |-> Nil] ELSE a.susp
           susp  == [f \in Flags |-> IF given[f] = Nil THEN b.susp[f]
                                     ELSE given[f]]
<1>1. b.susp \in [Flags -> Opt(BOOLEAN)] /\ b.susp # Nil
  <2>1. b.susp \in [Flags -> Opt(BOOLEAN)]
    BY DEF Opt
  <2> QED
    BY <2>1, ResourceAssumption
<1>2. given \in [Flags -> Opt(BOOLEAN)]
  BY DEF Specs, Opt
<1>3. susp \in [Flags -> Opt(BOOLEAN)] /\ susp # Nil
  <2>1. susp \in [Flags -> Opt(BOOLEAN)]
    BY <1>1, <1>2 DEF Opt
  <2> QED
    BY <2>1, ResourceAssumption
<1>4. \A f \in Flags : susp[f] = IF a.susp # Nil /\ a.susp[f] # Nil
                                 THEN a.susp[f] ELSE b.susp[f]
  OBVIOUS
<1>5. CustomSetDefaults(a, b) = [a EXCEPT !.susp = susp]
  BY <1>1 DEF CustomSetDefaults
<1> HIDE DEF susp
<1>6. /\ CustomSetDefaults(a, b) \in Specs
      /\ CustomSetDefaults(a, b).susp = susp
      /\ CustomSetDefaults(a, b).id = a.id
      /\ CustomSetDefaults(a, b).cap = a.cap
      /\ CustomSetDefaults(a, b).role = a.role
      /\ CustomSetDefaults(a, b).ref = a.ref
  BY <1>3, <1>5 DEF Specs, Opt
<1> QED
  BY <1>3, <1>4, <1>6

(* A reference that resolves gives the role the user wants.                *)
LEMMA ResolvedFields ==
  ASSUME NEW s \in Specs, NEW cr \in Opt(RoleCRs), ResolveReferences(s, cr).ok
  PROVE  LET r == ResolveReferences(s, cr).spec
         IN  /\ r \in Specs
             /\ r.id = s.id /\ r.cap = s.cap /\ r.ref = s.ref /\ r.susp = s.susp
             /\ r.role = IF s.ref = "named" THEN cr.arn ELSE s.role
             /\ (r.role = Nil) => s.role = Nil
             /\ (s.ref = "named") => r.role # Nil
  BY ResourceAssumption
     DEF ResolveReferences, GetReferencedResourceState, RoleCRs, Specs, Opt

(* What a registration sets, and what it keeps of a target that exists.    *)
LEMMA RegisteredFields ==
  ASSUME NEW t \in Opt(Targets), NEW s \in Specs, NEW time \in Times,
         PayloadOK(s), Accepted(t, Payload(s))
  PROVE  LET new == Registered(t, Payload(s), time)
         IN  /\ new \in Targets
             /\ s.cap # Nil => new.cap = s.cap
             /\ s.role # Nil => new.role = s.role
             /\ s.susp # Nil => \A f \in Flags : s.susp[f] # Nil
                                                   => new.susp[f] = s.susp[f]
             /\ t = Nil => new.ctime = time
             /\ t # Nil => /\ new.ctime = t.ctime
                           /\ s.cap = Nil => new.cap = t.cap
                           /\ s.role = Nil => new.role = t.role
                           /\ s.susp = Nil => new.susp = t.susp
                           /\ s.susp # Nil =>
                                \A f \in Flags : s.susp[f] = Nil
                                                   => new.susp[f] = t.susp[f]
<1> DEFINE old == IF t # Nil THEN t
                  ELSE [cap |-> s.cap, role |-> ServiceRole,
                        susp |-> [f \in Flags |-> FALSE], ctime |-> time]
           susp == IF s.susp = Nil THEN old.susp
                   ELSE [f \in Flags |-> IF s.susp[f] # Nil THEN s.susp[f]
                                         ELSE old.susp[f]]
           new == Registered(t, Payload(s), time)
<1>1. Payload(s) = [cap |-> s.cap, role |-> s.role, susp |-> s.susp]
  BY DEF Payload
<1>2. new = [cap   |-> IF s.cap # Nil THEN s.cap ELSE old.cap,
             role  |-> IF s.role # Nil THEN s.role ELSE old.role,
             susp  |-> susp,
             ctime |-> old.ctime]
  BY <1>1 DEF Registered
<1>3. new \in Targets
  BY PayloadType, RegisteredType
<1>4. s.susp # Nil => \A f \in Flags : susp[f] = IF s.susp[f] # Nil THEN s.susp[f]
                                                 ELSE old.susp[f]
  OBVIOUS
<1>5. s.susp = Nil => susp = old.susp
  OBVIOUS
<1>6. t = Nil => old.ctime = time
  OBVIOUS
<1>7. t # Nil => old = t
  OBVIOUS
<1> HIDE DEF old, susp
<1>8. /\ new.cap = IF s.cap # Nil THEN s.cap ELSE old.cap
      /\ new.role = IF s.role # Nil THEN s.role ELSE old.role
      /\ new.susp = susp
      /\ new.ctime = old.ctime
  BY <1>2
<1> HIDE DEF new
<1> QED
  BY <1>3, <1>4, <1>5, <1>6, <1>7, <1>8 DEF new

---------------------------------------------------------------------------
(* A registration that takes effect, and the ways Create and Update end:   *)
(* it may take effect although it is reported as failed.                   *)
Registers(s) ==
  /\ PayloadOK(s) /\ Accepted(aws[s.id], Payload(s))
  /\ aws' = [aws EXCEPT ![s.id] = Registered(@, Payload(s), now.aws)]

LEMMA CreateEnds ==
  ASSUME TypeInv, Create
  PROVE  /\ pc = "create" /\ desired \in Resources
         /\ UNCHANGED <<crVars, worldVars, queue, reqVars, dirty>>
         /\ aws' = aws \/ Registers(desired.spec)
         /\ \/ FinishWith(OnError(desired, "error"), "error")
            \/ /\ Registers(desired.spec)
               /\ latest' = OnSuccess(desired)
               /\ pc' = "readback"
<1> DEFINE Fails == FinishWith(OnError(desired, "error"), "error")
           Does  == /\ latest' = OnSuccess(desired)
                    /\ pc' = "readback"
                    /\ UNCHANGED err
<1>1. /\ pc = "create" /\ Register(desired.spec, Fails, Does)
      /\ UNCHANGED <<crVars, worldVars, queue, reqVars, dirty>>
  BY DEF Create
<1>2. desired \in Resources
  BY <1>1, InHand
<1> HIDE DEF Fails, Does
<1>3. /\ aws' = aws \/ Registers(desired.spec)
      /\ Fails \/ (Registers(desired.spec) /\ Does)
  BY <1>1 DEF Register, Registers
<1> QED
  BY <1>1, <1>2, <1>3 DEF Fails, Does

LEMMA UpdateEnds ==
  ASSUME TypeInv, Update
  PROVE  /\ pc = "update" /\ desired \in Resources /\ latest \in Resources
         /\ UNCHANGED <<crVars, worldVars, queue, reqVars, dirty>>
         /\ aws' = aws \/ Registers(desired.spec)
         /\ \/ FinishWith(OnError(latest, "error"), "error")
            \/ /\ Registers(desired.spec)
               /\ latest' = OnSuccess(SdkUpdated(desired, now))
               /\ pc' = "late"
<1> DEFINE Fails == FinishWith(OnError(latest, "error"), "error")
           Does  == /\ latest' = OnSuccess(SdkUpdated(desired, now))
                    /\ pc' = "late"
                    /\ UNCHANGED err
<1>1. /\ pc = "update" /\ Register(desired.spec, Fails, Does)
      /\ UNCHANGED <<crVars, worldVars, queue, reqVars, dirty>>
  BY DEF Update
<1>2. desired \in Resources /\ latest \in Resources
  BY <1>1, InHand
<1> HIDE DEF Fails, Does
<1>3. /\ aws' = aws \/ Registers(desired.spec)
      /\ Fails \/ (Registers(desired.spec) /\ Does)
  BY <1>1 DEF Register, Registers
<1> QED
  BY <1>1, <1>2, <1>3 DEF Fails, Does

(* The target that was registered, field by field.                         *)
LEMMA RegistersFields ==
  ASSUME TypeOK, NEW s \in Specs, Registers(s)
  PROVE  LET old == aws[s.id]
             new == aws'[s.id]
         IN  /\ s.id \in Ids /\ new \in Targets /\ new # Nil
             /\ s.cap # Nil => new.cap = s.cap
             /\ s.role # Nil => new.role = s.role
             /\ s.susp # Nil => \A f \in Flags : s.susp[f] # Nil
                                                   => new.susp[f] = s.susp[f]
             /\ old = Nil => new.ctime = now.aws
             /\ old # Nil => /\ new.ctime = old.ctime
                             /\ s.cap = Nil => new.cap = old.cap
                             /\ s.role = Nil => new.role = old.role
                             /\ s.susp = Nil => new.susp = old.susp
                             /\ s.susp # Nil =>
                                  \A f \in Flags : s.susp[f] = Nil
                                                     => new.susp[f] = old.susp[f]
             /\ \A i \in Ids \ {s.id} : aws'[i] = aws[i]
<1>1. /\ s.id \in Ids /\ aws \in [Ids -> Opt(Targets)]
      /\ now \in Clocks /\ now.aws \in Times
  BY ClockTypes DEF Specs, TypeOK
<1>2. /\ aws[s.id] \in Opt(Targets)
      /\ PayloadOK(s) /\ Accepted(aws[s.id], Payload(s))
  BY <1>1 DEF Registers
<1>3. /\ aws'[s.id] = Registered(aws[s.id], Payload(s), now.aws)
      /\ \A i \in Ids \ {s.id} : aws'[i] = aws[i]
  BY <1>1 DEF Registers
<1> QED
  BY <1>1, <1>2, <1>3, RegisteredFields, ResourceAssumption

---------------------------------------------------------------------------
(* A reading of the controller's clock was not taken in the future.        *)
NotAhead(stamp, clocks) ==
  stamp.by = "controller" => stamp.at <= clocks["controller"]

(* What a manager call returns has no time in the future and none before   *)
(* that of the status it was given.                                        *)
NotBefore(r, st) ==
  /\ (r.status.lmt # Nil) => NotAhead(r.status.lmt, now)
  /\ (st.lmt # Nil) => r.status.lmt # Nil /\ Supersedes(r.status.lmt, st.lmt)

(* LastModifiedTime.  No time of the controller that is kept anywhere lies *)
(* in the future, and what a reconcile is about to write is not before     *)
(* what the CR has: it is the same, the creation time where there was      *)
(* none, or the controller's present time.                                 *)
ClockInv ==
  /\ (status.lmt # Nil) => NotAhead(status.lmt, now)
  /\ (pc = "idle") => latest = Nil
  /\ (pc # "idle")
       => /\ (status.lmt # Nil) => desired.status.lmt = status.lmt
          /\ (desired.status.lmt # Nil) => NotAhead(desired.status.lmt, now)
  /\ (latest # Nil) => NotBefore(latest, desired.status)

(* Only Tick lets time pass, and forward.                                  *)
LEMMA NowChanges ==
  ASSUME TypeInv, [Next]_vars
  PROVE  \A s \in Stamps : NotAhead(s, now) => NotAhead(s, now')
<1>1. CASE now' = now
  BY <1>1
<1>2. CASE Create \/ Update
  BY <1>1, <1>2, CreateEnds, UpdateEnds DEF worldVars
<1>3. ASSUME ~Create, ~Update, ~Tick PROVE now' = now
  BY <1>3 DEF Next, Worker, Environment, UserCreate, UserEdit, UserDelete,
     ForeignRegister, ForeignDeregister, RoleChange, Resync, Crash, FetchGone,
     Fetch, Resolve, ReadFails, ReadNotFound, ReadUnmanaged, ReadManaged,
     ReadToDelete, Manage, ReadBack, ReadBackNotFound, LateInitialize,
     LateInitializeFails, PatchSpec, Delete, Unmanage, Finish, worldVars, vars
<1>4. CASE Tick
  <2>1. now \in [ClockNames -> Nat]
    BY DEF TypeInv, TypeOK, Clocks, Times
  <2>2. PICK c \in ClockNames : now' = [now EXCEPT ![c] = @ + 1]
    BY <1>4 DEF Tick
  <2>3. /\ now["controller"] \in Nat /\ now'["controller"] \in Nat
        /\ now["controller"] <= now'["controller"]
    BY <2>1, <2>2 DEF ClockNames
  <2> QED
    BY <2>3 DEF NotAhead, Stamps, Times
<1> QED
  BY <1>1, <1>2, <1>3, <1>4

LEMMA ReadOneTime ==
  ASSUME TypeInv, ClockInv, NEW r \in Resources, NEW st, NotBefore(r, st),
         ReadOne(r) # Nil
  PROVE  ReadOne(r) \in Resources /\ NotBefore(ReadOne(r), st)
<1>1. r.spec.id \in Ids /\ aws \in [Ids -> Opt(Targets)]
  BY DEF Resources, Specs, TypeInv, TypeOK
<1>2. /\ aws[r.spec.id] \in Targets
      /\ ReadOne(r) = SdkFind(r, aws[r.spec.id])
  BY <1>1 DEF ReadOne, SdkFind, Opt
<1> DEFINE created == [by |-> "aws", at |-> aws[r.spec.id].ctime]
<1>3. created.by = "aws"
  OBVIOUS
<1> HIDE DEF created
<1>4. /\ ReadOne(r) \in Resources
      /\ ReadOne(r).status.lmt = IF r.status.lmt = Nil THEN created
                                 ELSE r.status.lmt
  BY <1>2, SdkFindAllFields DEF created
<1>5. NotAhead(created, now)
  BY <1>3 DEF NotAhead
<1>6. CASE r.status.lmt = Nil
  BY <1>4, <1>5, <1>6 DEF NotBefore
<1>7. CASE r.status.lmt # Nil
  BY <1>4, <1>7 DEF NotBefore
<1> QED
  BY <1>6, <1>7

LEMMA NextClock ==
  ASSUME TypeInv, ClockInv, [Next]_vars
  PROVE  ClockInv'
<1>1. /\ TypeOK /\ now \in Clocks
      /\ \A s \in Stamps : NotAhead(s, now) => NotAhead(s, now')
      /\ status \in Statuses /\ (status.lmt # Nil => status.lmt \in Stamps)
      /\ (latest # Nil) => latest \in Resources
  <2>1. /\ TypeOK /\ now \in Clocks /\ status \in Statuses
        /\ (latest # Nil) => latest \in Resources
    BY DEF TypeInv, TypeOK, Opt
  <2>2. status.lmt # Nil => status.lmt \in Stamps
    BY <2>1 DEF Statuses, Opt
  <2> QED
    BY <2>1, <2>2, NowChanges
<1>h. /\ (pc # "idle") => desired \in Resources
      /\ (pc \in {"readback", "update", "late", "patch", "delete", "finish"})
           => latest \in Resources /\ latest # Nil
  BY InHand, ResourceAssumption
<1>e. {"error", "terminal", "requeue", "notfound"} \subseteq Errors
  BY DEF Errors, Opt
<1>i. \A r \in Resources : r.status.lmt # Nil => r.status.lmt \in Stamps
  BY DEF Resources, Statuses, Opt
(* What is left to show of each step.                                      *)
<1> DEFINE Rest == /\ (status'.lmt # Nil) => NotAhead(status'.lmt, now')
                   /\ (pc' = "idle") => latest' = Nil
                   /\ (pc' # "idle")
                        => /\ (status'.lmt # Nil)
                                => desired'.status.lmt = status'.lmt
                           /\ (desired'.status.lmt # Nil)
                                => NotAhead(desired'.status.lmt, now')
                   /\ (latest' # Nil) => NotBefore(latest, desired.status)'
<1> SUFFICES Rest
  BY DEF ClockInv
<1>3. ASSUME UNCHANGED <<status, desired, latest>>,
             pc' = pc \/ (pc # "idle" /\ pc' # "idle")
      PROVE  Rest
  <2>1. (pc # "idle" /\ desired.status.lmt # Nil) => desired.status.lmt \in Stamps
    BY <1>h, <1>i
  <2>2. (latest # Nil /\ latest.status.lmt # Nil) => latest.status.lmt \in Stamps
    BY <1>1, <1>i
  <2> QED
    BY <1>1, <1>3, <2>1, <2>2 DEF ClockInv, NotBefore
<1>4. CASE UserEdit \/ ForeignRegister \/ ForeignDeregister \/ RoleChange
           \/ Tick \/ Resync \/ FetchGone \/ UNCHANGED vars
  <2>1. UNCHANGED <<status, desired, latest>> /\ pc' = pc
    BY <1>4 DEF UserEdit, ForeignRegister, ForeignDeregister, RoleChange, Tick,
                Resync, FetchGone, crVars, reqVars, vars
  <2> QED
    BY <1>3, <2>1
<1>5. CASE ReadNotFound \/ PatchSpec
  BY <1>3, <1>5 DEF ReadNotFound, PatchSpec, crVars, reqVars
<1>6. CASE Crash \/ Unmanage
  BY <1>1, <1>6 DEF Crash, Unmanage, Idle, NoStatus, ClockInv, crVars, worldVars
<1>7. CASE UserCreate \/ UserDelete
  <2>1. /\ status' = NoStatus \/ status' = status
        /\ UNCHANGED <<now, pc, desired, latest>>
    BY <1>7 DEF UserCreate, UserDelete, worldVars, reqVars
  <2> QED
    BY <1>1, <2>1 DEF ClockInv, NotBefore, NoStatus
<1>8. CASE Manage
  <2>1. UNCHANGED <<status, now>>
    BY <1>8 DEF Manage, worldVars
  <2>2. CASE phase = "absent"
    BY <1>1, <1>8, <2>1, <2>2 DEF Manage, Idle, ClockInv
  <2>3. CASE phase # "absent"
    BY <1>3, <1>8, <2>1, <2>3 DEF Manage
  <2> QED
    BY <2>2, <2>3
<1>9. CASE Fetch
  <2>1. /\ UNCHANGED <<status, latest, now>> /\ pc = "idle"
        /\ desired'.status
             = IF phase = "deleting" THEN status
               ELSE [status EXCEPT !.conds = NoConditions]
    BY <1>9 DEF Fetch, crVars, worldVars
  <2>2. desired'.status.lmt = status.lmt /\ latest' = Nil
    BY <1>1, <2>1 DEF ClockInv, Statuses
  <2> QED
    BY <1>1, <2>1, <2>2 DEF ClockInv
(* Steps that leave the times of desired alone and make a new result.      *)
<1>10. ASSUME UNCHANGED <<status, now>>, pc # "idle", pc' # "idle",
              desired'.status = desired.status,
              latest' # Nil => NotBefore(latest', desired.status)
       PROVE  Rest
  BY <1>1, <1>10 DEF ClockInv, NotBefore
<1>11. (pc # "idle") => NotBefore(desired, desired.status)
  BY DEF ClockInv, NotBefore, Supersedes
<1>12. ASSUME NEW r \in Resources, NotBefore(r, desired.status),
              NEW e \in Errors
       PROVE  /\ NotBefore(OnError(r, e), desired.status)
              /\ NotBefore(OnSuccess(r), desired.status)
  BY <1>12, ConditionsFields DEF NotBefore
<1>13. (latest # Nil) => NotBefore(latest, desired.status)
  BY DEF ClockInv
<1>14. CASE Resolve
  <2>1. /\ pc = "resolve" /\ pc' # "idle" /\ UNCHANGED <<status, now>>
        /\ desired' = [desired EXCEPT
                         !.spec = ResolveReferences(desired.spec, roleCR).spec]
        /\ latest' = latest \/ latest' = desired'
    BY <1>14 DEF Resolve, FinishWith, crVars, worldVars
  <2>2. desired'.status = desired.status
    BY <1>h, <2>1 DEF Resources
  <2>3. latest' # Nil => NotBefore(latest', desired.status)
    BY <1>11, <1>13, <2>1, <2>2 DEF NotBefore
  <2> QED
    BY <1>10, <2>1, <2>2, <2>3
<1>15. CASE ReadFails
  <2>1. PICK r \in {desired, latest} :
          /\ r \in Resources /\ NotBefore(r, desired.status)
          /\ latest' = OnError(r, "error")
    <3>1. CASE pc = "read"
      BY <1>h, <1>11, <1>15, <3>1 DEF ReadFails, FinishWith
    <3>2. CASE pc = "readback"
      BY <1>h, <1>13, <1>15, <3>2 DEF ReadFails, FinishWith
    <3> QED
      BY <1>15, <3>1, <3>2 DEF ReadFails
  <2>2. NotBefore(latest', desired.status)
    BY <1>e, <1>12, <2>1
  <2> QED
    BY <1>10, <1>15, <2>2
       DEF ReadFails, FinishWith, crVars, worldVars, reqVars
<1>16. CASE ReadUnmanaged \/ ReadToDelete
  <2>1. pc = "read" /\ ReadOne(desired) # Nil /\ desired \in Resources
    BY <1>h, <1>16 DEF ReadUnmanaged, ReadToDelete
  <2>2. ReadOne(desired) \in Resources /\ NotBefore(ReadOne(desired), desired.status)
    BY <1>11, <2>1, ReadOneTime
  <2>3. /\ OnSuccess(ReadOne(desired)) \in Resources
        /\ NotBefore(OnSuccess(ReadOne(desired)), desired.status)
    BY <1>e, <1>12, <2>2, ConditionsType
  <2>4. NotBefore(OnError(OnSuccess(ReadOne(desired)), "terminal"), desired.status)
    BY <1>e, <1>12, <2>3
  <2> QED
    BY <1>10, <1>16, <2>3, <2>4
       DEF ReadUnmanaged, ReadToDelete, FinishWith, crVars, worldVars, reqVars
<1>17. CASE ReadManaged
  <2> DEFINE observed == ReadOne(desired)
             s == CustomSetDefaults(desired.spec, observed.spec)
  <2>1. /\ pc = "read" /\ observed # Nil /\ desired \in Resources
        /\ UNCHANGED <<status, now>> /\ pc' # "idle"
        /\ latest' = OnSuccess(observed)
        /\ desired' = [desired EXCEPT !.spec = s]
    BY <1>h, <1>17 DEF ReadManaged, crVars, worldVars
  <2> HIDE DEF s
  <2>2. observed \in Resources /\ NotBefore(observed, desired.status)
    BY <1>11, <2>1, ReadOneTime
  <2>3. NotBefore(latest', desired.status)
    BY <1>e, <1>12, <2>1, <2>2
  <2>4. desired'.status = desired.status
    BY <2>1 DEF Resources
  <2> QED
    BY <1>10, <2>1, <2>3, <2>4
<1>18. CASE Create
  <2>1. /\ pc = "create" /\ UNCHANGED <<status, now, desired>> /\ pc' # "idle"
        /\ desired \in Resources
        /\ latest' \in {OnError(desired, "error"), OnSuccess(desired)}
    BY <1>18, CreateEnds DEF FinishWith, crVars, worldVars, reqVars
  <2>2. NotBefore(latest', desired.status)
    BY <1>e, <1>11, <1>12, <2>1
  <2> QED
    BY <1>10, <2>1, <2>2
<1>19. CASE ReadBackNotFound
  <2>1. /\ pc = "readback" /\ UNCHANGED <<status, now, desired, latest>>
        /\ pc' = "finish"
    BY <1>19 DEF ReadBackNotFound, FinishWith, crVars, worldVars, reqVars
  <2> QED
    BY <1>3, <2>1
<1>20. CASE ReadBack
  <2> DEFINE observed == ReadOne(latest)
  <2>1. /\ pc = "readback" /\ UNCHANGED <<status, now, desired>> /\ pc' = "late"
        /\ latest \in Resources /\ latest # Nil /\ observed # Nil
        /\ latest' = [latest EXCEPT !.status = OnSuccess(observed).status]
    BY <1>h, <1>20 DEF ReadBack, crVars, worldVars, reqVars
  <2>2. observed \in Resources /\ NotBefore(observed, desired.status)
    BY <1>13, <2>1, ReadOneTime
  <2>3. NotBefore(OnSuccess(observed), desired.status)
    BY <1>e, <1>12, <2>2
  <2>4. latest'.status = OnSuccess(observed).status
    BY <2>1 DEF Resources
  <2>5. NotBefore(latest', desired.status)
    BY <2>3, <2>4 DEF NotBefore
  <2> QED
    BY <1>10, <2>1, <2>5
<1>21. CASE Update
  <2>1. /\ pc = "update" /\ UNCHANGED <<status, now, desired>> /\ pc' # "idle"
        /\ desired \in Resources /\ latest \in Resources /\ latest # Nil
        /\ latest' \in {OnError(latest, "error"),
                        OnSuccess(SdkUpdated(desired, now))}
    BY <1>h, <1>21, UpdateEnds DEF FinishWith, crVars, worldVars, reqVars
  <2>2. /\ SdkUpdated(desired, now) \in Resources
        /\ SdkUpdated(desired, now).status.lmt = Stamp(now, "controller")
    BY <1>1, <2>1, ClockTypes DEF SdkUpdated, Resources, Statuses, Opt
  <2>3. NotBefore(SdkUpdated(desired, now), desired.status)
    <3> DEFINE new == Stamp(now, "controller")
    <3>1. /\ new # Nil /\ new.by = "controller" /\ new.at = now["controller"]
          /\ now["controller"] \in Nat
      BY <1>1, ClockTypes, AckAssumption DEF Stamp, Clocks, ClockNames, Times
    <3> HIDE DEF new
    <3>2. NotAhead(new, now)
      BY <3>1 DEF NotAhead
    <3>3. ASSUME desired.status.lmt # Nil PROVE Supersedes(new, desired.status.lmt)
      <4>1. desired.status.lmt \in Stamps /\ NotAhead(desired.status.lmt, now)
        BY <1>i, <2>1, <3>3 DEF ClockInv
      <4> QED
        BY <3>1, <4>1 DEF NotAhead, Supersedes, Stamps, Times
    <3> QED
      BY <2>2, <3>1, <3>2, <3>3 DEF NotBefore, new
  <2>4. NotBefore(latest', desired.status)
    BY <1>e, <1>12, <1>13, <2>1, <2>2, <2>3
  <2> QED
    BY <1>10, <2>1, <2>4
<1>22. CASE LateInitialize
  <2> DEFINE observed == ReadOne(latest)
             filled == LateInitializeFromReadOneOutput(observed, latest)
  <2>1. /\ pc = "late" /\ latest \in Resources /\ latest # Nil
        /\ observed \in Resources /\ desired \in Resources
    BY <1>h, <1>1, <1>22, ReadOneType DEF LateInitialize
  <2>2. /\ UNCHANGED <<status, now>> /\ pc' # "idle"
        /\ latest' \in {LateInitializeFailed(filled),
                        [filled EXCEPT !.status.conds.late = "True"]}
        /\ desired' = [desired EXCEPT !.spec = latest.spec]
    BY <1>22 DEF LateInitialize, crVars, worldVars
  <2>3. filled \in Resources /\ filled.status = latest.status
    BY <2>1, LateInitFields
  <2> HIDE DEF filled
  <2>4. latest'.status.lmt = latest.status.lmt
    BY <2>2, <2>3, LateConditionFields
  <2>5. NotBefore(latest', desired.status)
    BY <1>13, <2>1, <2>4 DEF NotBefore
  <2>6. desired'.status = desired.status
    BY <2>1, <2>2 DEF Resources
  <2> QED
    BY <1>10, <2>1, <2>2, <2>5, <2>6
<1>23. CASE LateInitializeFails
  <2>1. /\ pc = "late" /\ latest \in Resources /\ latest # Nil
        /\ UNCHANGED <<status, now, desired>> /\ pc' = "finish"
        /\ latest' = LateInitializeFailed(latest)
    BY <1>h, <1>23 DEF LateInitializeFails, crVars, worldVars, reqVars
  <2>2. NotBefore(latest', desired.status)
    BY <1>13, <2>1, LateConditionFields DEF NotBefore
  <2> QED
    BY <1>10, <2>1, <2>2
<1>24. CASE Delete
  <2>1. /\ pc = "delete" /\ latest \in Resources /\ latest # Nil
        /\ UNCHANGED <<status, now, desired>> /\ pc' # "idle"
        /\ latest' \in {latest, OnError(latest, "error")}
    BY <1>h, <1>24 DEF Delete, FinishWith, crVars, worldVars, reqVars
  <2>2. NotBefore(latest', desired.status)
    BY <1>e, <1>12, <1>13, <2>1
  <2> QED
    BY <1>10, <2>1, <2>2
<1>25. CASE Finish
  <2> DEFINE to == IF isDeleting THEN latest.status
                   ELSE [latest.status EXCEPT !.conds = EnsureSynced(@, err)]
  <2>1. /\ pc = "finish" /\ UNCHANGED now /\ pc' = "idle" /\ latest' = Nil
        /\ latest \in Resources /\ latest # Nil
        /\ status' = IF phase = "absent" THEN status
                     ELSE MergePatch(status, desired.status, to)
    BY <1>h, <1>25 DEF Finish, Idle, worldVars
  <2>2. to.lmt = latest.status.lmt
    BY <2>1 DEF Resources, Statuses
  <2> HIDE DEF to
  <2>3. status'.lmt \in {status.lmt, latest.status.lmt}
    BY <1>1, <2>1, <2>2 DEF MergePatch, Statuses
  <2>4. (latest.status.lmt # Nil) => NotAhead(latest.status.lmt, now)
    BY <1>13, <2>1 DEF NotBefore
  <2> QED
    BY <2>1, <2>3, <2>4 DEF ClockInv
<1> QED
  BY <1>4, <1>5, <1>6, <1>7, <1>8, <1>9, <1>14, <1>15, <1>16, <1>17, <1>18,
     <1>19, <1>20, <1>21, <1>22, <1>23, <1>24, <1>25
     DEF Next, Worker, Environment

LEMMA ClockAlways == Spec => [](TypeInv /\ ClockInv)
<1>1. Init => ClockInv
  BY DEF Init, ClockInv, NoStatus
<1>2. TypeInv /\ ClockInv /\ [Next]_vars => ClockInv'
  BY NextClock
<1> QED
  BY <1>1, <1>2, TypeInvAlways, PTL DEF Spec

(* LastModifiedTime, once it is set, does not disappear while the CR       *)
(* exists, and the time of an update gives way to that of a later update   *)
(* only, whichever writer sets it, whatever AWS's clock and the            *)
(* controller's show, and however old the copy of the CR is that it is     *)
(* patched from.                                                           *)
THEOREM ModifiedTimeMonotone == Spec => LastModifiedNeverBack
<1> DEFINE P == phase # "absent" /\ phase' # "absent" /\ status.lmt # Nil
                  => status'.lmt # Nil /\ Supersedes(status'.lmt, status.lmt)
<1>1. TypeInv /\ ClockInv /\ [Next]_vars => [P]_vars
  <2> SUFFICES ASSUME TypeInv, ClockInv, [Next]_vars,
                      phase # "absent", phase' # "absent", status.lmt # Nil
               PROVE  status'.lmt # Nil /\ Supersedes(status'.lmt, status.lmt)
    OBVIOUS
  <2>1. status \in Statuses /\ Supersedes(status.lmt, status.lmt)
    BY DEF TypeInv, TypeOK, Supersedes
  <2>2. CASE status' = status
    BY <2>1, <2>2
  <2>3. CASE Finish
    <3> DEFINE to == IF isDeleting THEN latest.status
                     ELSE [latest.status EXCEPT !.conds = EnsureSynced(@, err)]
    <3>1. /\ pc = "finish" /\ latest \in Resources /\ latest # Nil
          /\ status' = MergePatch(status, desired.status, to)
      BY <2>3, InHand, ResourceAssumption DEF Finish
    <3>2. to.lmt = latest.status.lmt
      BY <3>1 DEF Resources, Statuses
    <3> HIDE DEF to
    <3>3. /\ desired.status.lmt = status.lmt
          /\ latest.status.lmt # Nil /\ Supersedes(latest.status.lmt, status.lmt)
      BY <3>1 DEF ClockInv, NotBefore
    <3>4. status'.lmt \in {status.lmt, latest.status.lmt}
      BY <2>1, <3>1, <3>2 DEF MergePatch, Statuses
    <3> QED
      BY <2>1, <3>3, <3>4
  <2>4. ASSUME ~Finish PROVE status' = status
    <3>1. ~UserCreate /\ ~Unmanage
      BY DEF UserCreate, Unmanage
    <3>2. CASE UserDelete
      BY <3>2 DEF UserDelete
    <3>3. CASE Create \/ Update
      BY <3>3, CreateEnds, UpdateEnds DEF crVars
    <3>4. ASSUME ~UserDelete, ~Create, ~Update PROVE status' = status
      BY <2>4, <3>1, <3>4 DEF Next, Worker, Environment, UserEdit,
         ForeignRegister, ForeignDeregister, RoleChange, Tick, Resync, Crash,
         FetchGone, Fetch, Resolve, ReadFails, ReadNotFound, ReadUnmanaged,
         ReadManaged, ReadToDelete, Manage, ReadBack, ReadBackNotFound,
         LateInitialize, LateInitializeFails, PatchSpec, Delete, crVars, vars
    <3> QED
      BY <3>2, <3>3, <3>4
  <2> QED
    BY <2>2, <2>3, <2>4
<1> QED
  BY <1>1, ClockAlways, PTL DEF Spec, LastModifiedNeverBack

---------------------------------------------------------------------------
(* Where a reconcile is and whose CR it works on.  Until somebody else acts*)
(* the CR is as it was fetched; only a CR that is not being deleted is     *)
(* created for or updated; and the spec is patched when late initialization*)
(* found a role for a CR without role and reference, and for no other      *)
(* reason.                                                                 *)
FetchedInv ==
  /\ (pc # "idle" /\ ~dirty)
       => phase = IF isDeleting THEN "deleting" ELSE "live"
  /\ (pc \in {"manage", "create", "readback", "update", "late", "patch"})
       => ~isDeleting

PatchInv ==
  (pc = "patch")
    => /\ desired.spec.ref = Nil /\ desired.spec.role = Nil
       /\ latest.spec = [desired.spec EXCEPT !.role = latest.spec.role]
       /\ err \in {Nil, "requeue"}

StepInv == OwnInv /\ FetchedInv /\ PatchInv

LEMMA LateInitEnds ==
  ASSUME TypeInv, LateInitialize
  PROVE  /\ pc = "late" /\ latest \in Resources /\ desired \in Resources
         /\ pc' \in {"finish", "patch"}
         /\ UNCHANGED <<crVars, worldVars, aws, isManaged, isDeleting, dirty>>
         /\ desired'.spec = latest.spec /\ desired'.status = desired.status
         /\ latest'.spec = [latest.spec EXCEPT !.role = latest'.spec.role]
         /\ \/ latest'.status.conds.synced = "False"
            \/ latest'.status.conds.synced = latest.status.conds.synced
         /\ err' \in {Nil, "requeue"}
         /\ aws[latest.spec.id] \in Targets
         /\ pc' = "patch" => /\ latest.spec.ref = Nil /\ latest.spec.role = Nil
                             /\ latest'.spec.role = aws[latest.spec.id].role
<1> DEFINE observed == ReadOne(latest)
           filled == LateInitializeFromReadOneOutput(observed, latest)
<1>1. /\ pc = "late" /\ latest \in Resources /\ desired \in Resources
      /\ observed \in Resources
  BY InHand, ReadOneType DEF LateInitialize, TypeInv
<1>2. /\ UNCHANGED <<crVars, worldVars, aws, isManaged, isDeleting, dirty>>
      /\ \/ latest' = LateInitializeFailed(filled) /\ err' = "requeue"
         \/ latest' = [filled EXCEPT !.status.conds.late = "True"] /\ err' = Nil
      /\ desired' = [desired EXCEPT !.spec = latest.spec]
      /\ pc' = IF ClearResolvedReferences(filled.spec)
                    = ClearResolvedReferences(latest.spec)
               THEN "finish" ELSE "patch"
  BY DEF LateInitialize
<1>3. /\ aws[latest.spec.id] \in Targets
      /\ observed.spec.role = aws[latest.spec.id].role
  <2>1. latest.spec.id \in Ids /\ aws \in [Ids -> Opt(Targets)]
    BY <1>1 DEF Resources, Specs, TypeInv, TypeOK
  <2>2. aws[latest.spec.id] # Nil
    BY <1>1, ReadOneType, ResourceAssumption DEF TypeInv
  <2>3. aws[latest.spec.id] \in Targets
    BY <2>1, <2>2 DEF Opt
  <2> QED
    BY <1>1, <2>3, SdkFindFields DEF ReadOne
<1>4. /\ filled \in Resources /\ filled.status = latest.status
      /\ filled.spec = [latest.spec EXCEPT !.role = filled.spec.role]
      /\ (latest.spec.role # Nil) => filled.spec = latest.spec
      /\ (filled.spec.role # latest.spec.role)
           => filled.spec.role = aws[latest.spec.id].role
  BY <1>1, <1>3, LateInitFields
<1> HIDE DEF filled, observed
<1>5. /\ latest'.spec = filled.spec
      /\ \/ latest'.status.conds.synced = "False"
         \/ latest'.status.conds.synced = latest.status.conds.synced
  BY <1>2, <1>4, LateConditionFields
<1>6. desired'.spec = latest.spec /\ desired'.status = desired.status
  BY <1>1, <1>2 DEF Resources
<1>7. ASSUME pc' = "patch"
      PROVE  /\ latest.spec.ref = Nil /\ latest.spec.role = Nil
             /\ filled.spec.role # latest.spec.role
  <2>1. ClearResolvedReferences(filled.spec)
          # ClearResolvedReferences(latest.spec)
    BY <1>2, <1>7
  <2>2. filled.spec # latest.spec
    BY <2>1
  <2>3. latest.spec \in Specs /\ filled.spec \in Specs
    BY <1>1, <1>4 DEF Resources
  <2>4. latest.spec.role = Nil /\ filled.spec.role # latest.spec.role
    BY <1>4, <2>2, <2>3 DEF Specs
  <2>5. ASSUME latest.spec.ref # Nil PROVE FALSE
    <3>1. filled.spec.ref # Nil
      BY <1>4, <2>3, <2>5 DEF Specs
    <3>2. [filled.spec EXCEPT !.role = Nil] = [latest.spec EXCEPT !.role = Nil]
      BY <1>4, <2>3 DEF Specs
    <3> QED
      BY <2>1, <2>5, <3>1, <3>2 DEF ClearResolvedReferences
  <2> QED
    BY <2>4, <2>5
<1> QED
  BY <1>1, <1>2, <1>3, <1>4, <1>5, <1>6, <1>7

(* Nobody disturbs a reconcile without leaving a mark.                     *)
LEMMA Disturbed ==
  ASSUME Environment, ~Tick, ~Resync
  PROVE  dirty' = TRUE
  BY DEF Environment, UserCreate, UserEdit, UserDelete, ForeignRegister,
     ForeignDeregister, RoleChange, Crash

LEMMA NextFetched ==
  ASSUME StepInv, [Next]_vars
  PROVE  FetchedInv'
<1>1. /\ TypeInv /\ OwnerInv /\ FetchedInv
      /\ dirty \in BOOLEAN /\ isDeleting \in BOOLEAN
      /\ phase \in {"absent", "live", "deleting"}
  BY DEF StepInv, OwnInv, TypeInv, TypeOK
<1> USE DEF FetchedInv, crVars, reqVars
<1>2. CASE UNCHANGED <<phase, pc, isDeleting, dirty>>
  BY <1>1, <1>2
<1>3. CASE Tick \/ Resync \/ UNCHANGED vars \/ FetchGone
  BY <1>2, <1>3 DEF Tick, Resync, FetchGone, vars
<1>4. CASE Environment /\ ~Tick /\ ~Resync
  <2>1. dirty' = TRUE
    BY <1>4, Disturbed
  <2>2. \/ UNCHANGED <<pc, isDeleting>>
        \/ pc' = "idle"
    BY <1>4 DEF Environment, UserCreate, UserEdit, UserDelete, ForeignRegister,
       ForeignDeregister, RoleChange, Crash, Idle
  <2> QED
    BY <1>1, <2>1, <2>2
<1>5. CASE Fetch
  BY <1>1, <1>5 DEF Fetch
<1>6. CASE Unmanage \/ Finish
  BY <1>6 DEF Unmanage, Finish, Idle
<1>7. CASE Resolve \/ ReadFails \/ ReadUnmanaged \/ ReadToDelete
  BY <1>1, <1>7 DEF Resolve, ReadFails, ReadUnmanaged, ReadToDelete, FinishWith
<1>8. CASE ReadNotFound \/ ReadManaged
  BY <1>1, <1>8 DEF ReadNotFound, ReadManaged
<1>9. CASE Manage
  BY <1>1, <1>9 DEF Manage, Idle
<1>10. CASE Create \/ Update
  <2>1. /\ pc \in {"create", "update"} /\ pc' # "idle"
        /\ UNCHANGED <<phase, isDeleting, dirty>>
    BY <1>1, <1>10, CreateEnds, UpdateEnds DEF FinishWith
  <2> QED
    BY <1>1, <2>1
<1>11. CASE ReadBack \/ ReadBackNotFound \/ LateInitializeFails \/ PatchSpec
  BY <1>1, <1>11 DEF ReadBack, ReadBackNotFound, LateInitializeFails, PatchSpec,
                     FinishWith
<1>12. CASE LateInitialize
  <2>1. /\ pc = "late" /\ pc' # "idle"
        /\ UNCHANGED <<phase, isDeleting, dirty>>
    BY <1>1, <1>12, LateInitEnds
  <2> QED
    BY <1>1, <2>1
<1>13. CASE Delete
  BY <1>1, <1>13 DEF Delete, FinishWith
<1> QED
  BY <1>3, <1>4, <1>5, <1>6, <1>7, <1>8, <1>9, <1>10, <1>11, <1>12, <1>13
     DEF Next, Worker

LEMMA NextPatch ==
  ASSUME StepInv, [Next]_vars
  PROVE  PatchInv'
<1>1. TypeInv /\ PatchInv
  BY DEF StepInv, OwnInv
<1>2. CASE LateInitialize
  BY <1>1, <1>2, LateInitEnds DEF PatchInv
<1>3. CASE Create \/ Update
  BY <1>1, <1>3, CreateEnds, UpdateEnds DEF FinishWith, PatchInv
<1>4. CASE Worker /\ ~LateInitialize /\ ~Create /\ ~Update
  <2>1. pc' # "patch" \/ UNCHANGED <<pc, desired, latest, err>>
    BY <1>4 DEF Worker, FetchGone, Fetch, Resolve, ReadFails, ReadNotFound,
       ReadUnmanaged, ReadManaged, ReadToDelete, Manage, ReadBack,
       ReadBackNotFound, LateInitializeFails, PatchSpec, Delete, Unmanage,
       Finish, FinishWith, Idle, reqVars
  <2> QED
    BY <1>1, <2>1 DEF PatchInv
<1>5. CASE Environment \/ UNCHANGED vars
  <2>1. pc' = "idle" \/ UNCHANGED <<pc, desired, latest, err>>
    BY <1>5 DEF Environment, UserCreate, UserEdit, UserDelete, ForeignRegister,
       ForeignDeregister, RoleChange, Tick, Resync, Crash, Idle, reqVars, vars
  <2> QED
    BY <1>1, <2>1 DEF PatchInv
<1> QED
  BY <1>2, <1>3, <1>4, <1>5 DEF Next

LEMMA StepAlways == Spec => []StepInv
<1>1. Init => StepInv
  BY InitOwner DEF Init, StepInv, FetchedInv, PatchInv
<1>2. StepInv /\ [Next]_vars => StepInv'
  BY NextOwner, NextFetched, NextPatch DEF StepInv
<1> QED
  BY <1>1, <1>2, PTL DEF Spec

---------------------------------------------------------------------------
(* An undisturbed reconcile.  Until it resolves references it works on the *)
(* stored spec, then on that with the role of the reference; what an update*)
(* sends beyond that is what was read; and once a target was read back or  *)
(* registered, it is what the user wants, also after the role that late    *)
(* initialization adds.                                                    *)
Undisturbed == ~dirty /\ phase = "live"

Resolved == ResolveReferences(spec, roleCR)

CleanInv ==
  Undisturbed =>
    /\ (pc = "idle" /\ status.conds.synced = "True"
          /\ status.conds.terminal # "True") => Matches(aws[spec.id])
    /\ (pc # "idle") => desired.status = [status EXCEPT !.conds = NoConditions]
    /\ (pc = "resolve") => desired.spec = spec
    /\ (pc \in {"read", "manage", "create"})
         => Resolved.ok /\ desired.spec = Resolved.spec
    /\ (pc = "update")
         => /\ Resolved.ok /\ aws[spec.id] # Nil
            /\ desired.spec = CustomSetDefaults(Resolved.spec, aws[spec.id])
    /\ (pc \in {"readback", "update", "late"})
         => latest.status.conds.synced = Nil
    /\ (pc \in {"patch", "finish"}) => latest.status.conds.synced # "True"
    /\ (pc \in {"readback", "late"})
         => /\ latest.spec.id = spec.id /\ latest.spec.ref = spec.ref
            /\ (latest.spec.role = Nil) => spec.role = Nil
    /\ (pc = "patch")
         => /\ spec.role = Nil /\ spec.ref = Nil
            /\ latest.spec.role = aws[spec.id].role
    /\ (pc \in {"readback", "late", "patch"}) => Matches(aws[spec.id])
    /\ (pc = "finish" /\ err = Nil) => Matches(aws[spec.id])
    /\ (pc = "finish" /\ err = "terminal")
         => latest.status.conds.terminal = "True"

(* An observed target without a delta is the one that was asked for.       *)
LEMMA NoDeltaMatches ==
  ASSUME TypeOK, Resolved.ok, NEW r \in Resources, r.spec = Resolved.spec,
         NEW t \in Targets,
         NewResourceDelta(r.spec, SdkFind(r, t).spec) = {}
  PROVE  Matches(t)
<1> DEFINE d == CustomSetDefaults(r.spec, SdkFind(r, t).spec)
           o == SdkFind(r, t).spec
<1>1. t # Nil /\ t.susp \in [Flags -> BOOLEAN]
  BY ResourceAssumption DEF Targets
<1>2. o.cap = t.cap /\ o.role = t.role /\ o.susp = t.susp
  BY SdkFindFields
<1>3. /\ r.spec \in Specs /\ r.spec.cap = spec.cap /\ r.spec.susp = spec.susp
      /\ r.spec.role = WantedRole
  BY ResolvedFields DEF Resolved, TypeOK, WantedRole
<1> HIDE DEF o
<1>4. LET e == CustomSetDefaults(r.spec, o)
      IN  /\ e \in Specs /\ e.cap = spec.cap /\ e.role = WantedRole
          /\ spec.susp # Nil => \A f \in Flags : spec.susp[f] # Nil
                                                   => e.susp[f] = spec.susp[f]
  BY <1>1, <1>2, <1>3, DefaultsFields
<1>5. /\ d \in Specs /\ d.cap = spec.cap /\ d.role = WantedRole
      /\ spec.susp # Nil => \A f \in Flags : spec.susp[f] # Nil
                                               => d.susp[f] = spec.susp[f]
  BY <1>4 DEF o
<1>6. \A f \in DOMAIN d : d[f] = o[f]
  BY DEF NewResourceDelta, o
<1> HIDE DEF d
<1>7. {"cap", "role", "susp"} \subseteq DOMAIN d
  BY <1>5 DEF Specs
<1>8. d.cap = o.cap /\ d.role = o.role /\ d.susp = o.susp
  BY <1>6, <1>7
<1>9. t.cap = spec.cap /\ t.role = WantedRole
  BY <1>2, <1>5, <1>8
<1>10. d.susp = t.susp
  BY <1>2, <1>8
<1>11. spec.susp # Nil => \A f \in Flags : spec.susp[f] # Nil
                                             => t.susp[f] = spec.susp[f]
  BY <1>5, <1>10
<1> QED
  BY <1>1, <1>9, <1>11 DEF Matches

(* ... and so is a target that was just registered as wanted.              *)
LEMMA RegistersMatches ==
  ASSUME TypeOK, NEW s \in Specs, Registers(s), UNCHANGED <<spec, roleCR>>,
         s.id = spec.id, s.cap = spec.cap, s.role = WantedRole,
         spec.susp # Nil => /\ s.susp # Nil
                            /\ \A f \in Flags : spec.susp[f] # Nil
                                                  => s.susp[f] = spec.susp[f]
  PROVE  Matches(aws[spec.id])'
<1> DEFINE new == aws'[s.id]
<1>1. /\ new # Nil
      /\ s.cap # Nil => new.cap = s.cap
      /\ s.role # Nil => new.role = s.role
      /\ s.susp # Nil => \A f \in Flags : s.susp[f] # Nil
                                            => new.susp[f] = s.susp[f]
  BY RegistersFields
<1>2. aws'[spec'.id] = new /\ WantedRole' = WantedRole
  BY DEF WantedRole
<1> HIDE DEF new
<1>3. spec.susp # Nil => \A f \in Flags : spec.susp[f] # Nil
                                            => new.susp[f] = spec.susp[f]
  BY <1>1
<1> QED
  BY <1>1, <1>2, <1>3 DEF Matches

(* What an update sends in an undisturbed reconcile.                       *)
LEMMA UpdateSends ==
  ASSUME TypeOK, Undisturbed, CleanInv, pc = "update", desired \in Resources
  PROVE  /\ desired.spec \in Specs /\ aws[spec.id] \in Targets
         /\ desired.spec.id = spec.id /\ desired.spec.cap = spec.cap
         /\ desired.spec.role = WantedRole /\ desired.spec.ref = spec.ref
         /\ (desired.spec.role = Nil) => spec.role = Nil
         /\ desired.spec.susp # Nil
         /\ \A f \in Flags : desired.spec.susp[f]
                               = IF spec.susp # Nil /\ spec.susp[f] # Nil
                                 THEN spec.susp[f] ELSE aws[spec.id].susp[f]
<1>1. /\ Resolved.ok /\ aws[spec.id] # Nil
      /\ desired.spec = CustomSetDefaults(Resolved.spec, aws[spec.id])
  BY DEF CleanInv
<1>2. /\ spec \in Specs /\ spec.id \in Ids /\ roleCR \in Opt(RoleCRs)
      /\ aws \in [Ids -> Opt(Targets)]
  BY DEF TypeOK, Specs
<1>3. /\ aws[spec.id] \in Targets
      /\ aws[spec.id].susp \in [Flags -> BOOLEAN]
  BY <1>1, <1>2 DEF Opt, Targets
<1>4. /\ Resolved.spec \in Specs
      /\ Resolved.spec.id = spec.id /\ Resolved.spec.cap = spec.cap
      /\ Resolved.spec.ref = spec.ref /\ Resolved.spec.susp = spec.susp
      /\ Resolved.spec.role = WantedRole
      /\ (Resolved.spec.role = Nil) => spec.role = Nil
  BY <1>1, <1>2, ResolvedFields DEF Resolved, WantedRole
<1> DEFINE r == Resolved.spec
           t == aws[spec.id]
<1> HIDE DEF r, t
<1>5. /\ r \in Specs /\ t.susp \in [Flags -> BOOLEAN]
      /\ desired.spec = CustomSetDefaults(r, t)
  BY <1>1, <1>3, <1>4 DEF r, t
<1>6. /\ desired.spec \in Specs
      /\ desired.spec.id = r.id /\ desired.spec.cap = r.cap
      /\ desired.spec.role = r.role /\ desired.spec.ref = r.ref
      /\ desired.spec.susp # Nil
      /\ \A f \in Flags : desired.spec.susp[f] = IF r.susp # Nil /\ r.susp[f] # Nil
                                                 THEN r.susp[f] ELSE t.susp[f]
  BY <1>5, DefaultsFields
<1> QED
  BY <1>3, <1>4, <1>6 DEF r, t

(* What a patch that carries nothing but a role does to the spec.          *)
LEMMA PatchOfRole ==
  ASSUME spec \in Specs, NEW a \in Specs, NEW b \in Specs,
         a.ref = Nil, b = [a EXCEPT !.role = b.role]
  PROVE  MergePatch(spec, ClearResolvedReferences(a), ClearResolvedReferences(b))
           = [spec EXCEPT !.role = IF a.role = b.role THEN spec.role ELSE b.role]
<1>1. ClearResolvedReferences(a) = a /\ ClearResolvedReferences(b) = b
  BY DEF ClearResolvedReferences, Specs
<1> QED
  BY <1>1 DEF MergePatch, Specs

LEMMA NextClean ==
  ASSUME StepInv, CleanInv, [Next]_vars
  PROVE  CleanInv'
<1> SUFFICES ASSUME Undisturbed' PROVE CleanInv'
  BY DEF CleanInv
<1>1. /\ TypeInv /\ TypeOK /\ OwnerInv /\ FetchedInv /\ PatchInv
      /\ status \in Statuses /\ spec \in Specs /\ spec.id \in Ids
      /\ aws \in [Ids -> Opt(Targets)] /\ roleCR \in Opt(RoleCRs)
      /\ dirty \in BOOLEAN /\ isDeleting \in BOOLEAN
      /\ now \in Clocks /\ now.aws \in Times
  BY ClockTypes DEF StepInv, OwnInv, TypeInv, TypeOK, Specs
<1>h. /\ (pc # "idle") => desired \in Resources
      /\ (pc \in {"readback", "update", "late", "patch", "delete", "finish"})
           => latest \in Resources
  BY <1>1, InHand
<1>e. {"error", "terminal", "requeue", "notfound", Nil} \subseteq Errors
  BY DEF Errors, Opt
<1>i. Nil \notin {"True", "error", "terminal", "requeue", "notfound"}
  BY AckAssumption
<1>j. \A r \in Resources : r.spec \in Specs /\ r.status \in Statuses
  BY DEF Resources
<1>k. UNCHANGED <<spec, roleCR, aws>>
        => (Matches(aws[spec.id])' <=> Matches(aws[spec.id]))
  BY DEF Matches, WantedRole
<1>l. UNCHANGED <<spec, roleCR>> => Resolved' = Resolved
  BY DEF Resolved
<1> USE DEF Undisturbed, crVars, worldVars, reqVars
<1>2. CASE UNCHANGED <<phase, spec, status, roleCR, aws, pc, desired, latest,
                       err, dirty>>
  BY <1>k, <1>l, <1>2 DEF CleanInv
<1>3. CASE Environment \/ UNCHANGED vars
  <2>1. CASE Tick \/ Resync \/ UNCHANGED vars
    BY <1>2, <2>1 DEF Tick, Resync, vars
  <2>2. CASE Environment /\ ~Tick /\ ~Resync
    BY <2>2, Disturbed
  <2> QED
    BY <1>3, <2>1, <2>2
<1>4. CASE Fetch
  <2>1. /\ phase = "live" /\ UNCHANGED <<spec, status>>
        /\ pc' = "resolve"
        /\ desired' = [spec   |-> spec,
                       status |-> [status EXCEPT !.conds = NoConditions]]
    BY <1>4 DEF Fetch
  <2> QED
    BY <2>1 DEF CleanInv
<1>5. CASE FetchGone
  BY <1>2, <1>5 DEF FetchGone
(* From here on the worker is past Fetch.                                  *)
<1> DEFINE Past == /\ pc # "idle" /\ Undisturbed /\ ~isDeleting
                   /\ desired \in Resources
                   /\ desired.status = [status EXCEPT !.conds = NoConditions]
                   /\ desired.status.conds.synced = Nil
           Same == UNCHANGED <<phase, spec, status, roleCR, dirty>>
<1>6. ASSUME Same, pc # "idle"
      PROVE  Past
  <2>1. Undisturbed /\ ~isDeleting /\ desired \in Resources
    BY <1>1, <1>6, <1>h DEF FetchedInv
  <2>2. desired.status = [status EXCEPT !.conds = NoConditions]
    BY <1>6, <2>1 DEF CleanInv
  <2>3. desired.status.conds = NoConditions
    BY <1>1, <2>2 DEF Statuses
  <2> QED
    BY <1>6, <2>1, <2>2, <2>3 DEF NoConditions
<1>7. ASSUME Past, Same, desired'.status = desired.status
      PROVE  desired'.status = [status EXCEPT !.conds = NoConditions]'
  BY <1>7
<1> HIDE DEF Past
<1>8. CASE Resolve
  <2>1. /\ Same /\ pc = "resolve"
        /\ desired' = [desired EXCEPT
                         !.spec = ResolveReferences(desired.spec, roleCR).spec]
        /\ \/ /\ ResolveReferences(desired.spec, roleCR).ok \/ isDeleting
              /\ pc' = "read"
           \/ FinishWith(desired', "error")
    BY <1>8 DEF Resolve
  <2>2. Past /\ desired.spec = spec /\ ~isDeleting
    BY <1>6, <2>1 DEF CleanInv, Past
  <2>3. desired'.spec = Resolved.spec /\ desired'.status = desired.status
    BY <2>1, <2>2 DEF Past, Resolved, Resources
  <2>4. CASE Resolved.ok /\ pc' = "read"
    BY <1>7, <1>l, <2>1, <2>2, <2>3, <2>4 DEF CleanInv
  <2>5. CASE FinishWith(desired', "error")
    <3>1. pc' = "finish" /\ latest' = desired' /\ err' = "error"
      BY <2>5 DEF FinishWith
    <3>2. latest'.status.conds.synced = Nil
      BY <2>2, <2>3, <3>1 DEF Past
    <3> QED
      BY <1>7, <1>i, <2>1, <2>2, <2>3, <3>1, <3>2 DEF CleanInv
  <2> QED
    BY <2>1, <2>2, <2>4, <2>5 DEF Resolved
<1>9. CASE ReadFails
  <2>1. /\ Same /\ pc \in {"read", "readback"} /\ desired' = desired
        /\ pc' = "finish" /\ err' = "error"
        /\ latest' = OnError(IF pc = "read" THEN desired ELSE latest, "error")
    BY <1>9 DEF ReadFails, FinishWith
  <2>2. Past
    BY <1>6, <2>1
  <2>3. /\ (IF pc = "read" THEN desired ELSE latest) \in Resources
        /\ (IF pc = "read" THEN desired ELSE latest).status.conds.synced = Nil
    BY <1>h, <2>1, <2>2 DEF CleanInv, Past
  <2>4. latest'.status.conds.synced = Nil
    BY <1>e, <2>1, <2>3, ConditionsFields
  <2> QED
    BY <1>i, <1>7, <2>1, <2>2, <2>4 DEF CleanInv
<1>10. CASE ReadNotFound
  <2>1. Same /\ pc = "read" /\ UNCHANGED <<desired, latest, err>>
    BY <1>10 DEF ReadNotFound
  <2>2. Past
    BY <1>6, <2>1
  <2>3. pc' \in {"create", "manage"}
    BY <1>10, <2>2 DEF ReadNotFound, Past
  <2> QED
    BY <1>7, <1>l, <2>1, <2>2, <2>3 DEF CleanInv, Past
(* What a read in an undisturbed reconcile finds is the wanted target.     *)
<1>11. ASSUME Past, pc = "read", ReadOne(desired) # Nil
       PROVE  /\ aws[spec.id] \in Targets /\ Resolved.ok
              /\ desired.spec = Resolved.spec
              /\ ReadOne(desired) = SdkFind(desired, aws[spec.id])
              /\ ReadOne(desired) \in Resources
              /\ ReadOne(desired).status.conds.synced = Nil
  <2>1. Resolved.ok /\ desired.spec = Resolved.spec
    BY <1>11 DEF CleanInv, Past
  <2>2. /\ Resolved.spec.id = spec.id /\ Resolved.spec.ref = spec.ref
        /\ (Resolved.spec.role = Nil) => spec.role = Nil
    BY <1>1, <2>1, ResolvedFields DEF Resolved
  <2>3. ReadOne(desired) = SdkFind(desired, aws[spec.id])
    BY <2>1, <2>2 DEF ReadOne
  <2>4. aws[spec.id] \in Targets
    BY <1>1, <1>11, <2>3 DEF SdkFind, Opt
  <2>5. /\ ReadOne(desired) \in Resources
        /\ ReadOne(desired).status.conds = desired.status.conds
    BY <1>11, <2>3, <2>4, SdkFindFields DEF Past
  <2> QED
    BY <1>11, <2>1, <2>3, <2>4, <2>5 DEF Past
<1>12. CASE ReadUnmanaged
  <2> DEFINE r == OnSuccess(ReadOne(desired))
  <2>1. /\ Same /\ pc = "read" /\ desired' = desired
        /\ pc' = "finish" /\ err' = "terminal"
        /\ latest' = OnError(r, "terminal")
        /\ ReadOne(desired) # Nil
    BY <1>12 DEF ReadUnmanaged, FinishWith
  <2>2. Past
    BY <1>6, <2>1
  <2>3. /\ ReadOne(desired) \in Resources
        /\ ReadOne(desired).status.conds.synced = Nil
    BY <1>11, <2>1, <2>2
  <2>4. r \in Resources /\ r.status.conds.synced = Nil
    BY <1>e, <2>3, ConditionsType, ConditionsFields
  <2> HIDE DEF r
  <2>5. /\ latest'.status.conds.synced = Nil
        /\ latest'.status.conds.terminal = "True"
    BY <1>e, <2>1, <2>4, ConditionsFields
  <2> QED
    BY <1>i, <1>7, <2>1, <2>2, <2>5 DEF CleanInv
<1>13. CASE ReadManaged
  <2> DEFINE observed == ReadOne(desired)
             s == CustomSetDefaults(desired.spec, observed.spec)
  <2>1. /\ Same /\ aws' = aws /\ pc = "read"
        /\ observed # Nil
        /\ latest' = OnSuccess(observed)
        /\ desired' = [desired EXCEPT !.spec = s]
        /\ \/ pc' = "update"
           \/ /\ pc' = "late"
              /\ NewResourceDelta(desired.spec, observed.spec) = {}
    BY <1>13 DEF ReadManaged
  <2>2. Past
    BY <1>6, <2>1
  <2>3. /\ aws[spec.id] \in Targets /\ Resolved.ok
        /\ desired.spec = Resolved.spec
        /\ observed = SdkFind(desired, aws[spec.id])
        /\ observed \in Resources
        /\ observed.status.conds.synced = Nil
    BY <1>11, <2>1, <2>2
  <2> HIDE DEF s
  <2>4. desired'.spec = s /\ desired'.status = desired.status
    BY <2>1, <2>2 DEF Past, Resources
  <2>5. s = CustomSetDefaults(Resolved.spec, aws[spec.id])
    <3>1. observed.spec.susp = aws[spec.id].susp
      BY <2>2, <2>3, SdkFindFields DEF Past
    <3> QED
      BY <2>3, <3>1 DEF s, CustomSetDefaults
  <2>6. /\ latest'.status.conds.synced = Nil
        /\ latest'.spec = observed.spec
    BY <1>e, <2>1, <2>3, ConditionsFields, ConditionsType
  <2>7. aws[spec.id] # Nil
    BY <2>3, ResourceAssumption
  <2>8. CASE pc' = "update"
    BY <1>7, <1>l, <2>1, <2>2, <2>3, <2>4, <2>5, <2>6, <2>7, <2>8 DEF CleanInv
  <2>9. CASE pc' = "late"
    <3>1. Matches(aws[spec.id])
      BY <1>1, <2>1, <2>2, <2>3, <2>9, NoDeltaMatches DEF Past
    <3>2. Matches(aws[spec.id])'
      BY <1>k, <2>1, <3>1
    <3>3. /\ latest'.spec.id = spec.id /\ latest'.spec.ref = spec.ref
          /\ latest'.spec.role # Nil
      <4>1. /\ latest'.spec.id = desired.spec.id
            /\ latest'.spec.ref = desired.spec.ref
            /\ latest'.spec.role = aws[spec.id].role
        BY <2>2, <2>3, <2>6, SdkFindFields DEF Past
      <4>2. Resolved.spec.id = spec.id /\ Resolved.spec.ref = spec.ref
        BY <1>1, <2>3, ResolvedFields DEF Resolved
      <4>3. aws[spec.id].role # Nil
        BY <2>3, ResourceAssumption DEF Targets
      <4> QED
        BY <2>3, <4>1, <4>2, <4>3
    <3> QED
      BY <1>7, <2>1, <2>2, <2>4, <2>6, <2>9, <3>2, <3>3 DEF CleanInv
  <2> QED
    BY <2>1, <2>8, <2>9
<1>14. CASE ReadToDelete \/ Delete
  <2>1. Same /\ pc # "idle" /\ isDeleting
    BY <1>1, <1>14 DEF ReadToDelete, Delete, OwnerInv
  <2>2. ~isDeleting
    BY <1>6, <2>1 DEF Past
  <2> QED
    BY <2>1, <2>2
<1>15. CASE Manage
  <2>1. /\ Same /\ pc = "manage" /\ pc' = "create"
        /\ UNCHANGED <<desired, latest, err>>
    BY <1>15 DEF Manage
  <2>2. Past
    BY <1>6, <2>1
  <2> QED
    BY <1>7, <1>l, <2>1, <2>2 DEF CleanInv, Past
<1>16. CASE Create
  <2>1. /\ pc = "create" /\ Same /\ desired' = desired
        /\ \/ FinishWith(OnError(desired, "error"), "error")
           \/ /\ Registers(desired.spec)
              /\ latest' = OnSuccess(desired)
              /\ pc' = "readback"
    BY <1>1, <1>16, CreateEnds
  <2>2. Past /\ Resolved.ok /\ desired.spec = Resolved.spec
    BY <1>6, <2>1 DEF CleanInv, Past
  <2>3. desired \in Resources /\ desired.status.conds.synced = Nil
    BY <2>2 DEF Past
  <2>4. CASE FinishWith(OnError(desired, "error"), "error")
    <3>1. latest'.status.conds.synced = Nil /\ pc' = "finish" /\ err' = "error"
      BY <1>e, <2>3, <2>4, ConditionsFields DEF FinishWith
    <3> QED
      BY <1>i, <1>7, <2>1, <2>2, <3>1 DEF CleanInv
  <2>5. CASE /\ Registers(desired.spec)
             /\ latest' = OnSuccess(desired)
             /\ pc' = "readback"
    <3>1. /\ desired.spec \in Specs
          /\ desired.spec.id = spec.id /\ desired.spec.cap = spec.cap
          /\ desired.spec.ref = spec.ref /\ desired.spec.susp = spec.susp
          /\ desired.spec.role = WantedRole
          /\ (desired.spec.role = Nil) => spec.role = Nil
      BY <1>1, <2>2, ResolvedFields DEF Resolved, WantedRole
    <3>2. Matches(aws[spec.id])'
      BY <1>1, <2>1, <2>5, <3>1, RegistersMatches
    <3>3. latest'.spec = desired.spec /\ latest'.status.conds.synced = Nil
      BY <1>e, <2>3, <2>5, ConditionsType, ConditionsFields
    <3> QED
      BY <1>7, <2>1, <2>2, <2>5, <3>1, <3>2, <3>3 DEF CleanInv
  <2> QED
    BY <2>1, <2>4, <2>5
<1>17. CASE ReadBackNotFound
  <2>1. /\ Same /\ pc = "readback" /\ ReadOne(latest) = Nil
        /\ latest \in Resources
    BY <1>h, <1>17 DEF ReadBackNotFound
  <2>2. Past /\ aws[spec.id] # Nil /\ latest.spec.id = spec.id
    BY <1>6, <2>1 DEF CleanInv, Matches, Past
  <2> QED
    BY <1>1, <2>1, <2>2, ReadOneType
<1>18. CASE ReadBack
  <2> DEFINE observed == ReadOne(latest)
  <2>1. /\ Same /\ aws' = aws /\ desired' = desired
        /\ pc = "readback" /\ pc' = "late"
        /\ latest' = [latest EXCEPT !.status = OnSuccess(observed).status]
        /\ observed # Nil /\ latest \in Resources
    BY <1>h, <1>18 DEF ReadBack
  <2>2. /\ Past /\ latest.status.conds.synced = Nil
        /\ latest.spec.id = spec.id /\ latest.spec.ref = spec.ref
        /\ (latest.spec.role = Nil) => spec.role = Nil
        /\ Matches(aws[spec.id])
    BY <1>6, <2>1 DEF CleanInv, Past
  <2>3. /\ observed \in Resources
        /\ observed.status.conds.synced = Nil
    <3>1. aws[spec.id] \in Targets /\ observed = SdkFind(latest, aws[spec.id])
      BY <1>1, <2>1, <2>2 DEF ReadOne, SdkFind, Opt
    <3> QED
      BY <2>1, <2>2, <3>1, SdkFindFields
  <2>4. latest'.spec = latest.spec /\ latest'.status.conds.synced = Nil
    BY <1>e, <2>1, <2>3, ConditionsFields DEF Resources
  <2>5. Matches(aws[spec.id])'
    BY <1>k, <2>1, <2>2
  <2> QED
    BY <1>7, <2>1, <2>2, <2>4, <2>5 DEF CleanInv
<1>19. CASE Update
  <2>1. /\ pc = "update" /\ Same /\ desired' = desired
        /\ latest \in Resources
        /\ \/ FinishWith(OnError(latest, "error"), "error")
           \/ /\ Registers(desired.spec)
              /\ latest' = OnSuccess(SdkUpdated(desired, now))
              /\ pc' = "late"
    BY <1>1, <1>19, UpdateEnds
  <2>2. /\ Past /\ Undisturbed /\ latest.status.conds.synced = Nil
        /\ desired \in Resources /\ desired.status.conds.synced = Nil
    BY <1>6, <2>1 DEF CleanInv, Past
  <2>3. CASE FinishWith(OnError(latest, "error"), "error")
    <3>1. latest'.status.conds.synced = Nil /\ pc' = "finish" /\ err' = "error"
      BY <1>e, <2>1, <2>2, <2>3, ConditionsFields DEF FinishWith
    <3> QED
      BY <1>i, <1>7, <2>1, <2>2, <3>1 DEF CleanInv
  <2>4. CASE /\ Registers(desired.spec)
             /\ latest' = OnSuccess(SdkUpdated(desired, now))
             /\ pc' = "late"
    <3>1. /\ desired.spec \in Specs
          /\ desired.spec.id = spec.id /\ desired.spec.cap = spec.cap
          /\ desired.spec.role = WantedRole /\ desired.spec.ref = spec.ref
          /\ (desired.spec.role = Nil) => spec.role = Nil
          /\ desired.spec.susp # Nil
          /\ spec.susp # Nil => \A f \in Flags : spec.susp[f] # Nil
                                  => desired.spec.susp[f] = spec.susp[f]
      BY <1>1, <2>1, <2>2, UpdateSends
    <3>2. Matches(aws[spec.id])'
      BY <1>1, <2>1, <2>4, <3>1, RegistersMatches
    <3>3. /\ SdkUpdated(desired, now) \in Resources
          /\ SdkUpdated(desired, now).spec = desired.spec
          /\ SdkUpdated(desired, now).status.conds = desired.status.conds
      BY <1>1, <2>2, ClockTypes DEF SdkUpdated, Resources, Statuses, Opt
    <3>4. latest'.spec = desired.spec /\ latest'.status.conds.synced = Nil
      BY <1>e, <2>2, <2>4, <3>3, ConditionsType, ConditionsFields
    <3> QED
      BY <1>7, <2>1, <2>2, <2>4, <3>1, <3>2, <3>4 DEF CleanInv
  <2> QED
    BY <2>1, <2>3, <2>4
<1>20. CASE LateInitialize
  <2>1. /\ pc = "late" /\ Same /\ aws' = aws
        /\ pc' \in {"finish", "patch"} /\ err' \in {Nil, "requeue"}
        /\ desired'.status = desired.status
        /\ \/ latest'.status.conds.synced = "False"
           \/ latest'.status.conds.synced = latest.status.conds.synced
        /\ pc' = "patch" => /\ latest.spec.ref = Nil /\ latest.spec.role = Nil
                            /\ latest'.spec.role = aws[latest.spec.id].role
    BY <1>1, <1>20, LateInitEnds
  <2>2. /\ Past /\ latest.status.conds.synced = Nil
        /\ latest.spec.id = spec.id /\ latest.spec.ref = spec.ref
        /\ (latest.spec.role = Nil) => spec.role = Nil
        /\ Matches(aws[spec.id])
    BY <1>6, <2>1 DEF CleanInv, Past
  <2>3. latest'.status.conds.synced # "True"
    BY <1>i, <2>1, <2>2
  <2>4. Matches(aws[spec.id])'
    BY <1>k, <2>1, <2>2
  <2> QED
    BY <1>i, <1>7, <2>1, <2>2, <2>3, <2>4 DEF CleanInv
<1>21. CASE LateInitializeFails
  <2>1. /\ pc = "late" /\ Same /\ desired' = desired
        /\ pc' = "finish" /\ err' \in {"error", "notfound"}
        /\ latest \in Resources /\ latest' = LateInitializeFailed(latest)
    BY <1>h, <1>21 DEF LateInitializeFails
  <2>2. Past
    BY <1>6, <2>1
  <2>3. latest'.status.conds.synced # "True"
    BY <2>1, LateConditionFields
  <2> QED
    BY <1>i, <1>7, <2>1, <2>2, <2>3 DEF CleanInv
<1>22. CASE PatchSpec
  <2>1. /\ pc = "patch" /\ pc' = "finish"
        /\ UNCHANGED <<phase, status, roleCR, aws, desired, latest, err, dirty>>
        /\ spec' = MergePatch(spec, ClearResolvedReferences(desired.spec),
                                    ClearResolvedReferences(latest.spec))
        /\ latest \in Resources /\ desired \in Resources
    BY <1>h, <1>22 DEF PatchSpec
  <2>2. /\ spec.role = Nil /\ spec.ref = Nil
        /\ latest.spec.role = aws[spec.id].role
        /\ Matches(aws[spec.id])
        /\ latest.status.conds.synced # "True"
        /\ desired.status = [status EXCEPT !.conds = NoConditions]
    BY <2>1 DEF CleanInv
  <2>3. /\ desired.spec.ref = Nil /\ desired.spec.role = Nil
        /\ latest.spec = [desired.spec EXCEPT !.role = latest.spec.role]
        /\ desired.spec \in Specs /\ latest.spec \in Specs
    BY <1>1, <1>j, <2>1 DEF PatchInv
  <2>4. spec' = [spec EXCEPT !.role = IF desired.spec.role = latest.spec.role
                                      THEN spec.role ELSE latest.spec.role]
    BY <1>1, <2>1, <2>3, PatchOfRole
  <2>5. /\ spec'.id = spec.id /\ spec'.cap = spec.cap /\ spec'.ref = Nil
        /\ spec'.susp = spec.susp
        /\ spec'.role \in {Nil, aws[spec.id].role}
    BY <1>1, <2>2, <2>4 DEF Specs
  <2>6. WantedRole' = spec'.role
    BY <2>5, ResourceAssumption DEF WantedRole
  <2>7. Matches(aws[spec.id])'
    BY <2>1, <2>2, <2>5, <2>6 DEF Matches
  <2>8. desired'.status = [status EXCEPT !.conds = NoConditions]'
    BY <2>1, <2>2
  <2>9. err # "terminal"
    BY <1>1, <1>i, <2>1 DEF PatchInv
  <2> QED
    BY <2>1, <2>2, <2>7, <2>8, <2>9 DEF CleanInv
<1>23. CASE Unmanage
  BY <1>23 DEF Unmanage
<1>24. CASE Finish
  <2> DEFINE conds == EnsureSynced(latest.status.conds, err)
             to == [latest.status EXCEPT !.conds = conds]
  <2>1. /\ pc = "finish" /\ pc' = "idle" /\ latest \in Resources
        /\ UNCHANGED <<phase, spec, roleCR, aws, dirty>>
    BY <1>h, <1>24 DEF Finish, Idle
  <2>2. /\ Undisturbed /\ ~isDeleting /\ desired \in Resources
        /\ desired.status = [status EXCEPT !.conds = NoConditions]
        /\ latest.status.conds.synced # "True"
        /\ err = Nil => Matches(aws[spec.id])
        /\ err = "terminal" => latest.status.conds.terminal = "True"
    BY <1>1, <1>h, <2>1 DEF CleanInv, FetchedInv
  <2>3. latest.status \in Statuses /\ latest.status.conds \in Conditions
    BY <2>1 DEF Resources, Statuses
  <2>4. /\ conds.synced # Nil
        /\ conds.terminal = latest.status.conds.terminal
        /\ conds.synced = "True" => err \in {Nil, "terminal"}
    BY <2>2, <2>3, AckAssumption
       DEF EnsureSynced, Conditions, ConditionStatus, Opt
  <2>5. status' = MergePatch(status, desired.status, to)
    BY <1>24, <2>1, <2>2 DEF Finish
  <2> HIDE DEF conds
  <2>6. to.conds = conds
    BY <2>3 DEF Statuses
  <2>7. /\ desired.status.conds = NoConditions
        /\ DOMAIN status = {"ctime", "lmt", "conds"}
    BY <1>1, <2>2 DEF Statuses
  <2>8. NoConditions # conds
    BY <2>4 DEF NoConditions
  <2> HIDE DEF to
  <2>9. status'.conds = conds
    BY <2>5, <2>6, <2>7, <2>8 DEF MergePatch
  <2>10. (status'.conds.synced = "True" /\ status'.conds.terminal # "True")
           => Matches(aws[spec.id])'
    BY <1>k, <2>1, <2>2, <2>4, <2>9
  <2> QED
    BY <2>1, <2>10 DEF CleanInv
<1> QED
  BY <1>3, <1>4, <1>5, <1>8, <1>9, <1>10, <1>12, <1>13, <1>14, <1>15, <1>16,
     <1>17, <1>18, <1>19, <1>20, <1>21, <1>22, <1>23, <1>24 DEF Next, Worker

LEMMA CleanAlways == Spec => [](StepInv /\ CleanInv)
<1>1. Init => CleanInv
  BY DEF Init, CleanInv, Undisturbed
<1>2. StepInv /\ CleanInv /\ [Next]_vars => CleanInv'
  BY NextClean
<1> QED
  BY <1>1, <1>2, StepAlways, PTL DEF Spec

(* Synced=True without a terminal condition is honest after a reconcile    *)
(* that nobody disturbed: AWS has every field the user set.                *)
THEOREM SyncedIsHonest == Spec => []SyncedMeansMatching
<1>1. CleanInv => SyncedMeansMatching
  BY DEF CleanInv, Undisturbed, SyncedMeansMatching
<1> QED
  BY <1>1, CleanAlways, PTL

---------------------------------------------------------------------------
(* A step out of "update" is the update or a crash.                        *)
LEMMA LeavesUpdate ==
  ASSUME [Next]_vars, pc = "update", pc' # pc
  PROVE  Update \/ Crash
  BY DEF Next, Worker, Environment, FetchGone, Fetch, Resolve, ReadFails,
     ReadNotFound, ReadUnmanaged, ReadManaged, ReadToDelete, Manage, Create,
     ReadBack, ReadBackNotFound, LateInitialize, LateInitializeFails, PatchSpec,
     Delete, Unmanage, Finish, UserCreate, UserEdit, UserDelete,
     ForeignRegister, ForeignDeregister, RoleChange, Tick, Resync, vars

(* An undisturbed update leaves what the user left open as it was in AWS.  *)
THEOREM UnsetFieldsStay == Spec => UnsetFieldsUntouched
<1> DEFINE old == aws[spec.id]
           new == aws'[spec.id]
           P == (pc = "update" /\ pc' # pc /\ ~dirty) =>
                  /\ spec.cap = Nil => new.cap = old.cap
                  /\ (spec.role = Nil /\ spec.ref # "named")
                       => new.role = old.role
                  /\ spec.susp = Nil => new.susp = old.susp
<1>1. ASSUME StepInv, CleanInv, [Next]_vars
      PROVE  P
  <2> SUFFICES ASSUME pc = "update", pc' # pc, ~dirty
               PROVE  /\ spec.cap = Nil => new.cap = old.cap
                      /\ (spec.role = Nil /\ spec.ref # "named")
                           => new.role = old.role
                      /\ spec.susp = Nil => new.susp = old.susp
    OBVIOUS
  <2>1. TypeInv /\ TypeOK /\ FetchedInv
    BY <1>1 DEF StepInv, OwnInv, TypeInv
  <2>2. CASE aws' = aws
    BY <2>2
  <2>3. CASE Update /\ Registers(desired.spec)
    <3>1. Undisturbed /\ desired \in Resources
      BY <2>1, InHand DEF FetchedInv, Undisturbed
    <3>2. /\ desired.spec \in Specs /\ old \in Targets
          /\ desired.spec.id = spec.id /\ desired.spec.cap = spec.cap
          /\ desired.spec.role = WantedRole
          /\ desired.spec.susp # Nil
          /\ \A f \in Flags : desired.spec.susp[f]
                                = IF spec.susp # Nil /\ spec.susp[f] # Nil
                                  THEN spec.susp[f] ELSE old.susp[f]
      BY <1>1, <2>1, <3>1, UpdateSends
    <3>3. old # Nil
      BY <3>2, ResourceAssumption
    <3> DEFINE s == desired.spec
               was == aws[s.id]
               is == aws'[s.id]
    <3>4. TypeOK /\ s \in Specs /\ Registers(s)
      BY <2>1, <2>3, <3>2
    <3>5. was = old /\ is = new /\ was # Nil
      BY <3>2, <3>3
    <3> HIDE DEF s
    <3>6. /\ is \in Targets
          /\ (s.susp # Nil) => \A f \in Flags : s.susp[f] # Nil
                                                => is.susp[f] = s.susp[f]
          /\ (was # Nil) => /\ (s.cap = Nil) => is.cap = was.cap
                            /\ (s.role = Nil) => is.role = was.role
      BY <3>4, RegistersFields
    <3> HIDE DEF old, new, was, is
    <3>7. /\ (s.cap = Nil) => new.cap = old.cap
          /\ (s.role = Nil) => new.role = old.role
          /\ new.susp \in [Flags -> BOOLEAN]
          /\ (s.susp # Nil) => \A f \in Flags : s.susp[f] # Nil
                                                => new.susp[f] = s.susp[f]
      BY <3>5, <3>6 DEF Targets
    <3>8. (spec.role = Nil /\ spec.ref # "named") => WantedRole = Nil
      BY DEF WantedRole
    <3>9. old.susp \in [Flags -> BOOLEAN]
      BY <3>2 DEF Targets
    <3>10. ASSUME spec.susp = Nil PROVE new.susp = old.susp
      <4>1. \A f \in Flags : /\ s.susp[f] = old.susp[f]
                             /\ old.susp[f] # Nil
        BY <3>2, <3>9, <3>10, AckAssumption DEF s
      <4>2. \A f \in Flags : new.susp[f] = old.susp[f]
        BY <3>2, <3>7, <4>1 DEF s
      <4> QED
        BY <3>7, <3>9, <4>2
    <3> QED
      BY <3>2, <3>7, <3>8, <3>10 DEF s, old, new
  <2>4. Update \/ Crash
    BY <1>1, LeavesUpdate
  <2>5. aws' = aws \/ Registers(desired.spec)
    BY <2>1, <2>4, UpdateEnds DEF Crash
  <2>6. Crash => aws' = aws
    BY DEF Crash
  <2> QED
    BY <2>2, <2>3, <2>4, <2>5, <2>6
<1>2. StepInv /\ CleanInv /\ [Next]_vars => [P]_vars
  BY <1>1
<1> QED
  BY <1>2, CleanAlways, PTL DEF Spec, UnsetFieldsUntouched

(* Only these three actions write the spec.                                *)
LEMMA WritesSpec ==
  ASSUME TypeInv, [Next]_vars, ~PatchSpec, ~UserCreate, ~UserEdit
  PROVE  UNCHANGED spec
<1>1. CASE Create \/ Update
  BY <1>1, CreateEnds, UpdateEnds DEF crVars
<1>2. CASE ~Create /\ ~Update
  BY <1>2 DEF Next, Worker, Environment, FetchGone, Fetch, Resolve, ReadFails,
     ReadNotFound, ReadUnmanaged, ReadManaged, ReadToDelete, Manage,
     ReadBack, ReadBackNotFound, LateInitialize, LateInitializeFails,
     Delete, Unmanage, Finish, UserDelete, ForeignRegister, ForeignDeregister,
     RoleChange, Tick, Resync, Crash, crVars, vars
<1> QED
  BY <1>1, <1>2

(* The patch of the spec carries the role alone, and in an undisturbed     *)
(* reconcile that of a CR with neither a role nor a reference to one.      *)
THEOREM LateInitIsSafe == Spec => LateInitFillsGap
<1> DEFINE P == (pc' # pc /\ spec' # spec) =>
                  /\ spec' = [spec EXCEPT !.role = spec'.role]
                  /\ ~dirty => /\ spec.role = Nil /\ spec.ref = Nil
                               /\ spec'.role = aws[spec.id].role
<1>1. ASSUME StepInv, CleanInv, [Next]_vars
      PROVE  P
  <2> SUFFICES ASSUME pc' # pc, spec' # spec
               PROVE  /\ spec' = [spec EXCEPT !.role = spec'.role]
                      /\ ~dirty => /\ spec.role = Nil /\ spec.ref = Nil
                                   /\ spec'.role = aws[spec.id].role
    OBVIOUS
  <2>1. TypeInv /\ FetchedInv /\ PatchInv /\ spec \in Specs
    BY <1>1 DEF StepInv, OwnInv, TypeInv, TypeOK
  <2>2. PatchSpec
    <3>1. ~UserCreate /\ ~UserEdit
      BY DEF UserCreate, UserEdit
    <3> QED
      BY <1>1, <2>1, <3>1, WritesSpec
  <2>3. /\ pc = "patch" /\ desired \in Resources /\ latest \in Resources
        /\ spec' = MergePatch(spec, ClearResolvedReferences(desired.spec),
                                    ClearResolvedReferences(latest.spec))
    BY <2>1, <2>2, InHand DEF PatchSpec
  <2>4. /\ desired.spec.ref = Nil /\ desired.spec.role = Nil
        /\ latest.spec = [desired.spec EXCEPT !.role = latest.spec.role]
        /\ desired.spec \in Specs /\ latest.spec \in Specs
    BY <2>1, <2>3 DEF PatchInv, Resources
  <2>5. spec' = [spec EXCEPT !.role = IF desired.spec.role = latest.spec.role
                                      THEN spec.role ELSE latest.spec.role]
    BY <2>1, <2>3, <2>4, PatchOfRole
  <2>6. spec' = [spec EXCEPT !.role = spec'.role]
    BY <2>1, <2>5 DEF Specs
  <2>7. ASSUME ~dirty
        PROVE  /\ spec.role = Nil /\ spec.ref = Nil
               /\ spec'.role = aws[spec.id].role
    <3>1. Undisturbed
      BY <2>1, <2>3, <2>7 DEF FetchedInv, Undisturbed
    <3>2. /\ spec.role = Nil /\ spec.ref = Nil
          /\ latest.spec.role = aws[spec.id].role
      BY <1>1, <2>3, <3>1 DEF CleanInv
    <3>3. spec'.role = latest.spec.role
      <4>1. desired.spec.role # latest.spec.role
        BY <2>1, <2>5 DEF Specs
      <4> QED
        BY <2>1, <2>5, <4>1 DEF Specs
    <3> QED
      BY <3>2, <3>3
  <2> QED
    BY <2>6, <2>7
<1>2. StepInv /\ CleanInv /\ [Next]_vars => [P]_vars
  BY <1>1
<1> QED
  BY <1>2, CleanAlways, PTL DEF Spec, LateInitFillsGap
=============================================================================

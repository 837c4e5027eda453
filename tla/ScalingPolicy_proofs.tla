------------------------ MODULE ScalingPolicy_proofs ------------------------
(* Proofs about ScalingPolicy for any specs, numbers, lists and bounds.    *)
EXTENDS ScalingPolicy, TLAPS

---------------------------------------------------------------------------
(* The operators of the resource manager return what their names say.      *)

(* What is read off a clock.                                               *)
LEMMA ClockTypes ==
  ASSUME NEW clocks \in Clocks
  PROVE  clocks.aws \in Times /\ Stamp(clocks, "controller") \in Stamps
  BY DEF Clocks, ClockNames, Stamp, Stamps

(* The queue of a key stays a queue, whoever queues the key.               *)
LEMMA QueueTypes ==
  /\ {} \in Queues /\ {"now"} \in Queues
  /\ \A q \in Queues : /\ q \cup {"now"} \in Queues
                       /\ q \ {"now"} \in Queues
                       /\ \A e : q \cup Requeued(e) \in Queues
  BY DEF Queues, Requeued

LEMMA SectionType ==
  ASSUME NEW s \in Specs, NEW k \in Types
  PROVE  s[k] \in Opt(Configs)
  BY DEF Specs, Types

(* The observed resource carries the policy's type, its configuration in   *)
(* the section of that type, its alarms, and the conditions it was given.  *)
LEMMA SdkFindType ==
  ASSUME NEW r \in Resources, NEW p \in Opt(Policies)
  PROVE  /\ SdkFind(r, p) \in Opt(Resources)
         /\ SdkFind(r, p) = Nil <=> p = Nil
         /\ p # Nil => /\ SdkFind(r, p).spec.type = p.type
                       /\ SdkFind(r, p).spec[p.type] = p.config
                       /\ SdkFind(r, p).status.alarms = p.alarms
                       /\ SdkFind(r, p).status.conds = r.status.conds
<1>1. CASE p = Nil
  BY <1>1 DEF SdkFind, Opt
<1>2. CASE p # Nil
  <2> DEFINE s == [type  |-> p.type,
                   step  |-> IF p.type = "step" THEN p.config ELSE Nil,
                   track |-> IF p.type = "track" THEN p.config ELSE Nil]
             st == [r.status EXCEPT !.alarms = p.alarms, !.ctime = p.ctime]
             st2 == CustomSetLastModifiedTimeToCreationTime(st)
  <2>1. p \in Policies
    BY <1>2 DEF Opt
  <2>2. p.type \in Types /\ p.config \in Configs
    BY <2>1 DEF Policies, StoredConfigs
  <2>3. s \in Specs /\ s.type = p.type /\ s[p.type] = p.config
    BY <2>2 DEF Specs, Types, Opt
  <2>4. /\ st \in Statuses
        /\ st.alarms = p.alarms /\ st.conds = r.status.conds
    BY <2>1 DEF Policies, Resources, Statuses, Opt
  <2> HIDE DEF s, st
  <2>5. /\ st2 \in Statuses
        /\ st2.alarms = p.alarms /\ st2.conds = r.status.conds
    BY <2>4 DEF CustomSetLastModifiedTimeToCreationTime, Statuses, Opt,
              Stamps, ClockNames
  <2> HIDE DEF st2
  <2>6. SdkFind(r, p) = [spec |-> s, status |-> st2]
    BY <1>2 DEF SdkFind, s, st, st2
  <2>7. SdkFind(r, p) \in Resources
    BY <2>3, <2>5, <2>6 DEF Resources
  <2>8. SdkFind(r, p) # Nil
    BY <2>7, PolicyResourceAssumption
  <2> QED
    BY <1>2, <2>3, <2>5, <2>6, <2>7, <2>8 DEF Opt
<1> QED
  BY <1>1, <1>2

(* AWS stores what it is given, keeps no empty slice, and fills in other.  *)
LEMMA StoredType ==
  ASSUME NEW c \in Configs, c.num # Nil => FitsInt32(c.num)
  PROVE  /\ Stored(c) \in StoredConfigs
         /\ Stored(c).num = c.num
         /\ c.other # Nil => Stored(c).other = c.other
         /\ Stored(c).list = IF c.list = <<>> THEN Nil ELSE c.list
<1>1. Nil # <<>> /\ DefaultOther \in Opt(Others)
  BY PolicyResourceAssumption
<1> DEFINE list  == IF c.list = <<>> THEN Nil ELSE c.list
           other == IF c.other = Nil THEN DefaultOther ELSE c.other
<1>a. Stored(c) = [c EXCEPT !.list = list, !.other = other]
  BY DEF Stored
<1> HIDE DEF list, other
<1>b. Stored(c) = [num |-> c.num, list |-> list, other |-> other]
  BY <1>a DEF Configs
<1>2. Stored(c) = [num   |-> c.num,
                   list  |-> IF c.list = <<>> THEN Nil ELSE c.list,
                   other |-> IF c.other = Nil THEN DefaultOther ELSE c.other]
  BY <1>b DEF list, other
<1>3. Stored(c) \in Configs
  BY <1>1, <1>2 DEF Configs, Opt
<1>4. Stored(c).list # <<>> /\ Stored(c).num = c.num
  BY <1>1, <1>2
<1> QED
  BY <1>2, <1>3, <1>4 DEF StoredConfigs

LEMMA PayloadIsSpec ==
  ASSUME NEW s \in Specs
  PROVE  Payload(s) = s
  BY DEF Payload, Specs

(* A policy that AWS accepts: of the type that was asked for, with the     *)
(* configuration given for that type or the one it had.                    *)
LEMMA PutPolicyType ==
  ASSUME NEW p \in Opt(Policies), NEW s \in Specs, NEW time \in Times,
         NEW target \in BOOLEAN,
         PayloadOK(s), Accepted(target, p, Payload(s))
  PROVE  /\ PutPolicy(p, Payload(s), time) \in Policies
         /\ s.type # Nil => PutPolicy(p, Payload(s), time).type = s.type
         /\ LET new == PutPolicy(p, Payload(s), time)
            IN  s[new.type] # Nil => new.config = Stored(s[new.type])
<1> DEFINE type   == TypeAfter(p, s)
           config == IF s[type] # Nil THEN Stored(s[type]) ELSE p.config
<1>1. Payload(s) = s
  BY PayloadIsSpec
<1>2. type \in Types
  BY <1>1 DEF Accepted, TypeAfter, Specs, Policies, Opt
<1>3. s[type] \in Opt(Configs)
  BY <1>2, SectionType
<1>4. config \in StoredConfigs
  <2>1. CASE s[type] # Nil
    <3>1. /\ s[type] \in Configs
          /\ s[type].num # Nil => FitsInt32(s[type].num)
      BY <1>2, <1>3, <2>1 DEF PayloadOK, Opt
    <3> QED
      BY <3>1, <2>1, StoredType
  <2>2. CASE s[type] = Nil
    BY <1>1, <1>2, <2>2 DEF Accepted, Policies, Opt
  <2> QED
    BY <2>1, <2>2
<1>5. PutPolicy(p, Payload(s), time)
        = [type   |-> type,
           config |-> config,
           alarms |-> IF type = "track" THEN config.other ELSE Nil,
           ctime  |-> IF p = Nil THEN time ELSE p.ctime]
  BY <1>1 DEF PutPolicy
<1>6. s.type # Nil => type = s.type
  BY DEF TypeAfter
<1>7. s[type] # Nil => config = Stored(s[type])
  OBVIOUS
<1> HIDE DEF type, config
<1>8. /\ config.other \in Opt(Others)
      /\ (IF p = Nil THEN time ELSE p.ctime) \in Times
  BY <1>4 DEF StoredConfigs, Configs, Policies, Opt
<1> QED
  BY <1>2, <1>4, <1>5, <1>6, <1>7, <1>8 DEF Policies, Alarms, Opt

LEMMA ConditionsType ==
  ASSUME NEW r \in Resources, NEW e \in {"error", "terminal"}
  PROVE  /\ OnError(r, e) \in Resources /\ OnError(r, e).spec = r.spec
         /\ OnSuccess(r) \in Resources /\ OnSuccess(r).spec = r.spec
         /\ OnSuccess(r).status.alarms = r.status.alarms
         /\ OnError(r, e).status.conds.synced = r.status.conds.synced
         /\ OnSuccess(r).status.conds.synced = r.status.conds.synced
         /\ OnError(r, "terminal").status.conds.terminal = "True"
<1>1. r.status.conds \in Conditions
  BY DEF Resources, Statuses
<1> DEFINE ce == UpdateConditions(r.status.conds, e)
           ct == UpdateConditions(r.status.conds, "terminal")
           cs == UpdateConditions(r.status.conds, Nil)
<1>2. ce \in Conditions /\ ce.synced = r.status.conds.synced
  BY <1>1 DEF UpdateConditions, Conditions, ConditionStatus, Opt
<1>3. cs \in Conditions /\ cs.synced = r.status.conds.synced
  BY <1>1, AckAssumption DEF UpdateConditions, Conditions, ConditionStatus, Opt
<1>4. ct \in Conditions /\ ct.terminal = "True"
  BY <1>1 DEF UpdateConditions, Conditions, ConditionStatus, Opt
<1>5. /\ OnError(r, e) = [r EXCEPT !.status = [r.status EXCEPT !.conds = ce]]
      /\ OnError(r, "terminal")
           = [r EXCEPT !.status = [r.status EXCEPT !.conds = ct]]
      /\ OnSuccess(r) = [r EXCEPT !.status = [r.status EXCEPT !.conds = cs]]
  BY DEF OnError, OnSuccess, Resources, Statuses
<1> HIDE DEF ce, ct, cs
<1>6. /\ OnError(r, e) \in Resources /\ OnError(r, e).spec = r.spec
      /\ OnError(r, e).status.conds.synced = r.status.conds.synced
  BY <1>2, <1>5 DEF Resources, Statuses
<1>7. /\ OnSuccess(r) \in Resources /\ OnSuccess(r).spec = r.spec
      /\ OnSuccess(r).status.alarms = r.status.alarms
      /\ OnSuccess(r).status.conds.synced = r.status.conds.synced
  BY <1>3, <1>5 DEF Resources, Statuses
<1>8. OnError(r, "terminal").status.conds.terminal = "True"
  BY <1>4, <1>5 DEF Resources, Statuses
<1> QED
  BY <1>6, <1>7, <1>8

LEMMA AnswerType ==
  ASSUME NEW r \in Resources, NEW p \in Policies, NEW clocks \in Clocks
  PROVE  /\ SdkCreated(r, p) \in Resources
         /\ SdkCreated(r, p).spec = r.spec
         /\ SdkCreated(r, p).status.alarms = p.alarms
         /\ SdkCreated(r, p).status.conds = r.status.conds
         /\ SdkUpdated(r, p, clocks) \in Resources
         /\ SdkUpdated(r, p, clocks).spec = r.spec
         /\ SdkUpdated(r, p, clocks).status.alarms = p.alarms
         /\ SdkUpdated(r, p, clocks).status.conds = r.status.conds
<1>1. p.alarms \in Alarms /\ r.status \in Statuses
  BY DEF Policies, Resources
<1>2. /\ SdkCreated(r, p)
           = [r EXCEPT !.status = [r.status EXCEPT !.alarms = p.alarms]]
      /\ SdkUpdated(r, p, clocks)
           = [r EXCEPT !.status = [r.status EXCEPT !.alarms = p.alarms,
                                                   !.lmt = Stamp(clocks, "controller")]]
  BY <1>1, ClockTypes DEF SdkCreated, SdkUpdated, Resources, Statuses
<1>3. /\ SdkCreated(r, p) \in Resources
      /\ SdkCreated(r, p).spec = r.spec
      /\ SdkCreated(r, p).status.alarms = p.alarms
      /\ SdkCreated(r, p).status.conds = r.status.conds
  BY <1>1, <1>2 DEF Resources, Statuses
<1>4. /\ SdkUpdated(r, p, clocks) \in Resources
      /\ SdkUpdated(r, p, clocks).spec = r.spec
      /\ SdkUpdated(r, p, clocks).status.alarms = p.alarms
      /\ SdkUpdated(r, p, clocks).status.conds = r.status.conds
  BY <1>1, <1>2, ClockTypes DEF Resources, Statuses, Opt
<1> QED
  BY <1>3, <1>4

LEMMA NoStatusType ==
  /\ NoConditions \in Conditions
  /\ NoStatus \in Statuses
  /\ \A st \in Statuses : [st EXCEPT !.conds = NoConditions] \in Statuses
  BY DEF NoStatus, Statuses, Alarms, NoConditions, Conditions, ConditionStatus,
         Opt

LEMMA MergeStatusType ==
  ASSUME NEW stored \in Statuses, NEW from \in Statuses, NEW to \in Statuses
  PROVE  MergePatch(stored, from, to) \in Statuses
  BY DEF MergePatch, Statuses

LEMMA EnsureSyncedType ==
  ASSUME NEW c \in Conditions, NEW e
  PROVE  /\ EnsureSynced(c, e) \in Conditions
         /\ EnsureSynced(c, e).synced # Nil
         /\ EnsureSynced(c, e).terminal = c.terminal
         /\ c.synced = Nil /\ EnsureSynced(c, e).synced = "True"
              => e \in {Nil, "terminal"}
  BY AckAssumption DEF EnsureSynced, Conditions, ConditionStatus, Opt

---------------------------------------------------------------------------
(* Type correctness.  It needs to know where the worker has a resource in  *)
(* hand: desired from Fetch on, latest from the first manager call on.     *)
Present ==
  /\ (pc # "idle") => desired # Nil
  /\ (pc \in {"readback", "update", "delete", "finish"}) => latest # Nil

TypeInv == TypeOK /\ Present

LEMMA InHand ==
  ASSUME TypeInv
  PROVE  /\ pc # "idle" => desired \in Resources
         /\ pc \in {"readback", "update", "delete", "finish"}
              => latest \in Resources
  BY DEF TypeInv, TypeOK, Present, Opt

LEMMA SpendType ==
  ASSUME TypeOK, NEW k \in {"user", "foreign", "fault"}, Spend(k)
  PROVE  left' \in [user : 0 .. MaxUser, foreign : 0 .. MaxForeign,
                    fault : 0 .. MaxFaults]
<1>1. left \in [user : 0 .. MaxUser, foreign : 0 .. MaxForeign,
                fault : 0 .. MaxFaults]
  BY DEF TypeOK
<1> QED
  BY <1>1, PolicyAssumption DEF Spend

LEMMA ReadOneType ==
  ASSUME TypeOK, NEW r \in Resources
  PROVE  /\ ReadOne(r) = Nil <=> policy = Nil
         /\ ReadOne(r) # Nil => ReadOne(r) \in Resources
  BY SdkFindType DEF TypeOK, ReadOne, Opt

(* A PutScalingPolicy that takes effect.                                   *)
Puts(s) ==
  /\ PayloadOK(s) /\ Accepted(registered, policy, Payload(s))
  /\ policy' = PutPolicy(policy, Payload(s), now.aws)
  /\ made' = TRUE

LEMMA PutsType ==
  ASSUME TypeOK, NEW s \in Specs, Puts(s)
  PROVE  policy' \in Policies /\ made' = TRUE
<1>1. /\ policy \in Opt(Policies) /\ registered \in BOOLEAN
      /\ now \in Clocks /\ now.aws \in Times
  BY ClockTypes DEF TypeOK
<1>2. PutPolicy(policy, Payload(s), now.aws) \in Policies
  BY <1>1, PutPolicyType DEF Puts
<1> QED
  BY <1>2 DEF Puts

(* The ways Create and Update end: the put may take effect although it is  *)
(* reported as failed.                                                     *)
LEMMA CreateEnds ==
  ASSUME TypeInv, Create
  PROVE  /\ pc = "create" /\ desired \in Resources
         /\ UNCHANGED <<crVars, registered, now, queue, reqVars, dirty>>
         /\ left' \in [user : 0 .. MaxUser, foreign : 0 .. MaxForeign,
                       fault : 0 .. MaxFaults]
         /\ \/ UNCHANGED <<policy, made>>
            \/ Puts(desired.spec)
         /\ \/ FinishWith(OnError(desired, "error"), "error")
            \/ /\ Puts(desired.spec)
               /\ latest' = OnSuccess(SdkCreated(desired, policy'))
               /\ pc' = "readback"
               /\ UNCHANGED err
<1> DEFINE Fails == FinishWith(OnError(desired, "error"), "error")
           Does  == /\ latest' = OnSuccess(SdkCreated(desired, policy'))
                    /\ pc' = "readback"
                    /\ UNCHANGED err
<1>1. /\ pc = "create" /\ Put(desired.spec, Fails, Does)
      /\ UNCHANGED <<crVars, registered, now, queue, reqVars, dirty>>
  BY DEF Create
<1>2. desired \in Resources
  BY <1>1, InHand
<1> HIDE DEF Fails, Does
<1>3. /\ UNCHANGED left \/ Spend("fault")
      /\ UNCHANGED <<policy, made>> \/ Puts(desired.spec)
      /\ Fails \/ (Puts(desired.spec) /\ Does)
  BY <1>1 DEF Put, Puts
<1>4. left' \in [user : 0 .. MaxUser, foreign : 0 .. MaxForeign,
                 fault : 0 .. MaxFaults]
  BY <1>3, SpendType DEF TypeInv, TypeOK
<1> QED
  BY <1>1, <1>2, <1>3, <1>4 DEF Fails, Does

LEMMA UpdateEnds ==
  ASSUME TypeInv, Update
  PROVE  /\ pc = "update" /\ desired \in Resources /\ latest \in Resources
         /\ UNCHANGED <<crVars, registered, now, queue, reqVars, dirty>>
         /\ left' \in [user : 0 .. MaxUser, foreign : 0 .. MaxForeign,
                       fault : 0 .. MaxFaults]
         /\ \/ UNCHANGED <<policy, made>>
            \/ Puts(desired.spec)
         /\ \/ FinishWith(OnError(latest, "error"), "error")
            \/ /\ Puts(desired.spec)
               /\ latest' = OnSuccess(SdkUpdated(desired, policy', now))
               /\ pc' = "finish"
               /\ UNCHANGED err
<1> DEFINE Fails == FinishWith(OnError(latest, "error"), "error")
           Does  == /\ latest' = OnSuccess(SdkUpdated(desired, policy', now))
                    /\ pc' = "finish"
                    /\ UNCHANGED err
<1>1. /\ pc = "update" /\ Put(desired.spec, Fails, Does)
      /\ UNCHANGED <<crVars, registered, now, queue, reqVars, dirty>>
  BY DEF Update
<1>2. desired \in Resources /\ latest \in Resources
  BY <1>1, InHand
<1> HIDE DEF Fails, Does
<1>3. /\ UNCHANGED left \/ Spend("fault")
      /\ UNCHANGED <<policy, made>> \/ Puts(desired.spec)
      /\ Fails \/ (Puts(desired.spec) /\ Does)
  BY <1>1 DEF Put, Puts
<1>4. left' \in [user : 0 .. MaxUser, foreign : 0 .. MaxForeign,
                 fault : 0 .. MaxFaults]
  BY <1>3, SpendType DEF TypeInv, TypeOK
<1> QED
  BY <1>1, <1>2, <1>3, <1>4 DEF Fails, Does

LEMMA InitType == Init => TypeInv
<1> SUFFICES ASSUME Init PROVE TypeInv
  OBVIOUS
<1>1. NoStatus \in Statuses
  BY NoStatusType
<1>2. spec \in Specs
  BY PolicyAssumption DEF Init
<1>3. now \in Clocks /\ now.aws \in Times
  BY ClockTypes DEF Init, Epoch, Clocks, Times
<1>4. left \in [user : 0 .. MaxUser, foreign : 0 .. MaxForeign,
                fault : 0 .. MaxFaults]
  BY PolicyAssumption DEF Init
<1>5. /\ policy \in Opt(Policies)
      /\ desired \in Opt(Resources) /\ latest \in Opt(Resources)
      /\ err \in Opt({"error", "requeue", "terminal"})
  BY DEF Init, Opt
<1> QED
  BY <1>1, <1>2, <1>3, <1>4, <1>5, QueueTypes
     DEF Init, TypeInv, TypeOK, Present, Steps

LEMMA EnvironmentType == TypeInv /\ Environment => TypeInv'
<1> SUFFICES ASSUME TypeInv, Environment PROVE TypeInv'
  OBVIOUS
<1> DEFINE LeftType == left' \in [user : 0 .. MaxUser, foreign : 0 .. MaxForeign,
                                  fault : 0 .. MaxFaults]
<1>0. TypeOK /\ Present
  BY DEF TypeInv
<1>a. NoStatus \in Statuses /\ Nil \in Opt(Policies)
  BY NoStatusType DEF Opt
<1> USE DEF TypeOK, Present, TypeInv, crVars, awsVars, reqVars
<1>1. CASE UserCreate
  <2>1. LeftType
    BY <1>1, <1>0, SpendType DEF UserCreate
  <2>2. spec' \in Specs
    BY <1>1, PolicyAssumption DEF UserCreate
  <2> QED
    BY <1>1, <1>a, <2>1, <2>2, QueueTypes DEF UserCreate
<1>2. CASE UserEdit
  <2>1. LeftType
    BY <1>2, <1>0, SpendType DEF UserEdit
  <2>2. spec' \in Specs
    BY <1>2, PolicyAssumption DEF UserEdit
  <2> QED
    BY <1>2, <2>1, <2>2, QueueTypes DEF UserEdit
<1>3. CASE UserDelete
  <2>1. LeftType
    BY <1>3, <1>0, SpendType DEF UserDelete
  <2> QED
    BY <1>3, <1>a, <2>1, QueueTypes DEF UserDelete
<1>4. CASE TargetRegistered
  <2>1. LeftType
    BY <1>4, <1>0, SpendType DEF TargetRegistered
  <2> QED
    BY <1>4, <2>1 DEF TargetRegistered
<1>5. CASE TargetDeregistered
  <2>1. LeftType
    BY <1>5, <1>0, SpendType DEF TargetDeregistered
  <2> QED
    BY <1>5, <1>a, <2>1 DEF TargetDeregistered
<1>6. CASE ForeignPut
  <2>1. LeftType
    BY <1>6, <1>0, SpendType DEF ForeignPut
  <2>2. PICK s \in ForeignSpecs :
          /\ Accepted(registered, policy, Payload(s))
          /\ policy' = PutPolicy(policy, Payload(s), now.aws)
    BY <1>6 DEF ForeignPut
  <2>3. s \in Specs /\ PayloadOK(s)
    BY <2>2, PolicyAssumption
  <2>4. policy' \in Opt(Policies)
    BY <2>2, <2>3, PutPolicyType, ClockTypes DEF Opt
  <2> QED
    BY <1>6, <2>1, <2>4 DEF ForeignPut
<1>7. CASE ForeignDelete
  <2>1. LeftType
    BY <1>7, <1>0, SpendType DEF ForeignDelete
  <2> QED
    BY <1>7, <1>a, <2>1 DEF ForeignDelete
<1>8. CASE Tick
  BY <1>8 DEF Tick, Clocks, Times
<1>9. CASE Resync
  BY <1>9, QueueTypes DEF Resync
<1>10. CASE Crash
  <2>1. LeftType
    BY <1>10, <1>0, SpendType DEF Crash
  <2> QED
    BY <1>10, <2>1, QueueTypes DEF Crash, Idle, Opt, Steps
<1> QED
  BY <1>1, <1>2, <1>3, <1>4, <1>5, <1>6, <1>7, <1>8, <1>9, <1>10
     DEF Environment

LEMMA WorkerType == TypeInv /\ Worker => TypeInv'
<1> SUFFICES ASSUME TypeInv, Worker PROVE TypeInv'
  OBVIOUS
<1> DEFINE LeftType == left' \in [user : 0 .. MaxUser, foreign : 0 .. MaxForeign,
                                  fault : 0 .. MaxFaults]
           Errors == Opt({"error", "requeue", "terminal"})
<1>0. TypeOK /\ Present
  BY DEF TypeInv
<1>h. /\ (pc # "idle") => desired \in Resources
      /\ (pc \in {"readback", "update", "delete", "finish"})
           => latest \in Resources
  BY InHand
<1>e. /\ "error" \in Errors /\ "requeue" \in Errors /\ "terminal" \in Errors
      /\ Nil \in Errors /\ Nil \in Opt(Resources) /\ Nil \in Opt(Policies)
  BY DEF Opt
<1>f. \A r \in Resources : r \in Opt(Resources) /\ r # Nil
  BY PolicyResourceAssumption DEF Opt
<1>g. \A r \in Resources : r.spec \in Specs /\ r.status \in Statuses
  BY DEF Resources
<1> HIDE DEF Errors
<1>i. err \in Errors
  BY DEF TypeInv, TypeOK, Errors
<1>j. err' \in Errors => err' \in Opt({"error", "requeue", "terminal"})
  BY DEF Errors
<1> USE DEF TypeOK, Present, TypeInv, crVars, awsVars, reqVars, Steps
<1>1. CASE FetchGone
  BY <1>1, QueueTypes DEF FetchGone
<1>2. CASE Fetch
  <2>1. [status EXCEPT !.conds = NoConditions] \in Statuses
    BY NoStatusType
  <2>2. desired' \in Resources
    BY <1>2, <2>1 DEF Fetch, Resources
  <2>3. desired' \in Opt(Resources) /\ desired' # Nil
    BY <2>2, <1>f
  <2> QED
    BY <1>2, <2>3, QueueTypes DEF Fetch
<1>3. CASE ReadFails
  <2>1. LeftType
    BY <1>3, <1>0, SpendType DEF ReadFails
  <2>2. PICK r \in {desired, latest} :
          r \in Resources /\ FinishWith(OnError(r, "error"), "error")
    BY <1>3, <1>h DEF ReadFails
  <2>3. OnError(r, "error") \in Resources
    BY <2>2, ConditionsType
  <2> QED
    BY <1>3, <2>1, <2>2, <2>3, <1>e, <1>f, <1>j DEF ReadFails, FinishWith
<1>4. CASE ReadNotFound
  BY <1>4 DEF ReadNotFound
<1>5. CASE ReadUnmanaged
  <2>1. ReadOne(desired) \in Resources
    BY <1>5, <1>0, <1>h, ReadOneType DEF ReadUnmanaged
  <2>2. OnSuccess(ReadOne(desired)) \in Resources
    BY <2>1, ConditionsType
  <2>3. OnError(OnSuccess(ReadOne(desired)), "terminal") \in Resources
    BY <2>2, ConditionsType
  <2> QED
    BY <1>5, <2>3, <1>e, <1>f, <1>j DEF ReadUnmanaged, FinishWith
<1>6. CASE ReadManaged \/ ReadToDelete
  <2>1. ReadOne(desired) \in Resources
    BY <1>6, <1>0, <1>h, ReadOneType DEF ReadManaged, ReadToDelete
  <2>2. OnSuccess(ReadOne(desired)) \in Resources
    BY <2>1, ConditionsType
  <2>3. /\ pc = "read"
        /\ latest' = OnSuccess(ReadOne(desired))
        /\ pc' \in {"finish", "update", "delete"}
        /\ UNCHANGED <<crVars, awsVars, now, queue, reqVars, err, dirty, left>>
    BY <1>6 DEF ReadManaged, ReadToDelete
  <2> QED
    BY <2>2, <2>3, <1>f
<1>7. CASE Manage
  BY <1>7, <1>e, <1>j, QueueTypes DEF Manage, Idle
<1>8. CASE Create
  <2>1. /\ desired \in Resources /\ desired.spec \in Specs
        /\ now \in Clocks /\ now.aws \in Times
    BY <1>8, <1>0, <1>g, ClockTypes, CreateEnds
  <2>2. policy' \in Opt(Policies) /\ made' \in BOOLEAN
    BY <1>8, <1>0, <2>1, CreateEnds, PutsType DEF Opt
  <2>3. latest' \in Resources /\ pc' \in Steps /\ err' \in Errors
    <3>1. CASE FinishWith(OnError(desired, "error"), "error")
      BY <3>1, <2>1, <1>e, ConditionsType DEF FinishWith
    <3>2. CASE /\ Puts(desired.spec)
               /\ latest' = OnSuccess(SdkCreated(desired, policy'))
               /\ pc' = "readback"
               /\ UNCHANGED err
      <4>1. SdkCreated(desired, policy') \in Resources
        BY <3>2, <2>1, <1>0, PutsType, AnswerType
      <4>2. OnSuccess(SdkCreated(desired, policy')) \in Resources
        BY <4>1, ConditionsType
      <4> QED
        BY <3>2, <4>2, <1>i
    <3> QED
      BY <1>8, <3>1, <3>2, CreateEnds
  <2> QED
    BY <1>8, <2>2, <2>3, <1>f, <1>j, CreateEnds
<1>9. CASE ReadBackNotFound
  BY <1>9, <1>h, <1>f, <1>e, <1>j DEF ReadBackNotFound, FinishWith
<1>10. CASE ReadBack
  <2>1. latest \in Resources /\ ReadOne(latest) \in Resources
    BY <1>10, <1>0, <1>h, ReadOneType DEF ReadBack
  <2>2. OnSuccess(ReadOne(latest)).status \in Statuses
    BY <2>1, <1>g, ConditionsType
  <2>3. latest' \in Resources
    BY <1>10, <2>1, <2>2 DEF ReadBack, Resources
  <2> QED
    BY <1>10, <2>3, <1>f DEF ReadBack
<1>11. CASE Update
  <2>1. /\ desired \in Resources /\ desired.spec \in Specs /\ latest \in Resources
        /\ now \in Clocks /\ now.aws \in Times
    BY <1>11, <1>0, <1>g, ClockTypes, UpdateEnds
  <2>2. policy' \in Opt(Policies) /\ made' \in BOOLEAN
    BY <1>11, <1>0, <2>1, UpdateEnds, PutsType DEF Opt
  <2>3. latest' \in Resources /\ pc' \in Steps /\ err' \in Errors
    <3>1. CASE FinishWith(OnError(latest, "error"), "error")
      BY <3>1, <2>1, <1>e, ConditionsType DEF FinishWith
    <3>2. CASE /\ Puts(desired.spec)
               /\ latest' = OnSuccess(SdkUpdated(desired, policy', now))
               /\ pc' = "finish"
               /\ UNCHANGED err
      <4>1. SdkUpdated(desired, policy', now) \in Resources
        BY <3>2, <2>1, <1>0, PutsType, AnswerType
      <4>2. OnSuccess(SdkUpdated(desired, policy', now)) \in Resources
        BY <4>1, ConditionsType
      <4> QED
        BY <3>2, <4>2, <1>i
    <3> QED
      BY <1>11, <3>1, <3>2, UpdateEnds
  <2> QED
    BY <1>11, <2>2, <2>3, <1>f, <1>j, UpdateEnds
<1>12. CASE Delete
  <2>1. latest \in Resources /\ OnError(latest, "error") \in Resources
    BY <1>12, <1>h, ConditionsType DEF Delete
  <2>2. LeftType
    BY <1>12, <1>0, SpendType DEF Delete
  <2>3. policy' \in Opt(Policies) /\ made' \in BOOLEAN
    BY <1>12, <1>0, <1>e DEF Delete
  <2> QED
    BY <1>12, <2>1, <2>2, <2>3, <1>e, <1>f, <1>j DEF Delete, FinishWith
<1>13. CASE Unmanage
  <2>1. NoStatus \in Statuses
    BY NoStatusType
  <2> QED
    BY <1>13, <2>1, <1>e, <1>j DEF Unmanage, Idle
<1>14. CASE Finish
  <2> DEFINE to == IF isDeleting THEN latest.status
                   ELSE [latest.status EXCEPT !.conds = EnsureSynced(@, err)]
  <2>1. desired.status \in Statuses /\ latest.status \in Statuses
    BY <1>14, <1>h, <1>g DEF Finish
  <2>2. EnsureSynced(latest.status.conds, err) \in Conditions
    BY <2>1, EnsureSyncedType DEF Statuses
  <2>3. to \in Statuses
    BY <2>1, <2>2 DEF Statuses
  <2> HIDE DEF to
  <2>4. MergePatch(status, desired.status, to) \in Statuses
    BY <2>1, <2>3, MergeStatusType
  <2>5. status' = IF phase = "absent" THEN status
                  ELSE MergePatch(status, desired.status, to)
    BY <1>14 DEF Finish, to
  <2>6. status' \in Statuses
    BY <2>4, <2>5
  <2> QED
    BY <1>14, <2>6, <1>e, <1>j, QueueTypes DEF Finish, Idle
<1> QED
  BY <1>1, <1>2, <1>3, <1>4, <1>5, <1>6, <1>7, <1>8, <1>9, <1>10, <1>11,
     <1>12, <1>13, <1>14 DEF Worker

LEMMA NextType == TypeInv /\ [Next]_vars => TypeInv'
<1>1. TypeInv /\ UNCHANGED vars => TypeInv'
  BY DEF TypeInv, TypeOK, Present, vars
<1> QED
  BY <1>1, WorkerType, EnvironmentType DEF Next

(* Every variable of the reconciler, the CR and AWS stays in its type: no  *)
(* empty slice and no number beyond int32 reaches the stored policy, and   *)
(* no step is left without the resource it works on.                       *)
THEOREM TypeCorrect == Spec => []TypeOK
<1>1. TypeInv => TypeOK
  BY DEF TypeInv
<1> QED
  BY <1>1, InitType, NextType, PTL DEF Spec

---------------------------------------------------------------------------
(* Who owns what.  The worker's copy of the finalizer and of the deletion  *)
(* timestamp may be old but never wrong: nobody else sets or removes the   *)
(* finalizer, and a deletion is not taken back.                            *)
OwnerInv ==
  /\ (phase = "absent") => ~managed
  /\ (phase = "deleting") => managed
  /\ (pc # "idle") => isManaged = managed
  /\ (pc # "idle" /\ isDeleting) => phase = "deleting"
  /\ (pc \in {"create", "readback", "update", "delete", "unmanage"})
       => isManaged
  /\ (pc = "manage") => ~isManaged
  /\ (pc \in {"delete", "unmanage"}) => isDeleting

(* A policy hangs on a registered target; one that the controller put and  *)
(* nobody removed is still there, and gone before the finalizer comes off. *)
MadeInv ==
  /\ (policy # Nil) => registered
  /\ made => managed
  /\ made => policy # Nil
  /\ (pc = "unmanage") => ~made

Inv == TypeInv /\ OwnerInv /\ MadeInv

LEMMA NextOwner == TypeInv /\ OwnerInv /\ [Next]_vars => OwnerInv'
<1> SUFFICES ASSUME TypeInv, OwnerInv, [Next]_vars PROVE OwnerInv'
  OBVIOUS
<1> USE DEF OwnerInv, TypeInv, TypeOK, crVars, awsVars, reqVars, Steps
<1>1. CASE UNCHANGED vars
  BY <1>1 DEF vars
<1>2. CASE Environment
  <2>1. CASE UserCreate
    BY <2>1 DEF UserCreate
  <2>2. CASE UserEdit
    BY <2>2 DEF UserEdit
  <2>3. CASE UserDelete
    BY <2>3 DEF UserDelete
  <2>4. CASE TargetRegistered \/ TargetDeregistered \/ ForeignPut
             \/ ForeignDelete \/ Tick \/ Resync
    BY <2>4 DEF TargetRegistered, TargetDeregistered, ForeignPut,
                ForeignDelete, Tick, Resync
  <2>5. CASE Crash
    BY <2>5 DEF Crash, Idle
  <2> QED
    BY <1>2, <2>1, <2>2, <2>3, <2>4, <2>5 DEF Environment
<1>3. CASE FetchGone
  BY <1>3 DEF FetchGone
<1>4. CASE Fetch
  <2>1. /\ UNCHANGED <<phase, managed>>
        /\ pc' = "read"
        /\ isManaged' = managed
        /\ isDeleting' => phase = "deleting"
    BY <1>4 DEF Fetch
  <2> QED
    BY <2>1
<1>5. CASE ReadFails \/ ReadNotFound \/ ReadUnmanaged \/ ReadManaged
           \/ ReadToDelete
  BY <1>5 DEF ReadFails, ReadNotFound, ReadUnmanaged, ReadManaged,
              ReadToDelete, FinishWith
<1>6. CASE Manage
  BY <1>6 DEF Manage, Idle
<1>7. CASE Create \/ Update
  <2>1. /\ pc \in {"create", "update"}
        /\ UNCHANGED <<phase, managed, isManaged, isDeleting>>
        /\ pc' \in {"readback", "finish"}
    BY <1>7, CreateEnds, UpdateEnds DEF FinishWith
  <2> QED
    BY <2>1
<1>8. CASE ReadBack \/ ReadBackNotFound
  BY <1>8 DEF ReadBack, ReadBackNotFound, FinishWith
<1>9. CASE Delete
  BY <1>9 DEF Delete, FinishWith
<1>10. CASE Unmanage \/ Finish
  BY <1>10 DEF Unmanage, Finish, Idle
<1> QED
  BY <1>1, <1>2, <1>3, <1>4, <1>5, <1>6, <1>7, <1>8, <1>9, <1>10
     DEF Next, Worker

(* The ways the policy and made change.                                    *)
LEMMA MadeChanges ==
  ASSUME TypeInv, [Next]_vars
  PROVE  \/ UNCHANGED <<registered, policy, made>>
         \/ TargetRegistered /\ registered' /\ UNCHANGED <<policy, made>>
         \/ (TargetDeregistered \/ ForeignDelete \/ Delete)
              /\ policy' = Nil /\ ~made'
         \/ /\ ForeignPut /\ registered /\ policy' # Nil
            /\ UNCHANGED <<registered, made>>
         \/ /\ Create \/ Update
            /\ registered /\ policy' # Nil /\ made'
            /\ UNCHANGED registered
<1>1. Nil \notin Policies
  BY PolicyResourceAssumption
<1>2. CASE Create \/ Update
  <2>1. /\ desired \in Resources
        /\ UNCHANGED registered
        /\ UNCHANGED <<policy, made>> \/ Puts(desired.spec)
    BY <1>2, CreateEnds, UpdateEnds
  <2>2. CASE Puts(desired.spec)
    <3>1. desired.spec \in Specs
      BY <2>1 DEF Resources
    <3>2. policy' \in Policies /\ made' = TRUE
      BY <2>2, <3>1, PutsType DEF TypeInv
    <3> QED
      BY <1>1, <1>2, <2>1, <2>2, <3>2 DEF Puts, Accepted
  <2> QED
    BY <2>1, <2>2
<1>3. CASE Delete
  BY <1>3 DEF Delete
<1>4. CASE TargetRegistered \/ TargetDeregistered \/ ForeignDelete
  BY <1>4 DEF TargetRegistered, TargetDeregistered, ForeignDelete
<1>5. CASE ForeignPut
  <2>1. PICK s \in ForeignSpecs :
          /\ Accepted(registered, policy, Payload(s))
          /\ policy' = PutPolicy(policy, Payload(s), now.aws)
    BY <1>5 DEF ForeignPut
  <2>2. s \in Specs /\ PayloadOK(s)
    BY <2>1, PolicyAssumption
  <2>3. policy' \in Policies
    BY <2>1, <2>2, PutPolicyType, ClockTypes DEF TypeInv, TypeOK
  <2> QED
    BY <1>1, <1>5, <2>1, <2>3 DEF ForeignPut, Accepted
<1>6. ASSUME ~Create, ~Update, ~Delete, ~TargetRegistered, ~TargetDeregistered,
             ~ForeignDelete, ~ForeignPut
      PROVE  UNCHANGED <<registered, policy, made>>
  BY <1>6 DEF Next, Worker, Environment, UserCreate, UserEdit, UserDelete,
     Tick, Resync, Crash, FetchGone, Fetch, ReadFails, ReadNotFound,
     ReadUnmanaged, ReadManaged, ReadToDelete, Manage, ReadBack,
     ReadBackNotFound, Unmanage, Finish, awsVars, vars
<1> QED
  BY <1>2, <1>3, <1>4, <1>5, <1>6

LEMMA NextMade ==
  ASSUME Inv, [Next]_vars
  PROVE  MadeInv'
<1>1. /\ TypeInv /\ OwnerInv /\ MadeInv
      /\ registered \in BOOLEAN /\ registered' \in BOOLEAN
      /\ made \in BOOLEAN /\ made' \in BOOLEAN
  BY NextType DEF Inv, TypeInv, TypeOK
<1>2. /\ (policy' # Nil) => registered'
      /\ made' => policy' # Nil
  BY <1>1, MadeChanges DEF MadeInv
<1>3. made' => managed'
  <2>1. CASE Create \/ Update
    <3>1. pc \in {"create", "update"} /\ managed' = managed
      BY <1>1, <2>1, CreateEnds, UpdateEnds DEF crVars
    <3>2. isManaged /\ isManaged = managed
      BY <1>1, <3>1 DEF OwnerInv
    <3> QED
      BY <3>1, <3>2
  <2>2. CASE UserCreate
    BY <1>1, <2>2 DEF UserCreate, OwnerInv, MadeInv, awsVars
  <2>3. CASE Manage
    BY <1>1, <2>3 DEF Manage, MadeInv, awsVars
  <2>4. CASE Unmanage
    BY <1>1, <2>4 DEF Unmanage, MadeInv, awsVars
  <2>5. ASSUME ~UserCreate, ~Manage, ~Unmanage PROVE managed' = managed
    BY <2>5 DEF Inv, Next, Worker, Environment, UserEdit, UserDelete,
       TargetRegistered, TargetDeregistered, ForeignPut, ForeignDelete, Tick,
       Resync, Crash, FetchGone, Fetch, ReadFails, ReadNotFound, ReadUnmanaged,
       ReadManaged, ReadToDelete, Create, ReadBack, ReadBackNotFound, Update,
       Delete, Finish, crVars, vars
  <2>6. ASSUME ~Create, ~Update PROVE made' => made
    BY <1>1, <2>6, MadeChanges
  <2> QED
    BY <1>1, <2>1, <2>2, <2>3, <2>4, <2>5, <2>6 DEF MadeInv
<1>4. (pc' = "unmanage") => ~made'
  <2> SUFFICES ASSUME pc' = "unmanage" PROVE ~made'
    OBVIOUS
  <2>1. CASE ReadNotFound
    <3>1. desired \in Resources
      BY <1>1, <2>1, InHand DEF ReadNotFound
    <3>2. policy = Nil
      BY <1>1, <2>1, <3>1, ReadOneType DEF ReadNotFound, TypeInv
    <3> QED
      BY <1>1, <2>1, <3>2 DEF ReadNotFound, MadeInv, awsVars
  <2>2. CASE Delete
    BY <1>1, <2>2 DEF Delete, FinishWith
  <2>3. CASE pc = "unmanage"
    <3>1. ~Create /\ ~Update
      BY <2>3 DEF Create, Update
    <3>2. made' => made
      BY <1>1, <3>1, MadeChanges
    <3> QED
      BY <1>1, <2>3, <3>2 DEF MadeInv
  <2>4. ASSUME ~ReadNotFound, ~Delete PROVE pc = "unmanage"
    <3>1. ~Create /\ ~Update
      BY <1>1, CreateEnds, UpdateEnds DEF FinishWith
    <3> QED
      BY <2>4, <3>1 DEF Inv, Next, Worker, Environment, UserCreate, UserEdit,
       UserDelete, TargetRegistered, TargetDeregistered, ForeignPut,
       ForeignDelete, Tick, Resync, Crash, FetchGone, Fetch, ReadFails,
       ReadUnmanaged, ReadManaged, ReadToDelete, Manage, ReadBack,
       ReadBackNotFound, Unmanage, Finish, FinishWith, Idle, vars
  <2> QED
    BY <2>1, <2>2, <2>3, <2>4
<1> QED
  BY <1>2, <1>3, <1>4 DEF MadeInv

LEMMA InvAlways == Spec => []Inv
<1>1. Init => Inv
  BY InitType DEF Init, Inv, OwnerInv, MadeInv
<1>2. Inv /\ [Next]_vars => Inv'
  BY NextType, NextOwner, NextMade DEF Inv
<1> QED
  BY <1>1, <1>2, PTL DEF Spec

(* No policy that the controller put is left without a CR that carries the *)
(* finalizer, whatever becomes of its target, of the worker or of a call.  *)
THEOREM NothingOrphaned == Spec => []NoOrphan
<1>1. Inv => NoOrphan
  BY DEF Inv, OwnerInv, MadeInv, NoOrphan
<1> QED
  BY <1>1, InvAlways, PTL

---------------------------------------------------------------------------
(* Each step of the reconciler is a step of the finalizer protocol or      *)
(* stutters: Manage marks, Put makes, Delete unmakes, Unmanage unmarks.    *)
LEMMA StepRefines ==
  ASSUME Inv, [Next]_vars
  PROVE  [Protocol!Next]_(Protocol!protocolVars)
<1> USE DEF Protocol!protocolVars, crVars, awsVars
<1>1. /\ TypeInv /\ OwnerInv /\ MadeInv
      /\ managed \in BOOLEAN /\ isManaged \in BOOLEAN
      /\ made \in BOOLEAN /\ made' \in BOOLEAN
      /\ phase \in {"absent", "live", "deleting"}
  BY NextType DEF Inv, TypeInv, TypeOK
<1>2. CASE UserCreate
  <2>1. Protocol!CreateCR
    BY <1>1, <1>2 DEF UserCreate, Protocol!CreateCR, OwnerInv
  <2> QED
    BY <2>1 DEF Protocol!Next
<1>3. CASE UserDelete
  <2>1. Protocol!DeleteCR
    BY <1>3 DEF UserDelete, Protocol!DeleteCR
  <2> QED
    BY <2>1 DEF Protocol!Next
<1>4. CASE TargetDeregistered \/ ForeignDelete \/ Delete
  <2>1. UNCHANGED <<phase, managed>>
    BY <1>4 DEF TargetDeregistered, ForeignDelete, Delete
  <2>2. CASE UNCHANGED made
    BY <2>1, <2>2
  <2>3. CASE made' # made
    <3>1. ~made'
      BY <1>1, <1>4, <2>3 DEF TargetDeregistered, ForeignDelete, Delete
    <3>2. Protocol!Unmake("policy")
      BY <2>1, <3>1 DEF Protocol!Unmake
    <3> QED
      BY <3>2 DEF Protocol!Next
  <2> QED
    BY <2>2, <2>3
<1>5. CASE Manage
  <2>1. CASE phase = "absent"
    BY <1>5, <2>1 DEF Manage
  <2>2. CASE phase # "absent"
    <3>1. ~isManaged /\ isManaged = managed
      BY <1>1, <1>5 DEF Manage, OwnerInv
    <3>2. phase = "live"
      BY <1>1, <2>2, <3>1 DEF OwnerInv
    <3>3. Protocol!MarkManaged
      BY <1>5, <2>2, <3>2 DEF Manage, Protocol!MarkManaged
    <3> QED
      BY <3>3 DEF Protocol!Next
  <2> QED
    BY <2>1, <2>2
<1>6. CASE Create \/ Update
  <2>1. /\ pc \in {"create", "update"}
        /\ UNCHANGED <<phase, managed>>
        /\ UNCHANGED made \/ made'
    BY <1>1, <1>6, CreateEnds, UpdateEnds DEF Puts
  <2>2. isManaged /\ isManaged = managed
    BY <1>1, <2>1 DEF OwnerInv
  <2>3. CASE made'
    <3>1. Protocol!Make("policy")
      BY <2>1, <2>2, <2>3 DEF Protocol!Make
    <3> QED
      BY <3>1 DEF Protocol!Next
  <2> QED
    BY <2>1, <2>3
<1>7. CASE Unmanage
  <2>1. phase = "deleting" /\ ~made
    BY <1>1, <1>7 DEF Unmanage, OwnerInv, MadeInv
  <2>2. Protocol!MarkUnmanaged
    BY <1>7, <2>1 DEF Unmanage, Protocol!MarkUnmanaged
  <2> QED
    BY <2>2 DEF Protocol!Next
<1>8. ASSUME ~UserCreate, ~UserDelete, ~TargetDeregistered, ~ForeignDelete,
             ~Delete, ~Manage, ~Create, ~Update, ~Unmanage
      PROVE  UNCHANGED <<phase, managed, made>>
  BY <1>8 DEF Inv, Next, Worker, Environment, UserEdit, TargetRegistered,
     ForeignPut, Tick, Resync, Crash, FetchGone, Fetch, ReadFails,
     ReadNotFound, ReadUnmanaged, ReadManaged, ReadToDelete, ReadBack,
     ReadBackNotFound, Finish, vars
<1> QED
  BY <1>2, <1>3, <1>4, <1>5, <1>6, <1>7, <1>8

(* The reconciler implements the finalizer protocol: the policy is put     *)
(* only on behalf of a CR that carries the finalizer, and such a CR        *)
(* disappears only when the policy made for it is gone.                    *)
THEOREM ImplementsProtocol == Spec => FinalizerRefinement
<1>1. Init => Protocol!Init
  BY DEF Init, Protocol!Init
<1>2. Inv /\ [Next]_vars => [Protocol!Next]_(Protocol!protocolVars)
  BY StepRefines
<1> QED
  BY <1>1, <1>2, InvAlways, PTL DEF Spec, FinalizerRefinement, Protocol!Spec

---------------------------------------------------------------------------
(* An undisturbed reconcile: nobody else acted, and the worker did not die,*)
(* since it fetched the CR.  Then it works on the spec and the status that *)
(* are stored, without conditions of earlier reconciles, and what it calls *)
(* a success is one: the policy is in order before it says so.             *)
Undisturbed == ~dirty /\ phase = "live"

InOrder(st) == registered /\ Matches(policy) /\ st.alarms = policy.alarms

CleanInv ==
  Undisturbed =>
    /\ (pc = "idle" /\ status.conds.synced = "True"
          /\ status.conds.terminal # "True")
         => InOrder(status)
    /\ (pc # "idle")
         => /\ desired.spec = spec
            /\ desired.status = [status EXCEPT !.conds = NoConditions]
    /\ (pc \in {"read", "manage", "create", "readback", "update"}) => err = Nil
    /\ (pc \in {"readback", "update", "finish"})
         => latest.status.conds.synced = Nil
    /\ (pc = "readback") => InOrder(latest.status)
    /\ (pc = "finish" /\ err = Nil) => InOrder(latest.status)
    /\ (pc = "finish" /\ err = "terminal")
         => latest.status.conds.terminal = "True"

(* err is Nil between reconciles.                                          *)
ErrInv == (pc = "idle") => err = Nil

(* An observed policy without a delta is the one that was asked for.       *)
LEMMA NoDeltaMatches ==
  ASSUME NEW r \in Resources, NEW p \in Policies, r.spec = spec, spec \in Specs,
         NewResourceDelta(r.spec, SdkFind(r, p).spec) = {}
  PROVE  Matches(p)
<1> DEFINE observed == SdkFind(r, p).spec
           want == spec[p.type]
<1>1. p # Nil /\ p.type \in Types /\ p.config \in StoredConfigs
  BY PolicyResourceAssumption DEF Policies
<1>2. observed.type = p.type /\ observed[p.type] = p.config
  BY <1>1, SdkFindType DEF Opt
<1>3. /\ p.config \in Configs /\ p.config # Nil /\ p.config.list # <<>>
      /\ Nil # <<>>
  BY <1>1, PolicyResourceAssumption DEF StoredConfigs
<1>4. spec.type = observed.type /\ SameConfig(want, observed[p.type])
  BY <1>1 DEF NewResourceDelta
<1>5. want # Nil /\ SameConfig(want, p.config)
  BY <1>2, <1>3, <1>4 DEF SameConfig
<1>6. /\ want.num = p.config.num /\ want.other = p.config.other
      /\ SameList(want.list, p.config.list)
  BY <1>3, <1>5 DEF SameConfig
<1>7. /\ want.list = <<>> => p.config.list = Nil
      /\ want.list \notin {Nil, <<>>} => p.config.list = want.list
  BY <1>3, <1>6 DEF SameList
<1> QED
  BY <1>1, <1>2, <1>4, <1>6, <1>7 DEF Matches

(* ... and so is a policy that was just put.                               *)
LEMMA PutMatches ==
  ASSUME TypeOK, Puts(spec)
  PROVE  registered /\ policy' \in Policies /\ (spec' = spec => Matches(policy)')
<1> DEFINE new  == PutPolicy(policy, Payload(spec), now.aws)
           want == spec[new.type]
<1>1. /\ spec \in Specs /\ policy \in Opt(Policies)
      /\ now \in Clocks /\ now.aws \in Times
      /\ registered \in BOOLEAN
  BY ClockTypes DEF TypeOK
<1>2. /\ PayloadOK(spec) /\ Accepted(registered, policy, Payload(spec))
      /\ policy' = new
  BY DEF Puts
<1>3. /\ new \in Policies
      /\ spec.type # Nil => new.type = spec.type
      /\ want # Nil => new.config = Stored(want)
  BY <1>1, <1>2, PutPolicyType
<1> HIDE DEF new
<1>4. new # Nil /\ new.type \in Types
  BY <1>3, PolicyResourceAssumption DEF Policies
<1>5. want # Nil => /\ want \in Configs
                    /\ want.num # Nil => FitsInt32(want.num)
  BY <1>1, <1>2, <1>4, SectionType DEF Opt, PayloadOK
<1>6. want # Nil => /\ new.config.num = want.num
                    /\ want.other # Nil => new.config.other = want.other
                    /\ new.config.list
                         = IF want.list = <<>> THEN Nil ELSE want.list
  BY <1>3, <1>5, StoredType
<1>7. spec' = spec => Matches(policy)'
  BY <1>2, <1>3, <1>4, <1>6 DEF Matches
<1> QED
  BY <1>2, <1>3, <1>7 DEF Accepted

(* Nobody disturbs a reconcile without leaving a mark.                     *)
LEMMA Disturbed ==
  ASSUME TypeInv, Environment, ~Tick, ~Resync
  PROVE  dirty' = TRUE
  BY DEF Environment, UserCreate, UserEdit, UserDelete, TargetRegistered,
     TargetDeregistered, ForeignPut, ForeignDelete, Crash

LEMMA NextErr ==
  ASSUME Inv, ErrInv, [Next]_vars
  PROVE  ErrInv'
<1>1. CASE Create \/ Update
  <2>1. pc' \in {"finish", "readback"}
    BY <1>1, CreateEnds, UpdateEnds DEF Inv, FinishWith
  <2> QED
    BY <2>1 DEF ErrInv
<1>2. ASSUME ~Create, ~Update PROVE ErrInv'
  BY <1>2 DEF ErrInv, Inv, Next, Worker, Environment, UserCreate, UserEdit,
     UserDelete, TargetRegistered, TargetDeregistered, ForeignPut,
     ForeignDelete, Tick, Resync, Crash, FetchGone, Fetch, ReadFails,
     ReadNotFound, ReadUnmanaged, ReadManaged, ReadToDelete, Manage, ReadBack,
     ReadBackNotFound, Delete, Unmanage, Finish, FinishWith, Idle, vars
<1> QED
  BY <1>1, <1>2

LEMMA NextClean ==
  ASSUME Inv, CleanInv, ErrInv, [Next]_vars
  PROVE  CleanInv'
<1> SUFFICES ASSUME Undisturbed' PROVE CleanInv'
  BY DEF CleanInv
<1>1. /\ TypeInv /\ TypeOK /\ OwnerInv /\ MadeInv
      /\ Nil \notin Policies /\ policy \in Opt(Policies)
      /\ status \in Statuses /\ spec \in Specs
      /\ dirty \in BOOLEAN /\ registered \in BOOLEAN
  BY PolicyResourceAssumption DEF Inv, TypeInv, TypeOK
<1>h. /\ (pc # "idle") => desired \in Resources
      /\ (pc \in {"readback", "update", "delete", "finish"})
           => latest \in Resources
  BY <1>1, InHand
<1>i. Nil \notin {"True", "error", "terminal", "requeue"}
  BY AckAssumption
<1>j. \A r \in Resources : r.spec \in Specs /\ r.status \in Statuses
  BY DEF Resources
<1>k. UNCHANGED <<policy, spec>> => (Matches(policy)' <=> Matches(policy))
  BY DEF Matches
<1> USE DEF Undisturbed, crVars, awsVars, reqVars
<1>2. CASE UNCHANGED <<phase, spec, status, registered, policy, pc, desired,
                       latest, err, dirty>>
  BY <1>k, <1>2 DEF CleanInv, InOrder
<1>3. CASE Environment \/ UNCHANGED vars
  <2>1. CASE Tick \/ Resync \/ UNCHANGED vars
    BY <1>2, <2>1 DEF Tick, Resync, vars
  <2>2. CASE Environment /\ ~Tick /\ ~Resync
    BY <1>1, <2>2, Disturbed
  <2> QED
    BY <1>3, <2>1, <2>2
<1>4. CASE Fetch
  <2>1. /\ phase = "live" /\ UNCHANGED <<spec, status, err>>
        /\ pc = "idle" /\ pc' = "read"
        /\ desired' = [spec   |-> spec,
                       status |-> [status EXCEPT !.conds = NoConditions]]
    BY <1>4 DEF Fetch
  <2>2. err' = Nil
    BY <2>1 DEF ErrInv
  <2> QED
    BY <2>1, <2>2 DEF CleanInv
<1>5. CASE FetchGone
  BY <1>2, <1>5 DEF FetchGone
(* From here on the worker is past Fetch.                                  *)
<1> DEFINE Past == /\ pc # "idle" /\ Undisturbed /\ ~isDeleting
                   /\ desired \in Resources
                   /\ desired.spec = spec
                   /\ desired.status = [status EXCEPT !.conds = NoConditions]
           Same == UNCHANGED <<phase, spec, status, registered, policy, desired,
                               isDeleting, dirty>>
<1>6. ASSUME Same, pc # "idle"
      PROVE  Past
  BY <1>1, <1>6, <1>h DEF CleanInv, OwnerInv
<1>7. ASSUME Past, Same, pc' # "idle"
      PROVE  /\ desired'.spec = spec'
             /\ desired'.status = [status EXCEPT !.conds = NoConditions]'
  BY <1>7
<1>8. ASSUME Past
      PROVE  desired.status.conds.synced = Nil
  BY <1>8, <1>1 DEF Statuses, NoConditions
<1> HIDE DEF Past
<1>9. CASE ReadFails
  <2>1. /\ Same /\ pc \in {"read", "readback"}
        /\ pc' = "finish" /\ err' = "error"
        /\ latest' = OnError(IF pc = "read" THEN desired ELSE latest, "error")
    BY <1>9 DEF ReadFails, FinishWith
  <2>2. Past
    BY <1>6, <2>1
  <2>3. /\ (IF pc = "read" THEN desired ELSE latest) \in Resources
        /\ (IF pc = "read" THEN desired ELSE latest).status.conds.synced = Nil
    BY <1>h, <1>8, <2>1, <2>2 DEF CleanInv, Past
  <2>4. latest'.status.conds.synced = Nil
    BY <2>1, <2>3, ConditionsType
  <2> QED
    BY <1>i, <1>7, <2>1, <2>2, <2>4 DEF CleanInv
<1>10. CASE ReadNotFound
  <2>1. Same /\ pc = "read" /\ UNCHANGED <<latest, err>>
    BY <1>10 DEF ReadNotFound
  <2>2. Past
    BY <1>6, <2>1
  <2>3. pc' \in {"create", "manage"}
    BY <1>10, <2>2 DEF ReadNotFound, Past
  <2> QED
    BY <1>7, <2>1, <2>2, <2>3 DEF CleanInv, Past
<1>11. CASE ReadUnmanaged
  <2> DEFINE r == OnSuccess(ReadOne(desired))
  <2>1. /\ Same /\ pc = "read"
        /\ pc' = "finish" /\ err' = "terminal"
        /\ latest' = OnError(r, "terminal")
        /\ ReadOne(desired) # Nil
    BY <1>11 DEF ReadUnmanaged, FinishWith
  <2>2. Past
    BY <1>6, <2>1
  <2>3. /\ ReadOne(desired) \in Resources
        /\ ReadOne(desired).status.conds.synced = Nil
    BY <1>1, <1>8, <2>1, <2>2, ReadOneType, SdkFindType DEF Past, ReadOne
  <2>4. r \in Resources /\ r.status.conds.synced = Nil
    BY <2>3, ConditionsType
  <2> HIDE DEF r
  <2>5. /\ latest'.status.conds.synced = Nil
        /\ latest'.status.conds.terminal = "True"
    BY <2>1, <2>4, ConditionsType
  <2> QED
    BY <1>i, <1>7, <2>1, <2>2, <2>5 DEF CleanInv
<1>12. CASE ReadManaged
  <2> DEFINE observed == ReadOne(desired)
  <2>1. /\ Same /\ pc = "read" /\ UNCHANGED err
        /\ latest' = OnSuccess(observed)
        /\ observed # Nil
        /\ \/ pc' = "update"
           \/ /\ pc' = "finish"
              /\ NewResourceDelta(desired.spec, observed.spec) = {}
    BY <1>12 DEF ReadManaged
  <2>2. Past /\ err = Nil
    BY <1>6, <2>1 DEF CleanInv, Past
  <2>3. /\ observed \in Resources /\ policy # Nil
        /\ observed.status.conds.synced = Nil
        /\ observed.status.alarms = policy.alarms
    BY <1>1, <1>8, <2>1, <2>2, ReadOneType, SdkFindType DEF Past, ReadOne
  <2>4. policy \in Policies /\ registered
    BY <1>1, <2>3 DEF Opt, MadeInv
  <2>5. /\ latest'.status.conds.synced = Nil
        /\ latest'.status.alarms = policy.alarms
    BY <2>1, <2>3, ConditionsType
  <2>6. CASE pc' = "update"
    BY <1>7, <2>1, <2>2, <2>5, <2>6 DEF CleanInv
  <2>7. CASE pc' = "finish"
    <3>1. Matches(policy)
      BY <1>1, <2>1, <2>2, <2>4, <2>7, NoDeltaMatches DEF Past, ReadOne
    <3>2. InOrder(latest.status)'
      BY <1>k, <2>1, <2>4, <2>5, <3>1 DEF InOrder
    <3> QED
      BY <1>i, <1>7, <2>1, <2>2, <2>5, <2>7, <3>2 DEF CleanInv
  <2> QED
    BY <2>1, <2>6, <2>7
<1>13. CASE ReadToDelete \/ Delete
  <2>1. Same /\ pc # "idle" /\ isDeleting
    BY <1>1, <1>13 DEF ReadToDelete, Delete, OwnerInv
  <2>2. ~isDeleting
    BY <1>6, <2>1 DEF Past
  <2> QED
    BY <2>1, <2>2
<1>14. CASE Manage
  <2>1. Same /\ pc = "manage" /\ pc' = "create" /\ UNCHANGED <<err, latest>>
    BY <1>14 DEF Manage
  <2>2. Past
    BY <1>6, <2>1
  <2> QED
    BY <1>7, <2>1, <2>2 DEF CleanInv, Past
<1>15. CASE Create
  <2>0. /\ pc = "create" /\ desired \in Resources
        /\ UNCHANGED <<phase, spec, status, registered, desired, isDeleting,
                       dirty>>
        /\ \/ FinishWith(OnError(desired, "error"), "error")
           \/ /\ Puts(desired.spec)
              /\ latest' = OnSuccess(SdkCreated(desired, policy'))
              /\ pc' = "readback"
              /\ UNCHANGED err
    BY <1>1, <1>15, CreateEnds
  <2>1. /\ Undisturbed /\ ~isDeleting /\ desired.spec = spec /\ err = Nil
        /\ desired.status = [status EXCEPT !.conds = NoConditions]
    BY <1>1, <2>0 DEF CleanInv, OwnerInv
  <2>2. desired.status.conds.synced = Nil
    BY <1>1, <2>1 DEF Statuses, NoConditions
  <2>3. CASE FinishWith(OnError(desired, "error"), "error")
    <3>1. latest'.status.conds.synced = Nil /\ pc' = "finish" /\ err' = "error"
      BY <2>0, <2>2, <2>3, ConditionsType DEF FinishWith
    <3> QED
      BY <1>i, <2>0, <2>1, <3>1 DEF CleanInv
  <2>4. CASE /\ Puts(desired.spec)
             /\ latest' = OnSuccess(SdkCreated(desired, policy'))
             /\ pc' = "readback"
             /\ UNCHANGED err
    <3>1. registered /\ policy' \in Policies /\ Matches(policy)'
      BY <1>1, <2>0, <2>1, <2>4, PutMatches
    <3>2. /\ SdkCreated(desired, policy') \in Resources
          /\ SdkCreated(desired, policy').status.alarms = policy'.alarms
          /\ SdkCreated(desired, policy').status.conds.synced = Nil
      BY <1>1, <2>0, <2>2, <3>1, AnswerType DEF TypeOK
    <3>3. /\ latest'.status.alarms = policy'.alarms
          /\ latest'.status.conds.synced = Nil
      BY <2>4, <3>2, ConditionsType
    <3>4. InOrder(latest.status)'
      BY <2>0, <3>1, <3>3 DEF InOrder
    <3> QED
      BY <2>0, <2>1, <2>4, <3>3, <3>4 DEF CleanInv
  <2> QED
    BY <2>0, <2>3, <2>4
<1>16. CASE ReadBackNotFound
  <2>1. /\ Same /\ pc = "readback" /\ ReadOne(latest) = Nil
        /\ latest \in Resources
    BY <1>h, <1>16 DEF ReadBackNotFound
  <2>2. Past /\ policy # Nil
    BY <1>6, <2>1 DEF CleanInv, InOrder, Matches, Past
  <2> QED
    BY <1>1, <2>1, <2>2, ReadOneType
<1>17. CASE ReadBack
  <2> DEFINE observed == ReadOne(latest)
  <2>1. /\ Same /\ pc = "readback" /\ pc' = "finish" /\ UNCHANGED err
        /\ latest' = [latest EXCEPT !.status = OnSuccess(observed).status]
        /\ observed # Nil /\ latest \in Resources
    BY <1>h, <1>17 DEF ReadBack
  <2>2. /\ Past /\ err = Nil /\ latest.status.conds.synced = Nil
        /\ InOrder(latest.status)
    BY <1>6, <2>1 DEF CleanInv, Past
  <2>3. /\ observed \in Resources
        /\ observed.status.conds.synced = Nil
        /\ observed.status.alarms = policy.alarms
    BY <1>1, <2>1, <2>2, ReadOneType, SdkFindType DEF ReadOne
  <2>4. /\ latest'.status.conds.synced = Nil
        /\ latest'.status.alarms = policy.alarms
    BY <2>1, <2>3, ConditionsType DEF Resources
  <2>5. InOrder(latest.status)'
    BY <1>k, <2>1, <2>2, <2>4 DEF InOrder
  <2> QED
    BY <1>i, <1>7, <2>1, <2>2, <2>4, <2>5 DEF CleanInv
<1>18. CASE Update
  <2>0. /\ pc = "update" /\ desired \in Resources /\ latest \in Resources
        /\ UNCHANGED <<phase, spec, status, registered, desired, isDeleting,
                       dirty>>
        /\ \/ FinishWith(OnError(latest, "error"), "error")
           \/ /\ Puts(desired.spec)
              /\ latest' = OnSuccess(SdkUpdated(desired, policy', now))
              /\ pc' = "finish"
              /\ UNCHANGED err
    BY <1>1, <1>18, UpdateEnds
  <2>1. /\ Undisturbed /\ ~isDeleting /\ desired.spec = spec /\ err = Nil
        /\ desired.status = [status EXCEPT !.conds = NoConditions]
        /\ latest.status.conds.synced = Nil
    BY <1>1, <2>0 DEF CleanInv, OwnerInv
  <2>2. desired.status.conds.synced = Nil
    BY <1>1, <2>1 DEF Statuses, NoConditions
  <2>3. CASE FinishWith(OnError(latest, "error"), "error")
    <3>1. latest'.status.conds.synced = Nil /\ pc' = "finish" /\ err' = "error"
      BY <2>0, <2>1, <2>3, ConditionsType DEF FinishWith
    <3> QED
      BY <1>i, <2>0, <2>1, <3>1 DEF CleanInv
  <2>4. CASE /\ Puts(desired.spec)
             /\ latest' = OnSuccess(SdkUpdated(desired, policy', now))
             /\ pc' = "finish"
             /\ UNCHANGED err
    <3>1. registered /\ policy' \in Policies /\ Matches(policy)'
      BY <1>1, <2>0, <2>1, <2>4, PutMatches
    <3>2. /\ SdkUpdated(desired, policy', now) \in Resources
          /\ SdkUpdated(desired, policy', now).status.alarms = policy'.alarms
          /\ SdkUpdated(desired, policy', now).status.conds.synced = Nil
      BY <1>1, <2>0, <2>2, <3>1, AnswerType DEF TypeOK
    <3>3. /\ latest'.status.alarms = policy'.alarms
          /\ latest'.status.conds.synced = Nil
      BY <2>4, <3>2, ConditionsType
    <3>4. InOrder(latest.status)'
      BY <2>0, <3>1, <3>3 DEF InOrder
    <3> QED
      BY <1>i, <2>0, <2>1, <2>4, <3>3, <3>4 DEF CleanInv
  <2> QED
    BY <2>0, <2>3, <2>4
<1>19. CASE Unmanage
  BY <1>19 DEF Unmanage
<1>20. CASE Finish
  <2> DEFINE conds == EnsureSynced(latest.status.conds, err)
             to == [latest.status EXCEPT !.conds = conds]
  <2>1. /\ pc = "finish" /\ pc' = "idle" /\ latest \in Resources
        /\ UNCHANGED <<phase, spec, registered, policy, dirty>>
    BY <1>h, <1>20 DEF Finish, Idle
  <2>2. /\ Undisturbed /\ ~isDeleting /\ desired \in Resources
        /\ desired.status = [status EXCEPT !.conds = NoConditions]
        /\ latest.status.conds.synced = Nil
        /\ err = Nil => InOrder(latest.status)
        /\ err = "terminal" => latest.status.conds.terminal = "True"
    BY <1>1, <1>h, <2>1 DEF CleanInv, OwnerInv
  <2>3. latest.status \in Statuses /\ latest.status.conds \in Conditions
    BY <2>1 DEF Resources, Statuses
  <2>4. /\ conds \in Conditions /\ conds.synced # Nil
        /\ conds.terminal = latest.status.conds.terminal
        /\ conds.synced = "True" => err \in {Nil, "terminal"}
    BY <2>2, <2>3, EnsureSyncedType
  <2>5. status' = MergePatch(status, desired.status, to)
    BY <1>20, <2>1, <2>2 DEF Finish
  <2> HIDE DEF conds
  <2>6. /\ to \in Statuses /\ to.conds = conds
        /\ to.alarms = latest.status.alarms
    BY <2>3, <2>4 DEF Statuses
  <2>7. /\ desired.status.alarms = status.alarms
        /\ desired.status.conds = NoConditions
        /\ DOMAIN status = {"alarms", "ctime", "lmt", "conds"}
    BY <1>1, <2>2 DEF Statuses
  <2>8. NoConditions # conds
    BY <2>4 DEF NoConditions
  <2> HIDE DEF to
  <2>9. status'.conds = conds /\ status'.alarms = latest.status.alarms
    BY <2>5, <2>6, <2>7, <2>8 DEF MergePatch
  <2>10. (conds.synced = "True" /\ conds.terminal # "True")
           => InOrder(latest.status)
    BY <2>2, <2>4
  <2>11. (status'.conds.synced = "True" /\ status'.conds.terminal # "True")
           => InOrder(status)'
    BY <1>k, <2>1, <2>9, <2>10 DEF InOrder
  <2> QED
    BY <2>1, <2>11 DEF CleanInv
<1> QED
  BY <1>3, <1>4, <1>5, <1>9, <1>10, <1>11, <1>12, <1>13, <1>14, <1>15, <1>16,
     <1>17, <1>18, <1>19, <1>20 DEF Next, Worker

LEMMA CleanAlways == Spec => [](Inv /\ CleanInv /\ ErrInv)
<1>1. Init => CleanInv /\ ErrInv
  BY DEF Init, CleanInv, ErrInv, Undisturbed
<1>2. Inv /\ CleanInv /\ ErrInv /\ [Next]_vars => (CleanInv /\ ErrInv)'
  BY NextClean, NextErr
<1> QED
  BY <1>1, <1>2, InvAlways, PTL DEF Spec

(* Synced=True without a terminal condition is honest after a reconcile    *)
(* that nobody disturbed: the target is registered and the policy is what  *)
(* the spec describes.                                                     *)
THEOREM SyncedIsHonest == Spec => []SyncedMeansMatching
<1>1. CleanInv => SyncedMeansMatching
  BY DEF CleanInv, Undisturbed, InOrder, SyncedMeansMatching, Settled
<1> QED
  BY <1>1, CleanAlways, PTL

(* ... and the alarms in the status are those of that policy, whichever    *)
(* answer they were taken from.                                            *)
THEOREM AlarmsAreCurrent == Spec => []AlarmsCurrent
<1>1. CleanInv => AlarmsCurrent
  BY DEF CleanInv, Undisturbed, InOrder, AlarmsCurrent, Settled
<1> QED
  BY <1>1, CleanAlways, PTL

---------------------------------------------------------------------------
(* For compositions: the invariants hold of a CR that was just written; ...*)
Bounds == [user : 0 .. MaxUser, foreign : 0 .. MaxForeign,
           fault : 0 .. MaxFaults]

AllInv == Inv /\ CleanInv /\ ErrInv

LEMMA FreshInv ==
  ASSUME phase \in {"absent", "live"}, managed = FALSE, spec \in UserSpecs,
         status = NoStatus, registered \in BOOLEAN, policy = Nil, now = Epoch,
         made = FALSE, queue \in Queues, dirty = TRUE, left \in Bounds,
         pc = "idle", desired = Nil, isManaged = FALSE, isDeleting = FALSE,
         latest = Nil, err = Nil
  PROVE  AllInv
<1>1. /\ status \in Statuses /\ spec \in Specs
      /\ now \in Clocks /\ now.aws \in Times
  BY NoStatusType, PolicyAssumption, ClockTypes DEF Epoch, Clocks, Times
<1>2. TypeInv
  BY <1>1 DEF TypeInv, TypeOK, Present, Bounds, Opt, Steps
<1> QED
  BY <1>2 DEF AllInv, Inv, OwnerInv, MadeInv, CleanInv, ErrInv, Undisturbed

LEMMA NextAll ==
  ASSUME AllInv, [Next]_vars
  PROVE  AllInv'
  BY NextType, NextOwner, NextMade, NextClean, NextErr DEF AllInv, Inv

(* ... a stranger may register and deregister the target, which takes the  *)
(* policy with it, and is noticed, and may take from the common bounds; ...*)
LEMMA StrangerKeeps ==
  ASSUME AllInv, UNCHANGED <<crVars, now, queue, pc, reqVars, latest, err>>,
         registered' \in BOOLEAN, left' \in Bounds, dirty' \in BOOLEAN,
         dirty' = (dirty \/ registered # registered'),
         registered' => UNCHANGED <<policy, made>>,
         ~registered' => policy' = Nil /\ made' = FALSE
  PROVE  AllInv'
<1>1. TypeInv /\ TypeOK /\ Present /\ OwnerInv /\ MadeInv /\ CleanInv /\ ErrInv
  BY DEF AllInv, Inv, TypeInv
<1>2. TypeInv'
  <2>1. policy' \in Opt(Policies) /\ made' \in BOOLEAN
    BY <1>1 DEF TypeOK, Opt
  <2>2. TypeOK' /\ Present'
    BY <1>1, <2>1 DEF TypeOK, Present, Bounds, crVars, reqVars
  <2> QED
    BY <2>2 DEF TypeInv
<1>3. OwnerInv' /\ ErrInv'
  BY <1>1 DEF OwnerInv, ErrInv, crVars, reqVars
<1>4. MadeInv'
  BY <1>1 DEF MadeInv, crVars, TypeOK
<1>5. CleanInv'
  <2> SUFFICES ASSUME Undisturbed' PROVE CleanInv'
    BY DEF CleanInv
  <2>1. registered' = registered /\ dirty' = dirty
    BY <1>1 DEF Undisturbed, TypeOK
  <2>2. UNCHANGED <<phase, spec, status, policy, pc, desired, latest, err>>
    BY <1>1, <2>1 DEF TypeOK, MadeInv, crVars, reqVars
  <2>3. Matches(policy)' <=> Matches(policy)
    BY <2>2 DEF Matches
  <2> QED
    BY <1>1, <2>1, <2>2, <2>3 DEF CleanInv, InOrder, Undisturbed
<1> QED
  BY <1>2, <1>3, <1>4, <1>5 DEF AllInv, Inv

(* ... the process may die, wherever this worker was; ...                  *)
LEMMA ForgetKeeps ==
  ASSUME AllInv, Idle, UNCHANGED <<crVars, awsVars, now>>,
         queue' \in Queues, dirty' = TRUE, left' \in Bounds
  PROVE  AllInv'
<1>1. TypeInv'
  BY DEF AllInv, Inv, TypeInv, TypeOK, Present, Bounds, Idle, crVars, awsVars,
         Opt, Steps
<1>2. OwnerInv' /\ MadeInv' /\ CleanInv' /\ ErrInv'
  BY DEF AllInv, Inv, OwnerInv, MadeInv, CleanInv, Undisturbed, ErrInv, Idle,
         crVars, awsVars
<1> QED
  BY <1>1, <1>2 DEF AllInv, Inv

(* ... and the worker leaves in AWS what it made and what it neither made  *)
(* nor removed.                                                            *)
LEMMA WorkerMakes ==
  ASSUME Inv, Worker
  PROVE  /\ UNCHANGED <<now, registered>>
         /\ policy' # Nil => made' \/ (policy # Nil /\ ~made)
<1>1. TypeInv /\ MadeInv /\ made \in BOOLEAN
  BY DEF Inv, TypeInv, TypeOK
<1>2. CASE Create \/ Update
  <2>1. /\ UNCHANGED <<now, registered>>
        /\ UNCHANGED <<policy, made>> \/ Puts(desired.spec)
    BY <1>1, <1>2, CreateEnds, UpdateEnds
  <2> QED
    BY <1>1, <2>1 DEF Puts
<1>3. CASE Delete
  BY <1>1, <1>3 DEF Delete
<1>4. CASE ~Create /\ ~Update /\ ~Delete
  <2>1. UNCHANGED <<now, awsVars>>
    BY <1>4 DEF Worker, FetchGone, Fetch, ReadFails, ReadNotFound,
       ReadUnmanaged, ReadManaged, ReadToDelete, Manage, ReadBack,
       ReadBackNotFound, Unmanage, Finish
  <2> QED
    BY <1>1, <2>1 DEF awsVars
<1> QED
  BY <1>2, <1>3, <1>4
=============================================================================

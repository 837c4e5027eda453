------------------------- MODULE Autoscaling_proofs -------------------------
(* Proofs about Autoscaling, for users who do not edit the identity of the *)
(* target, from what ScalableTarget_proofs and ScalingPolicy_proofs prove  *)
(* of one reconciler each: PT and PP are T and P with these theorems.      *)
EXTENDS Autoscaling, TLAPS

PT == INSTANCE ScalableTarget_proofs
  WITH UserSpecs <- TargetSpecs, phase <- phaseT, managed <- managedT,
       spec <- specT, status <- statusT, queue <- queueT, pc <- pcT,
       desired <- desiredT, isManaged <- isManagedT,
       isDeleting <- isDeletingT, latest <- latestT, err <- errT,
       made <- madeT, dirty <- dirtyT

PP == INSTANCE ScalingPolicy_proofs
  WITH UserSpecs <- PolicySpecs, registered <- aws[Target] # Nil,
       phase <- phaseP, managed <- managedP, spec <- specP, status <- statusP,
       queue <- queueP, pc <- pcP, desired <- desiredP,
       isManaged <- isManagedP, isDeleting <- isDeletingP, latest <- latestP,
       err <- errP, made <- madeP, dirty <- dirtyP

LEMMA SameTarget ==
  /\ T!Worker <=> PT!Worker
  /\ T!UserCreate <=> PT!UserCreate
  /\ T!UserEdit <=> PT!UserEdit
  /\ T!UserDelete <=> PT!UserDelete
  /\ T!Resync <=> PT!Resync
  /\ T!ForeignDeregister <=> PT!ForeignDeregister
  /\ T!Idle <=> PT!Idle
  /\ \A k : T!Spend(k) <=> PT!Spend(k)
  BY DEF T!Worker, T!FetchGone, T!Fetch, T!Resolve, T!ReadFails,
         T!ReadNotFound, T!ReadUnmanaged, T!ReadManaged, T!ReadToDelete,
         T!Manage, T!Create, T!ReadBack, T!ReadBackNotFound, T!Update,
         T!LateInitialize, T!LateInitializeFails, T!PatchSpec, T!Delete,
         T!Unmanage, T!Finish, T!Register, T!FinishWith, T!Idle, T!Spend,
         T!ReadOne, T!UserCreate, T!UserEdit, T!UserDelete, T!Resync,
         T!ForeignDeregister, T!crVars, T!worldVars, T!reqVars, T!Opt,
         T!NoConditions, T!NoStatus, T!FitsInt32,
         T!CustomSetLastModifiedTimeToCreationTime, T!UpdateConditions,
         T!OnError, T!OnSuccess, T!EnsureSynced, T!MergePatch, T!SdkFind,
         T!PayloadOK, T!Payload, T!Accepted, T!Registered, T!SdkUpdated,
         T!CustomSetDefaults, T!NewResourceDelta,
         T!LateInitializeFromReadOneOutput, T!LateInitializeFailed,
         T!IncompleteLateInitialization, T!ClearResolvedReferences,
         T!GetReferencedResourceState, T!ResolveReferences, PT!Worker,
         PT!FetchGone, PT!Fetch, PT!Resolve, PT!ReadFails, PT!ReadNotFound,
         PT!ReadUnmanaged, PT!ReadManaged, PT!ReadToDelete, PT!Manage,
         PT!Create, PT!ReadBack, PT!ReadBackNotFound, PT!Update,
         PT!LateInitialize, PT!LateInitializeFails, PT!PatchSpec, PT!Delete,
         PT!Unmanage, PT!Finish, PT!Register, PT!FinishWith, PT!Idle, PT!Spend,
         PT!ReadOne, PT!UserCreate, PT!UserEdit, PT!UserDelete, PT!Resync,
         PT!ForeignDeregister, PT!crVars, PT!worldVars, PT!reqVars, PT!Opt,
         PT!NoConditions, PT!NoStatus, PT!FitsInt32,
         PT!CustomSetLastModifiedTimeToCreationTime, PT!UpdateConditions,
         PT!OnError, PT!OnSuccess, PT!EnsureSynced, PT!MergePatch, PT!SdkFind,
         PT!PayloadOK, PT!Payload, PT!Accepted, PT!Registered, PT!SdkUpdated,
         PT!CustomSetDefaults, PT!NewResourceDelta,
         PT!LateInitializeFromReadOneOutput, PT!LateInitializeFailed,
         PT!IncompleteLateInitialization, PT!ClearResolvedReferences,
         PT!GetReferencedResourceState, PT!ResolveReferences,
         T!Stamp, T!Requeued, PT!Stamp, PT!Requeued

LEMMA SamePolicy ==
  /\ P!Worker <=> PP!Worker
  /\ P!UserCreate <=> PP!UserCreate
  /\ P!UserEdit <=> PP!UserEdit
  /\ P!UserDelete <=> PP!UserDelete
  /\ P!Resync <=> PP!Resync
  /\ P!Idle <=> PP!Idle
  /\ P!Settled <=> PP!Settled
  /\ P!Matches(policy) <=> PP!Matches(policy)
  BY DEF P!Worker, P!FetchGone, P!Fetch, P!ReadFails, P!ReadNotFound,
         P!ReadUnmanaged, P!ReadManaged, P!ReadToDelete, P!Manage, P!Put,
         P!Create, P!ReadBack, P!ReadBackNotFound, P!Update, P!Delete,
         P!Unmanage, P!Finish, P!FinishWith, P!Idle, P!Spend, P!ReadOne,
         P!UserCreate, P!UserEdit, P!UserDelete, P!Resync, P!Settled,
         P!Matches, P!crVars, P!awsVars, P!reqVars, P!Opt, P!NoConditions,
         P!NoStatus, P!FitsInt32, P!CustomSetLastModifiedTimeToCreationTime,
         P!UpdateConditions, P!OnError, P!OnSuccess, P!EnsureSynced,
         P!MergePatch, P!SdkFind, P!Types, P!PayloadOK, P!Payload, P!TypeAfter,
         P!Accepted, P!Stored, P!PutPolicy, P!SdkCreated, P!SdkUpdated,
         P!SameList, P!SameConfig, P!NewResourceDelta, PP!Worker, PP!FetchGone,
         PP!Fetch, PP!ReadFails, PP!ReadNotFound, PP!ReadUnmanaged,
         PP!ReadManaged, PP!ReadToDelete, PP!Manage, PP!Put, PP!Create,
         PP!ReadBack, PP!ReadBackNotFound, PP!Update, PP!Delete, PP!Unmanage,
         PP!Finish, PP!FinishWith, PP!Idle, PP!Spend, PP!ReadOne,
         PP!UserCreate, PP!UserEdit, PP!UserDelete, PP!Resync, PP!Settled,
         PP!Matches, PP!crVars, PP!awsVars, PP!reqVars, PP!Opt,
         PP!NoConditions, PP!NoStatus, PP!FitsInt32,
         PP!CustomSetLastModifiedTimeToCreationTime, PP!UpdateConditions,
         PP!OnError, PP!OnSuccess, PP!EnsureSynced, PP!MergePatch, PP!SdkFind,
         PP!Types, PP!PayloadOK, PP!Payload, PP!TypeAfter, PP!Accepted,
         PP!Stored, PP!PutPolicy, PP!SdkCreated, PP!SdkUpdated, PP!SameList,
         PP!SameConfig, PP!NewResourceDelta, P!Stamp, P!Requeued, PP!Stamp,
         PP!Requeued

---------------------------------------------------------------------------
(* Each CR by itself: its reconciler keeps its invariant, and so does what *)
(* the other's does to it, and the death of both.                          *)
Limits == [user : 0 .. MaxUser, foreign : 0 .. MaxForeign,
           fault : 0 .. MaxFaults]

Registry == [Ids -> PT!Opt(PT!Targets)]

LEMMA TargetReconciler ==
  ASSUME ~Renames, PT!Inv
  PROVE  /\ aws \in Registry /\ left \in Limits
         /\ (T!Worker \/ T!UserCreate \/ T!UserEdit \/ T!UserDelete
               \/ T!Resync \/ T!ForeignDeregister)
              => /\ PT!Inv' /\ UNCHANGED worldVars
                 /\ aws' \in Registry /\ left' \in Limits
         /\ (T!Worker => \A i \in Ids : aws'[i] # Nil
               => i \in madeT' \/ (aws[i] # Nil /\ i \notin madeT))
         /\ (/\ UNCHANGED <<restT, madeT, dirtyT, aws, worldVars>>
             /\ left' \in Limits) => PT!Inv'
         /\ (/\ T!Idle /\ left' \in Limits
             /\ queueT' = (IF phaseT = "absent" THEN {} ELSE {"now"})
             /\ dirtyT' = TRUE
             /\ UNCHANGED <<aws, worldVars, phaseT, managedT, specT,
                            statusT, madeT>>) => PT!Inv'
         /\ T!Spend("fault") => left' \in Limits
<1> USE AutoscalingAssumption
        DEF T!AckAssumption, T!ResourceAssumption, T!TargetAssumption, T!Opt,
            T!Times, T!ClockNames, T!Clocks, T!Stamps, PT!ClockNames,
            PT!Clocks, PT!Stamps, T!ConditionStatus, T!Conditions,
            T!FitsInt32, T!Refs, T!Specs, T!Statuses, T!Resources, T!Targets,
            T!RoleCRs, PT!Opt, PT!Times, PT!ConditionStatus, PT!Conditions,
            PT!FitsInt32, PT!Refs, PT!Specs, PT!Statuses, PT!Resources,
            PT!Targets, PT!RoleCRs, Limits, Registry, PT!Bounds
<1> DEFINE Acts == \/ PT!Worker \/ PT!UserCreate \/ PT!UserEdit \/ PT!UserDelete
                   \/ PT!Resync \/ PT!ForeignDeregister
<1>1. PT!TypeOK
  BY DEF PT!Inv, PT!OwnInv, PT!TypeInv
<1>2. aws \in Registry /\ left \in Limits /\ dirtyT \in BOOLEAN
  BY <1>1 DEF PT!TypeOK
<1>3. madeT = {i \in madeT : aws[i] # Nil}
  BY DEF PT!Inv, PT!MadeInv
<1>4. ASSUME Acts
      PROVE  /\ PT!Inv' /\ UNCHANGED worldVars
             /\ aws' \in Registry /\ left' \in Limits
  <2>1. PT!Inv'
    BY <1>4, PT!NextInv DEF PT!Next, PT!Environment
  <2>2. PT!UserEdit \/ PT!ForeignDeregister => UNCHANGED worldVars
    BY DEF PT!UserEdit, PT!ForeignDeregister, PT!worldVars, worldVars
  <2>3. ~PT!UserEdit /\ ~PT!ForeignDeregister => UNCHANGED worldVars
    BY <1>4, PT!WorkerLeavesWorld DEF PT!worldVars, worldVars
  <2>4. aws' \in Registry /\ left' \in Limits
    BY <2>1 DEF PT!Inv, PT!OwnInv, PT!TypeInv, PT!TypeOK
  <2> QED
    BY <2>1, <2>2, <2>3, <2>4
<1>5. ASSUME PT!Worker, NEW i \in Ids, aws'[i] # Nil
      PROVE  i \in madeT' \/ (aws[i] # Nil /\ i \notin madeT)
  BY <1>5, PT!WorkerMakes
<1>6. ASSUME UNCHANGED <<restT, madeT, dirtyT, aws, worldVars>>,
             left' \in Limits
      PROVE  PT!Inv'
  <2>1. UNCHANGED <<PT!crVars, PT!worldVars, queueT, pcT, PT!reqVars, latestT,
                    errT>>
    BY <1>6 DEF PT!crVars, PT!worldVars, PT!reqVars, restT, worldVars
  <2>2. /\ dirtyT' \in BOOLEAN /\ aws' \in Registry
        /\ madeT' = {i \in madeT : aws'[i] # Nil}
    BY <1>2, <1>3, <1>6
  <2> QED
    BY <1>6, <2>1, <2>2, PT!StrangerKeeps
<1>7. ASSUME PT!Idle, left' \in Limits,
             queueT' = (IF phaseT = "absent" THEN {} ELSE {"now"}),
             dirtyT' = TRUE,
             UNCHANGED <<aws, worldVars, phaseT, managedT, specT, statusT,
                         madeT>>
      PROVE  PT!Inv'
  <2>1. UNCHANGED <<PT!crVars, PT!worldVars, aws, madeT>>
    BY <1>7 DEF PT!crVars, PT!worldVars, worldVars
  <2>2. queueT' \in PT!Queues /\ dirtyT' \in BOOLEAN
    BY <1>7, PT!QueueTypes
  <2> QED
    BY <1>7, <2>1, <2>2, PT!ForgetKeeps
<1>8. PT!Spend("fault") => left' \in Limits
  BY <1>1, PT!SpendType
<1> QED
  BY <1>2, <1>4, <1>5, <1>6, <1>7, <1>8, SameTarget

LEMMA PolicyReconciler ==
  ASSUME PP!AllInv
  PROVE  /\ (P!Worker \/ P!UserCreate \/ P!UserEdit \/ P!UserDelete \/ P!Resync)
              => /\ PP!AllInv' /\ UNCHANGED now /\ left' \in Limits
         /\ P!Worker => (policy' # Nil => madeP' \/ (policy # Nil /\ ~madeP))
         /\ (/\ PolicyStays \/ PolicyFollows
             /\ aws'[Target] = Nil => policy' = Nil /\ madeP' = FALSE
             /\ UNCHANGED <<restP, now>> /\ left' \in Limits) => PP!AllInv'
         /\ (/\ P!Idle /\ left' \in Limits
             /\ queueP' = (IF phaseP = "absent" THEN {} ELSE {"now"})
             /\ dirtyP' = TRUE
             /\ UNCHANGED <<aws, policy, now, phaseP, managedP, specP,
                            statusP, madeP>>) => PP!AllInv'
         /\ dirtyP \in BOOLEAN /\ madeP \in BOOLEAN
         /\ aws[Target] = Nil => policy = Nil /\ madeP = FALSE
<1> USE AutoscalingAssumption
        DEF T!AckAssumption, P!PolicyResourceAssumption, P!PolicyAssumption,
            T!Opt, P!Opt, T!ClockNames, P!ClockNames, P!Clocks, P!Stamps,
            PP!ClockNames, PP!Clocks, PP!Stamps, T!Stamps, T!Times, P!Times,
            P!ConditionStatus, P!Conditions, P!FitsInt32, P!Types, P!Configs,
            P!Specs, P!Alarms, P!Statuses, P!Resources, P!StoredConfigs,
            P!Policies, P!PayloadOK, PP!Opt, PP!Times, PP!ConditionStatus,
            PP!Conditions, PP!FitsInt32, PP!Types, PP!Configs, PP!Specs,
            PP!Alarms, PP!Statuses, PP!Resources, PP!StoredConfigs,
            PP!Policies, PP!PayloadOK, Limits, PP!Bounds
<1> DEFINE Acts == \/ PP!Worker \/ PP!UserCreate \/ PP!UserEdit \/ PP!UserDelete
                   \/ PP!Resync
<1>1. PP!TypeOK
  BY DEF PP!AllInv, PP!Inv, PP!TypeInv
<1>2. dirtyP \in BOOLEAN /\ madeP \in BOOLEAN
  BY <1>1 DEF PP!TypeOK
<1>3. aws[Target] = Nil => policy = Nil /\ madeP = FALSE
  BY <1>2 DEF PP!AllInv, PP!Inv, PP!MadeInv
<1>4. ASSUME Acts
      PROVE  PP!AllInv' /\ UNCHANGED now /\ left' \in Limits
  <2>1. PP!AllInv'
    BY <1>4, PP!NextAll DEF PP!Next, PP!Environment
  <2>2. UNCHANGED now
    BY <1>4, PP!WorkerMakes DEF PP!AllInv, PP!UserCreate, PP!UserEdit,
       PP!UserDelete, PP!Resync
  <2>3. left' \in Limits
    BY <2>1 DEF PP!AllInv, PP!Inv, PP!TypeInv, PP!TypeOK
  <2> QED
    BY <2>1, <2>2, <2>3
<1>5. ASSUME PP!Worker, policy' # Nil
      PROVE  madeP' \/ (policy # Nil /\ ~madeP)
  BY <1>5, PP!WorkerMakes DEF PP!AllInv
<1>6. ASSUME PolicyStays \/ PolicyFollows,
             aws'[Target] = Nil => policy' = Nil /\ madeP' = FALSE,
             UNCHANGED <<restP, now>>, left' \in Limits
      PROVE  PP!AllInv'
  <2>1. UNCHANGED <<PP!crVars, now, queueP, pcP, PP!reqVars, latestP, errP>>
    BY <1>6 DEF PP!crVars, PP!reqVars, restP
  <2>2. /\ dirtyP' = (dirtyP \/ (aws[Target] # Nil) # (aws'[Target] # Nil))
        /\ aws'[Target] # Nil => UNCHANGED <<policy, madeP>>
        /\ dirtyP' \in BOOLEAN
    BY <1>2, <1>6 DEF PolicyStays, PolicyFollows
  <2> QED
    BY <1>6, <2>1, <2>2, PP!StrangerKeeps
<1>7. ASSUME PP!Idle, left' \in Limits,
             queueP' = (IF phaseP = "absent" THEN {} ELSE {"now"}),
             dirtyP' = TRUE,
             UNCHANGED <<aws, policy, now, phaseP, managedP, specP, statusP,
                         madeP>>
      PROVE  PP!AllInv'
  <2>1. UNCHANGED <<PP!crVars, PP!awsVars, now>>
    BY <1>7 DEF PP!crVars, PP!awsVars
  <2>2. queueP' \in PP!Queues
    BY <1>7, PP!QueueTypes
  <2> QED
    BY <1>7, <2>1, <2>2, PP!ForgetKeeps
<1> QED
  BY <1>2, <1>3, <1>4, <1>5, <1>6, <1>7, SamePolicy

LEMMA FreshTarget == Init => PT!Inv
<1>1. ASSUME Init PROVE left \in Limits
  BY <1>1, AutoscalingAssumption DEF Init, Limits, T!TargetAssumption
<1> QED
  BY <1>1, PT!FreshInv, PT!QueueTypes, AutoscalingAssumption
     DEF Init, T!Epoch, PT!Epoch, Limits, PT!Bounds, PT!NoStatus,
         PT!NoConditions, T!NoStatus, T!NoConditions,
         T!AckAssumption, T!ResourceAssumption, T!TargetAssumption, T!Opt,
         T!Times, T!ClockNames, T!Clocks, T!Stamps, PT!ClockNames, PT!Clocks,
         PT!Stamps, T!ConditionStatus, T!Conditions, T!FitsInt32, T!Refs,
         T!Specs, T!Statuses, T!Resources, T!Targets, T!RoleCRs, PT!Opt,
         PT!Times, PT!ConditionStatus, PT!Conditions, PT!FitsInt32, PT!Refs,
         PT!Specs, PT!Statuses, PT!Resources, PT!Targets, PT!RoleCRs

LEMMA FreshPolicy == Init => PP!AllInv
<1>1. ASSUME Init PROVE left \in Limits
  BY <1>1, AutoscalingAssumption DEF Init, Limits, T!TargetAssumption
<1> QED
  BY <1>1, PP!FreshInv, PP!QueueTypes, AutoscalingAssumption
     DEF Init, T!Epoch, PP!Epoch, Limits, PP!Bounds, PP!NoStatus,
         PP!NoConditions, P!NoStatus, P!NoConditions,
         T!AckAssumption, P!PolicyResourceAssumption, P!PolicyAssumption,
         T!Opt, P!Opt, T!ClockNames, P!ClockNames, P!Clocks, P!Stamps,
         PP!ClockNames, PP!Clocks, PP!Stamps, T!Stamps, T!Times, P!Times,
         P!ConditionStatus, P!Conditions, P!FitsInt32, P!Types, P!Configs,
         P!Specs, P!Alarms, P!Statuses, P!Resources, P!StoredConfigs,
         P!Policies, P!PayloadOK, PP!Opt, PP!Times, PP!ConditionStatus,
         PP!Conditions, PP!FitsInt32, PP!Types, PP!Configs, PP!Specs,
         PP!Alarms, PP!Statuses, PP!Resources, PP!StoredConfigs,
         PP!Policies, PP!PayloadOK

---------------------------------------------------------------------------
(* The two together: what is in AWS was made by its reconciler.            *)
Inv == /\ PT!Inv /\ PP!AllInv
       /\ \A i \in Ids : aws[i] # Nil => i \in madeT
       /\ policy # Nil => madeP

LEMMA NextInv ==
  ASSUME ~Renames, Inv, [Next]_vars
  PROVE  Inv'
<1>1. PT!Inv /\ PP!AllInv /\ Target \in Ids
  BY AutoscalingAssumption DEF Inv
<1>2. CASE TargetWorker
  <2>1. /\ PT!Inv' /\ UNCHANGED worldVars /\ left' \in Limits
        /\ \A i \in Ids : aws'[i] # Nil
              => i \in madeT' \/ (aws[i] # Nil /\ i \notin madeT)
    BY <1>1, <1>2, TargetReconciler DEF TargetWorker
  <2>2. PP!AllInv'
    BY <1>1, <1>2, <2>1, PolicyReconciler
       DEF TargetWorker, PolicyFollows, worldVars
  <2>3. policy' # Nil => madeP'
    BY <1>2 DEF Inv, TargetWorker, PolicyFollows
  <2> QED
    BY <2>1, <2>2, <2>3 DEF Inv
<1>3. CASE TargetLost
  <2>1. /\ PT!Inv' /\ UNCHANGED worldVars /\ left' \in Limits
        /\ aws \in Registry
    BY <1>1, <1>3, TargetReconciler DEF TargetLost
  <2>2. PP!AllInv'
    BY <1>1, <1>3, <2>1, PolicyReconciler
       DEF TargetLost, PolicyFollows, worldVars
  <2>3. policy' # Nil => madeP'
    BY <1>3 DEF Inv, TargetLost, PolicyFollows
  <2>4. ASSUME NEW i \in Ids, aws'[i] # Nil PROVE i \in madeT'
    <3>1. PICK j \in Ids : /\ aws' = [aws EXCEPT ![j] = Nil]
                           /\ madeT' = madeT \ {j}
      BY <1>3 DEF TargetLost, T!ForeignDeregister
    <3> QED
      BY <2>1, <2>4, <3>1 DEF Inv, Registry
  <2> QED
    BY <2>1, <2>2, <2>3, <2>4 DEF Inv
<1>4. CASE TargetUser \/ TargetResync
  <2>1. PT!Inv' /\ UNCHANGED worldVars /\ left' \in Limits
    BY <1>1, <1>4, TargetReconciler DEF TargetUser, TargetResync
  <2>2. UNCHANGED <<aws, madeT, restP, dirtyP, policy, madeP>>
    BY <1>4 DEF TargetUser, TargetResync, policyVars, T!UserCreate, T!UserEdit,
       T!UserDelete, T!Resync
  <2>3. PP!AllInv'
    BY <1>1, <2>1, <2>2, PolicyReconciler DEF PolicyStays, worldVars
  <2> QED
    BY <2>1, <2>2, <2>3 DEF Inv
<1>5. CASE PolicyWorker \/ PolicyUser \/ PolicyResync
  <2>1. PP!AllInv' /\ UNCHANGED now /\ left' \in Limits
    BY <1>1, <1>5, PolicyReconciler DEF PolicyWorker, PolicyUser, PolicyResync
  <2>2. UNCHANGED <<restT, madeT, dirtyT, aws, worldVars>>
    BY <1>5, <2>1
       DEF PolicyWorker, PolicyUser, PolicyResync, targetVars, worldVars
  <2>3. PT!Inv'
    BY <1>1, <2>1, <2>2, TargetReconciler
  <2>4. policy' # Nil => madeP'
    <3>1. CASE PolicyWorker
      BY <1>1, <3>1, PolicyReconciler DEF Inv, PolicyWorker
    <3>2. CASE PolicyUser \/ PolicyResync
      BY <3>2 DEF Inv, PolicyUser, PolicyResync, P!UserCreate, P!UserEdit,
         P!UserDelete, P!Resync, P!awsVars
    <3> QED
      BY <1>5, <3>1, <3>2
  <2> QED
    BY <2>1, <2>2, <2>3, <2>4 DEF Inv
<1>6. CASE Crash
  <2>1. left' \in Limits
    BY <1>1, <1>6, TargetReconciler DEF Crash
  <2>2. PT!Inv' /\ PP!AllInv'
    BY <1>1, <1>6, <2>1, TargetReconciler, PolicyReconciler
       DEF Crash, worldVars
  <2> QED
    BY <1>6, <2>2 DEF Inv, Crash
<1>7. CASE UNCHANGED vars
  <2>1. /\ UNCHANGED <<restT, madeT, dirtyT, aws, worldVars>>
        /\ UNCHANGED <<restP, dirtyP, policy, madeP, now>>
        /\ left' \in Limits
    BY <1>1, <1>7, TargetReconciler
       DEF vars, targetVars, policyVars, worldVars
  <2>2. PT!Inv' /\ PP!AllInv'
    BY <1>1, <2>1, TargetReconciler, PolicyReconciler DEF PolicyStays
  <2> QED
    BY <2>1, <2>2 DEF Inv
<1> QED
  BY <1>2, <1>3, <1>4, <1>5, <1>6, <1>7 DEF Next

LEMMA InvAlways ==
  ASSUME ~Renames
  PROVE  Spec => []Inv
<1>1. Init => Inv
  BY FreshTarget, FreshPolicy DEF Init, Inv
<1>2. Inv /\ [Next]_vars => Inv'
  BY NextInv
<1> QED
  BY <1>1, <1>2, PTL DEF Spec

(* What the controller made is gone with its CR, of the target and of the  *)
(* policy, in whatever order the two are deleted, whoever takes the target *)
(* away under the policy, and whatever fails: what is in AWS was made by a *)
(* CR that still carries its finalizer.                                    *)
THEOREM GoneWithTheirCRs ==
  ASSUME ~Renames
  PROVE  Spec => []GoneWithItsCR
<1>1. Inv => GoneWithItsCR
  <2> SUFFICES ASSUME Inv PROVE GoneWithItsCR
    OBVIOUS
  <2>1. (phaseT = "absent") => madeT = {}
    BY DEF Inv, PT!Inv, PT!OwnInv, PT!OwnerInv, PT!MadeInv
  <2>2. (phaseP = "absent") => ~madeP
    BY DEF Inv, PP!AllInv, PP!Inv, PP!OwnerInv, PP!MadeInv
  <2> QED
    BY <2>1, <2>2 DEF Inv, GoneWithItsCR
<1> QED
  BY <1>1, InvAlways, PTL

(* A policy that claims to be in order after an undisturbed reconcile is   *)
(* the one its spec describes, and hangs on a target whose CR is under     *)
(* management, although the policy's worker never looks at that CR.        *)
THEOREM SyncedPolicyIsKept ==
  ASSUME ~Renames
  PROVE  Spec => []SyncedPolicyHasTarget
<1>1. Inv => SyncedPolicyHasTarget
  <2> SUFFICES ASSUME Inv, P!Settled PROVE managedT /\ P!Matches(policy)
    BY DEF SyncedPolicyHasTarget
  <2>1. PP!Settled /\ PP!CleanInv
    BY SamePolicy DEF Inv, PP!AllInv
  <2>2. aws[Target] # Nil /\ PP!Matches(policy)
    BY <2>1 DEF PP!Settled, PP!CleanInv, PP!Undisturbed, PP!InOrder
  <2>3. Target \in madeT
    BY <2>2, AutoscalingAssumption DEF Inv
  <2>4. managedT
    BY <2>3 DEF Inv, PT!Inv, PT!MadeInv
  <2> QED
    BY <2>2, <2>4, SamePolicy
<1> QED
  BY <1>1, InvAlways, PTL
=============================================================================

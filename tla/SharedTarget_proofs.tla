------------------------ MODULE SharedTarget_proofs ------------------------
(* Proofs about SharedTarget, for users who do not edit the identity of a  *)
(* target, from what ScalableTarget_proofs proves of one reconciler: P1 and*)
(* P2 are One and Two with these theorems.                                 *)
EXTENDS SharedTarget, TLAPS

P1 == INSTANCE ScalableTarget_proofs
  WITH UserSpecs <- UserSpecs1, phase <- phase1, managed <- managed1,
       spec <- spec1, status <- status1, queue <- queue1, pc <- pc1,
       desired <- desired1, isManaged <- isManaged1,
       isDeleting <- isDeleting1, latest <- latest1, err <- err1,
       made <- made1, dirty <- dirty1

P2 == INSTANCE ScalableTarget_proofs
  WITH UserSpecs <- UserSpecs2, phase <- phase2, managed <- managed2,
       spec <- spec2, status <- status2, queue <- queue2, pc <- pc2,
       desired <- desired2, isManaged <- isManaged2,
       isDeleting <- isDeleting2, latest <- latest2, err <- err2,
       made <- made2, dirty <- dirty2

LEMMA Same1 ==
  /\ One!Worker <=> P1!Worker
  /\ One!UserCreate <=> P1!UserCreate
  /\ One!UserDelete <=> P1!UserDelete
  /\ One!Resync <=> P1!Resync
  /\ One!Idle <=> P1!Idle
  /\ \A k : One!Spend(k) <=> P1!Spend(k)
  BY DEF One!Worker, One!FetchGone, One!Fetch, One!Resolve, One!ReadFails,
         One!ReadNotFound, One!ReadUnmanaged, One!ReadManaged,
         One!ReadToDelete, One!Manage, One!Create, One!ReadBack,
         One!ReadBackNotFound, One!Update, One!LateInitialize,
         One!LateInitializeFails, One!PatchSpec, One!Delete, One!Unmanage,
         One!Finish, One!Register, One!FinishWith, One!Idle, One!Spend,
         One!ReadOne, One!UserCreate, One!UserDelete, One!Resync, One!crVars,
         One!worldVars, One!reqVars, One!Opt, One!NoConditions, One!NoStatus,
         One!FitsInt32, One!CustomSetLastModifiedTimeToCreationTime,
         One!UpdateConditions, One!OnError, One!OnSuccess, One!EnsureSynced,
         One!MergePatch, One!SdkFind, One!PayloadOK, One!Payload, One!Accepted,
         One!Registered, One!SdkUpdated, One!CustomSetDefaults,
         One!NewResourceDelta, One!LateInitializeFromReadOneOutput,
         One!LateInitializeFailed, One!IncompleteLateInitialization,
         One!ClearResolvedReferences, One!GetReferencedResourceState,
         One!ResolveReferences, P1!Worker, P1!FetchGone, P1!Fetch, P1!Resolve,
         P1!ReadFails, P1!ReadNotFound, P1!ReadUnmanaged, P1!ReadManaged,
         P1!ReadToDelete, P1!Manage, P1!Create, P1!ReadBack,
         P1!ReadBackNotFound, P1!Update, P1!LateInitialize,
         P1!LateInitializeFails, P1!PatchSpec, P1!Delete, P1!Unmanage,
         P1!Finish, P1!Register, P1!FinishWith, P1!Idle, P1!Spend, P1!ReadOne,
         P1!UserCreate, P1!UserDelete, P1!Resync, P1!crVars, P1!worldVars,
         P1!reqVars, P1!Opt, P1!NoConditions, P1!NoStatus, P1!FitsInt32,
         P1!CustomSetLastModifiedTimeToCreationTime, P1!UpdateConditions,
         P1!OnError, P1!OnSuccess, P1!EnsureSynced, P1!MergePatch, P1!SdkFind,
         P1!PayloadOK, P1!Payload, P1!Accepted, P1!Registered, P1!SdkUpdated,
         P1!CustomSetDefaults, P1!NewResourceDelta,
         P1!LateInitializeFromReadOneOutput, P1!LateInitializeFailed,
         P1!IncompleteLateInitialization, P1!ClearResolvedReferences,
         P1!GetReferencedResourceState, P1!ResolveReferences,
         One!Stamp, One!Requeued, P1!Stamp, P1!Requeued

LEMMA Same2 ==
  /\ Two!Worker <=> P2!Worker
  /\ Two!UserCreate <=> P2!UserCreate
  /\ Two!UserDelete <=> P2!UserDelete
  /\ Two!Resync <=> P2!Resync
  /\ Two!Idle <=> P2!Idle
  /\ \A k : Two!Spend(k) <=> P2!Spend(k)
  BY DEF Two!Worker, Two!FetchGone, Two!Fetch, Two!Resolve, Two!ReadFails,
         Two!ReadNotFound, Two!ReadUnmanaged, Two!ReadManaged,
         Two!ReadToDelete, Two!Manage, Two!Create, Two!ReadBack,
         Two!ReadBackNotFound, Two!Update, Two!LateInitialize,
         Two!LateInitializeFails, Two!PatchSpec, Two!Delete, Two!Unmanage,
         Two!Finish, Two!Register, Two!FinishWith, Two!Idle, Two!Spend,
         Two!ReadOne, Two!UserCreate, Two!UserDelete, Two!Resync, Two!crVars,
         Two!worldVars, Two!reqVars, Two!Opt, Two!NoConditions, Two!NoStatus,
         Two!FitsInt32, Two!CustomSetLastModifiedTimeToCreationTime,
         Two!UpdateConditions, Two!OnError, Two!OnSuccess, Two!EnsureSynced,
         Two!MergePatch, Two!SdkFind, Two!PayloadOK, Two!Payload, Two!Accepted,
         Two!Registered, Two!SdkUpdated, Two!CustomSetDefaults,
         Two!NewResourceDelta, Two!LateInitializeFromReadOneOutput,
         Two!LateInitializeFailed, Two!IncompleteLateInitialization,
         Two!ClearResolvedReferences, Two!GetReferencedResourceState,
         Two!ResolveReferences, P2!Worker, P2!FetchGone, P2!Fetch, P2!Resolve,
         P2!ReadFails, P2!ReadNotFound, P2!ReadUnmanaged, P2!ReadManaged,
         P2!ReadToDelete, P2!Manage, P2!Create, P2!ReadBack,
         P2!ReadBackNotFound, P2!Update, P2!LateInitialize,
         P2!LateInitializeFails, P2!PatchSpec, P2!Delete, P2!Unmanage,
         P2!Finish, P2!Register, P2!FinishWith, P2!Idle, P2!Spend, P2!ReadOne,
         P2!UserCreate, P2!UserDelete, P2!Resync, P2!crVars, P2!worldVars,
         P2!reqVars, P2!Opt, P2!NoConditions, P2!NoStatus, P2!FitsInt32,
         P2!CustomSetLastModifiedTimeToCreationTime, P2!UpdateConditions,
         P2!OnError, P2!OnSuccess, P2!EnsureSynced, P2!MergePatch, P2!SdkFind,
         P2!PayloadOK, P2!Payload, P2!Accepted, P2!Registered, P2!SdkUpdated,
         P2!CustomSetDefaults, P2!NewResourceDelta,
         P2!LateInitializeFromReadOneOutput, P2!LateInitializeFailed,
         P2!IncompleteLateInitialization, P2!ClearResolvedReferences,
         P2!GetReferencedResourceState, P2!ResolveReferences,
         Two!Stamp, Two!Requeued, P2!Stamp, P2!Requeued

---------------------------------------------------------------------------
(* Each CR by itself: its reconciler keeps its invariant, and so does what *)
(* the other's does, and the death of both.                                *)
Limits == [user : 0 .. MaxUser, foreign : 0 .. MaxForeign,
           fault : 0 .. MaxFaults]

LEMMA Reconciler1 ==
  ASSUME ~Renames, P1!Inv
  PROVE  /\ aws \in [Ids -> Opt(Targets)] /\ left \in Limits
         /\ (One!Worker \/ One!UserCreate \/ One!UserDelete \/ One!Resync)
              => /\ P1!Inv' /\ UNCHANGED worldVars
                 /\ aws' \in [Ids -> Opt(Targets)] /\ left' \in Limits
         /\ (One!Worker => \A i \in Ids : aws'[i] # Nil
               => i \in made1' \/ (aws[i] # Nil /\ i \notin made1))
         /\ (/\ Notice1 /\ UNCHANGED <<rest1, worldVars>>
             /\ aws' \in [Ids -> Opt(Targets)] /\ left' \in Limits) => P1!Inv'
         /\ (/\ One!Idle /\ left' \in Limits
             /\ queue1' = (IF phase1 = "absent" THEN {} ELSE {"now"})
             /\ dirty1' = TRUE
             /\ UNCHANGED <<aws, worldVars, phase1, managed1, spec1,
                            status1, made1>>) => P1!Inv'
         /\ One!Spend("fault") => left' \in Limits
         /\ made1 = {i \in made1 : aws[i] # Nil}
         /\ dirty1 \in BOOLEAN
         /\ UNCHANGED vars => P1!Inv'
<1> USE AckAssumption, ResourceAssumption, SharedAssumption
        DEF Opt, Times, ClockNames, Clocks, Stamps, ConditionStatus,
            Conditions, FitsInt32, Refs, Specs, Statuses, Resources, Targets,
            RoleCRs, P1!Opt, P1!Times, P1!ClockNames, P1!Clocks, P1!Stamps,
            P1!ConditionStatus, P1!Conditions, P1!FitsInt32, P1!Refs, P1!Specs,
            P1!Statuses, P1!Resources, P1!Targets, P1!RoleCRs, Limits,
            P1!Bounds
<1> DEFINE Acts == P1!Worker \/ P1!UserCreate \/ P1!UserDelete \/ P1!Resync
<1>1. P1!TypeOK
  BY DEF P1!Inv, P1!OwnInv, P1!TypeInv
<1>2. /\ aws \in [Ids -> Opt(Targets)] /\ left \in Limits
      /\ dirty1 \in BOOLEAN
  BY <1>1 DEF P1!TypeOK
<1>3. ASSUME Acts
      PROVE  /\ P1!Inv' /\ UNCHANGED worldVars
             /\ aws' \in [Ids -> Opt(Targets)] /\ left' \in Limits
  <2>1. P1!Inv'
    BY <1>3, P1!NextInv DEF P1!Next, P1!Environment
  <2>2. UNCHANGED worldVars
    BY <1>3, P1!WorkerLeavesWorld DEF P1!worldVars, worldVars
  <2>3. aws' \in [Ids -> Opt(Targets)] /\ left' \in Limits
    BY <2>1 DEF P1!Inv, P1!OwnInv, P1!TypeInv, P1!TypeOK
  <2> QED
    BY <2>1, <2>2, <2>3
<1>4. ASSUME P1!Worker, NEW i \in Ids, aws'[i] # Nil
      PROVE  i \in made1' \/ (aws[i] # Nil /\ i \notin made1)
  BY <1>4, P1!WorkerMakes
<1>5. ASSUME Notice1, UNCHANGED <<rest1, worldVars>>,
             aws' \in [Ids -> Opt(Targets)], left' \in Limits
      PROVE  P1!Inv'
  <2>1. UNCHANGED <<P1!crVars, P1!worldVars, queue1, pc1, P1!reqVars,
                    latest1, err1>>
    BY <1>5 DEF P1!crVars, P1!worldVars, P1!reqVars, rest1, worldVars
  <2>2. /\ dirty1' \in BOOLEAN
        /\ made1' = {i \in made1 : aws'[i] # Nil}
    BY <1>2, <1>5 DEF Notice1
  <2> QED
    BY <1>5, <2>1, <2>2, P1!StrangerKeeps
<1>6. ASSUME P1!Idle, left' \in Limits,
             queue1' = (IF phase1 = "absent" THEN {} ELSE {"now"}),
             dirty1' = TRUE,
             UNCHANGED <<aws, worldVars, phase1, managed1, spec1,
                         status1, made1>>
      PROVE  P1!Inv'
  <2>1. UNCHANGED <<P1!crVars, P1!worldVars, aws, made1>>
    BY <1>6 DEF P1!crVars, P1!worldVars, worldVars
  <2>2. queue1' \in P1!Queues /\ dirty1' \in BOOLEAN
    BY <1>6, P1!QueueTypes
  <2> QED
    BY <1>6, <2>1, <2>2, P1!ForgetKeeps
<1>7. P1!Spend("fault") => left' \in Limits
  BY <1>1, P1!SpendType
<1>8. made1 = {i \in made1 : aws[i] # Nil}
  BY DEF P1!Inv, P1!MadeInv
<1>9. ASSUME UNCHANGED vars PROVE P1!Inv'
  BY <1>2, <1>5, <1>8, <1>9 DEF vars, worldVars, Notice1
<1> QED
  BY <1>2, <1>3, <1>4, <1>5, <1>6, <1>7, <1>8, <1>9, Same1

LEMMA Reconciler2 ==
  ASSUME ~Renames, P2!Inv
  PROVE  /\ aws \in [Ids -> Opt(Targets)] /\ left \in Limits
         /\ (Two!Worker \/ Two!UserCreate \/ Two!UserDelete \/ Two!Resync)
              => /\ P2!Inv' /\ UNCHANGED worldVars
                 /\ aws' \in [Ids -> Opt(Targets)] /\ left' \in Limits
         /\ (Two!Worker => \A i \in Ids : aws'[i] # Nil
               => i \in made2' \/ (aws[i] # Nil /\ i \notin made2))
         /\ (/\ Notice2 /\ UNCHANGED <<rest2, worldVars>>
             /\ aws' \in [Ids -> Opt(Targets)] /\ left' \in Limits) => P2!Inv'
         /\ (/\ Two!Idle /\ left' \in Limits
             /\ queue2' = (IF phase2 = "absent" THEN {} ELSE {"now"})
             /\ dirty2' = TRUE
             /\ UNCHANGED <<aws, worldVars, phase2, managed2, spec2,
                            status2, made2>>) => P2!Inv'
         /\ Two!Spend("fault") => left' \in Limits
         /\ made2 = {i \in made2 : aws[i] # Nil}
         /\ dirty2 \in BOOLEAN
         /\ UNCHANGED vars => P2!Inv'
<1> USE AckAssumption, ResourceAssumption, SharedAssumption
        DEF Opt, Times, ClockNames, Clocks, Stamps, ConditionStatus,
            Conditions, FitsInt32, Refs, Specs, Statuses, Resources, Targets,
            RoleCRs, P2!Opt, P2!Times, P2!ClockNames, P2!Clocks, P2!Stamps,
            P2!ConditionStatus, P2!Conditions, P2!FitsInt32, P2!Refs, P2!Specs,
            P2!Statuses, P2!Resources, P2!Targets, P2!RoleCRs, Limits,
            P2!Bounds
<1> DEFINE Acts == P2!Worker \/ P2!UserCreate \/ P2!UserDelete \/ P2!Resync
<1>1. P2!TypeOK
  BY DEF P2!Inv, P2!OwnInv, P2!TypeInv
<1>2. /\ aws \in [Ids -> Opt(Targets)] /\ left \in Limits
      /\ dirty2 \in BOOLEAN
  BY <1>1 DEF P2!TypeOK
<1>3. ASSUME Acts
      PROVE  /\ P2!Inv' /\ UNCHANGED worldVars
             /\ aws' \in [Ids -> Opt(Targets)] /\ left' \in Limits
  <2>1. P2!Inv'
    BY <1>3, P2!NextInv DEF P2!Next, P2!Environment
  <2>2. UNCHANGED worldVars
    BY <1>3, P2!WorkerLeavesWorld DEF P2!worldVars, worldVars
  <2>3. aws' \in [Ids -> Opt(Targets)] /\ left' \in Limits
    BY <2>1 DEF P2!Inv, P2!OwnInv, P2!TypeInv, P2!TypeOK
  <2> QED
    BY <2>1, <2>2, <2>3
<1>4. ASSUME P2!Worker, NEW i \in Ids, aws'[i] # Nil
      PROVE  i \in made2' \/ (aws[i] # Nil /\ i \notin made2)
  BY <1>4, P2!WorkerMakes
<1>5. ASSUME Notice2, UNCHANGED <<rest2, worldVars>>,
             aws' \in [Ids -> Opt(Targets)], left' \in Limits
      PROVE  P2!Inv'
  <2>1. UNCHANGED <<P2!crVars, P2!worldVars, queue2, pc2, P2!reqVars,
                    latest2, err2>>
    BY <1>5 DEF P2!crVars, P2!worldVars, P2!reqVars, rest2, worldVars
  <2>2. /\ dirty2' \in BOOLEAN
        /\ made2' = {i \in made2 : aws'[i] # Nil}
    BY <1>2, <1>5 DEF Notice2
  <2> QED
    BY <1>5, <2>1, <2>2, P2!StrangerKeeps
<1>6. ASSUME P2!Idle, left' \in Limits,
             queue2' = (IF phase2 = "absent" THEN {} ELSE {"now"}),
             dirty2' = TRUE,
             UNCHANGED <<aws, worldVars, phase2, managed2, spec2,
                         status2, made2>>
      PROVE  P2!Inv'
  <2>1. UNCHANGED <<P2!crVars, P2!worldVars, aws, made2>>
    BY <1>6 DEF P2!crVars, P2!worldVars, worldVars
  <2>2. queue2' \in P2!Queues /\ dirty2' \in BOOLEAN
    BY <1>6, P2!QueueTypes
  <2> QED
    BY <1>6, <2>1, <2>2, P2!ForgetKeeps
<1>7. P2!Spend("fault") => left' \in Limits
  BY <1>1, P2!SpendType
<1>8. made2 = {i \in made2 : aws[i] # Nil}
  BY DEF P2!Inv, P2!MadeInv
<1>9. ASSUME UNCHANGED vars PROVE P2!Inv'
  BY <1>2, <1>5, <1>8, <1>9 DEF vars, worldVars, Notice2
<1> QED
  BY <1>2, <1>3, <1>4, <1>5, <1>6, <1>7, <1>8, <1>9, Same2

LEMMA FreshInv1 == Init => P1!Inv
<1>1. ASSUME Init PROVE left \in Limits
  BY <1>1, SharedAssumption DEF Init, Limits
<1> QED
  BY <1>1, P1!FreshInv, P1!QueueTypes, AckAssumption, ResourceAssumption,
     SharedAssumption
     DEF Init, Epoch, P1!Epoch, Limits, P1!Bounds, P1!NoStatus,
         P1!NoConditions, NoStatus, NoConditions,
         Opt, Times, ClockNames, Clocks, Stamps, ConditionStatus, Conditions,
         FitsInt32, Refs, Specs, Statuses, Resources, Targets, RoleCRs,
         P1!Opt, P1!Times, P1!ClockNames, P1!Clocks, P1!Stamps,
         P1!ConditionStatus, P1!Conditions, P1!FitsInt32, P1!Refs, P1!Specs,
         P1!Statuses, P1!Resources, P1!Targets, P1!RoleCRs

LEMMA FreshInv2 == Init => P2!Inv
<1>1. ASSUME Init PROVE left \in Limits
  BY <1>1, SharedAssumption DEF Init, Limits
<1> QED
  BY <1>1, P2!FreshInv, P2!QueueTypes, AckAssumption, ResourceAssumption,
     SharedAssumption
     DEF Init, Epoch, P2!Epoch, Limits, P2!Bounds, P2!NoStatus,
         P2!NoConditions, NoStatus, NoConditions,
         Opt, Times, ClockNames, Clocks, Stamps, ConditionStatus, Conditions,
         FitsInt32, Refs, Specs, Statuses, Resources, Targets, RoleCRs,
         P2!Opt, P2!Times, P2!ClockNames, P2!Clocks, P2!Stamps,
         P2!ConditionStatus, P2!Conditions, P2!FitsInt32, P2!Refs, P2!Specs,
         P2!Statuses, P2!Resources, P2!Targets, P2!RoleCRs

LEMMA Writes1 ==
  ASSUME P1!Inv, One!Worker, pc1' # pc1, NEW i \in Ids, aws'[i] # aws[i]
  PROVE  managed1 /\ phase1 # "absent" /\ i = spec1.id
<1>1. P1!Next
  BY Same1 DEF P1!Next
<1> QED
  BY <1>1, P1!WritesStep, AckAssumption, ResourceAssumption, SharedAssumption
     DEF Opt, Times, ClockNames, Clocks, Stamps, ConditionStatus, Conditions,
         FitsInt32, Refs, Specs, Statuses, Resources, Targets, RoleCRs,
         P1!Opt, P1!Times, P1!ClockNames, P1!Clocks, P1!Stamps,
         P1!ConditionStatus, P1!Conditions, P1!FitsInt32, P1!Refs, P1!Specs,
         P1!Statuses, P1!Resources, P1!Targets, P1!RoleCRs

LEMMA Writes2 ==
  ASSUME P2!Inv, Two!Worker, pc2' # pc2, NEW i \in Ids, aws'[i] # aws[i]
  PROVE  managed2 /\ phase2 # "absent" /\ i = spec2.id
<1>1. P2!Next
  BY Same2 DEF P2!Next
<1> QED
  BY <1>1, P2!WritesStep, AckAssumption, ResourceAssumption, SharedAssumption
     DEF Opt, Times, ClockNames, Clocks, Stamps, ConditionStatus, Conditions,
         FitsInt32, Refs, Specs, Statuses, Resources, Targets, RoleCRs,
         P2!Opt, P2!Times, P2!ClockNames, P2!Clocks, P2!Stamps,
         P2!ConditionStatus, P2!Conditions, P2!FitsInt32, P2!Refs, P2!Specs,
         P2!Statuses, P2!Resources, P2!Targets, P2!RoleCRs

---------------------------------------------------------------------------
(* The two together: every target in AWS was made by one of them, and what *)
(* neither made is not there.                                              *)
Inv == /\ P1!Inv /\ P2!Inv
       /\ \A i \in Ids : aws[i] # Nil => i \in made1 \cup made2

LEMMA NextInv ==
  ASSUME ~Renames, Inv, [Next]_vars
  PROVE  Inv'
<1>1. P1!Inv /\ P2!Inv
  BY DEF Inv
<1>2. CASE Worker1
  <2>1. /\ P1!Inv' /\ UNCHANGED worldVars
        /\ aws' \in [Ids -> Opt(Targets)] /\ left' \in Limits
        /\ \A i \in Ids : aws'[i] # Nil
              => i \in made1' \/ (aws[i] # Nil /\ i \notin made1)
    BY <1>1, <1>2, Reconciler1 DEF Worker1
  <2>2. P2!Inv'
    BY <1>1, <1>2, <2>1, Reconciler2 DEF Worker1
  <2> QED
    BY <1>2, <2>1, <2>2 DEF Inv, Worker1, Notice2
<1>3. CASE Worker2
  <2>1. /\ P2!Inv' /\ UNCHANGED worldVars
        /\ aws' \in [Ids -> Opt(Targets)] /\ left' \in Limits
        /\ \A i \in Ids : aws'[i] # Nil
              => i \in made2' \/ (aws[i] # Nil /\ i \notin made2)
    BY <1>1, <1>3, Reconciler2 DEF Worker2
  <2>2. P1!Inv'
    BY <1>1, <1>3, <2>1, Reconciler1 DEF Worker2
  <2> QED
    BY <1>3, <2>1, <2>2 DEF Inv, Worker2, Notice1
<1>4. CASE User1 \/ Resync1
  <2>1. /\ P1!Inv' /\ UNCHANGED worldVars
        /\ aws' \in [Ids -> Opt(Targets)] /\ left' \in Limits
    BY <1>1, <1>4, Reconciler1 DEF User1, Resync1
  <2>2. UNCHANGED <<aws, made1, rest2, made2, dirty2>>
    BY <1>4 DEF User1, Resync1, One!UserCreate, One!UserDelete, One!Resync
  <2>3. Notice2
    BY <1>1, <2>2, Reconciler2 DEF Notice2
  <2>4. P2!Inv'
    BY <1>1, <2>1, <2>2, <2>3, Reconciler2
  <2> QED
    BY <2>1, <2>2, <2>4 DEF Inv
<1>5. CASE User2 \/ Resync2
  <2>1. /\ P2!Inv' /\ UNCHANGED worldVars
        /\ aws' \in [Ids -> Opt(Targets)] /\ left' \in Limits
    BY <1>1, <1>5, Reconciler2 DEF User2, Resync2
  <2>2. UNCHANGED <<aws, made2, rest1, made1, dirty1>>
    BY <1>5 DEF User2, Resync2, Two!UserCreate, Two!UserDelete, Two!Resync
  <2>3. Notice1
    BY <1>1, <2>2, Reconciler1 DEF Notice1
  <2>4. P1!Inv'
    BY <1>1, <2>1, <2>2, <2>3, Reconciler1
  <2> QED
    BY <2>1, <2>2, <2>4 DEF Inv
<1>6. CASE Crash
  <2>1. left' \in Limits
    BY <1>1, <1>6, Reconciler1 DEF Crash
  <2>2. P1!Inv' /\ P2!Inv'
    BY <1>1, <1>6, <2>1, Reconciler1, Reconciler2 DEF Crash
  <2> QED
    BY <1>6, <2>2 DEF Inv, Crash
<1>7. CASE UNCHANGED vars
  BY <1>1, <1>7, Reconciler1, Reconciler2 DEF Inv, vars
<1> QED
  BY <1>2, <1>3, <1>4, <1>5, <1>6, <1>7 DEF Next

LEMMA InvAlways ==
  ASSUME ~Renames
  PROVE  Spec => []Inv
<1>1. Init => Inv
  BY FreshInv1, FreshInv2 DEF Init, Inv
<1>2. Inv /\ [Next]_vars => Inv'
  BY NextInv
<1> QED
  BY <1>1, <1>2, PTL DEF Spec

(* When both CRs are gone nothing is left in AWS, in whatever order the two*)
(* workers registered, overwrote and deregistered the target, lost answers *)
(* or died: what is there was made by a CR that still carries a finalizer. *)
THEOREM NothingIsLeft ==
  ASSUME ~Renames
  PROVE  Spec => []NothingLeft
<1>1. Inv => NothingLeft
  <2> SUFFICES ASSUME Inv, phase1 = "absent", phase2 = "absent"
               PROVE  \A i \in Ids : aws[i] = Nil
    BY DEF NothingLeft
  <2>1. made1 = {} /\ made2 = {}
    BY DEF Inv, P1!Inv, P1!OwnInv, P1!OwnerInv, P1!MadeInv,
           P2!Inv, P2!OwnInv, P2!OwnerInv, P2!MadeInv
  <2> QED
    BY <2>1 DEF Inv
<1> QED
  BY <1>1, InvAlways, PTL

(* Neither worker ever writes to the target of a CR without its finalizer, *)
(* whatever the other did to the target since this one looked at it.       *)
THEOREM RefusedKeepsOff ==
  ASSUME ~Renames
  PROVE  Spec => RefusedLeavesAlone
<1> DEFINE W1 == pc1' # pc1 => \A i \in Ids : aws'[i] # aws[i]
                   => managed1 /\ phase1 # "absent" /\ i = spec1.id
           W2 == pc2' # pc2 => \A i \in Ids : aws'[i] # aws[i]
                   => managed2 /\ phase2 # "absent" /\ i = spec2.id
<1>1. ASSUME Inv, [Next]_vars
      PROVE  W1 /\ W2
  <2>1. P1!Inv /\ P2!Inv
    BY <1>1 DEF Inv
  <2>2. CASE Worker1
    BY <2>1, <2>2, Writes1 DEF Worker1, rest2
  <2>3. CASE Worker2
    BY <2>1, <2>3, Writes2 DEF Worker2, rest1
  <2>4. CASE ~Worker1 /\ ~Worker2
    <3>1. aws' = aws
      BY <1>1, <2>4 DEF Next, User1, User2, Resync1, Resync2, Crash,
         One!UserCreate, One!UserDelete, One!Resync,
         Two!UserCreate, Two!UserDelete, Two!Resync, vars
    <3> QED
      BY <3>1
  <2> QED
    BY <2>2, <2>3, <2>4
<1>2. Inv /\ [Next]_vars => [W1]_(One!vars) /\ [W2]_(Two!vars)
  BY <1>1
<1> QED
  BY <1>2, InvAlways, PTL
     DEF Spec, RefusedLeavesAlone, One!WritesOnlyManaged, Two!WritesOnlyManaged

=============================================================================

---------------------------- MODULE Autoscaling ----------------------------
(* A ScalableTarget and a ScalingPolicy custom resource that belong to one *)
(* scalable target, as the examples of the repository create them: the two *)
(* workers of one controller process over one AWS.  The policy's worker    *)
(* knows nothing of the target's CR; that PutScalingPolicy needs a target, *)
(* and that a policy goes with its target, is all that connects them.      *)
EXTENDS Integers

CONSTANTS Nil, MaxInt32, MaxTime, MaxUser, MaxForeign, MaxFaults,
          Ids, Caps, Roles, ServiceRole, Flags, RoleStates, Renames,
          TargetSpecs,  \* the specs users write for the target
          Numbers, Lists, Others, DefaultOther,
          PolicySpecs,  \* the specs users write for the policy
          ForeignSpecs, \* as in ScalableTarget and ScalingPolicy
          Target        \* the identity that the policy names

VARIABLES
  aws,    \* identity -> the registered target, or Nil
  policy, \* the policy in AWS, or Nil
  left,   \* what remains of the bounds, for both
  roleCR, now, \* as in ScalableTarget
  phaseT, managedT, specT, statusT, queueT, pcT, desiredT, isManagedT,
  isDeletingT, latestT, errT, madeT, dirtyT,
  phaseP, managedP, specP, statusP, queueP, pcP, desiredP, isManagedP,
  isDeletingP, latestP, errP, madeP, dirtyP

T == INSTANCE ScalableTarget
  WITH UserSpecs <- TargetSpecs, phase <- phaseT, managed <- managedT,
       spec <- specT, status <- statusT, queue <- queueT, pc <- pcT,
       desired <- desiredT, isManaged <- isManagedT,
       isDeleting <- isDeletingT, latest <- latestT, err <- errT,
       made <- madeT, dirty <- dirtyT

P == INSTANCE ScalingPolicy
  WITH UserSpecs <- PolicySpecs, registered <- aws[Target] # Nil,
       phase <- phaseP, managed <- managedP, spec <- specP, status <- statusP,
       queue <- queueP, pc <- pcP, desired <- desiredP,
       isManaged <- isManagedP, isDeleting <- isDeletingP, latest <- latestP,
       err <- errP, made <- madeP, dirty <- dirtyP

ASSUME AutoscalingAssumption ==
  /\ T!AckAssumption /\ T!ResourceAssumption /\ T!TargetAssumption
  /\ P!PolicyResourceAssumption /\ P!PolicyAssumption
  /\ Target \in Ids

worldVars == <<roleCR, now>>
restT == <<phaseT, managedT, specT, statusT, queueT, pcT, desiredT, isManagedT,
           isDeletingT, latestT, errT>>
restP == <<phaseP, managedP, specP, statusP, queueP, pcP, desiredP, isManagedP,
           isDeletingP, latestP, errP>>
targetVars == <<restT, madeT, dirtyT, aws, roleCR>>
policyVars == <<restP, madeP, dirtyP, policy>>
vars == <<targetVars, policyVars, left, now>>

(* Both have just been written, in either order; either another client or  *)
(* faults will interfere.                                                  *)
Init ==
  /\ aws = [i \in Ids |-> Nil] /\ policy = Nil
  /\ left \in {[user |-> MaxUser, foreign |-> MaxForeign, fault |-> 0],
               [user |-> MaxUser, foreign |-> 0, fault |-> MaxFaults]}
  /\ roleCR \in RoleStates /\ now = T!Epoch
  /\ phaseT = "live"        /\ phaseP = "live"
  /\ managedT = FALSE       /\ managedP = FALSE
  /\ specT \in TargetSpecs  /\ specP \in PolicySpecs
  /\ statusT = T!NoStatus   /\ statusP = P!NoStatus
  /\ queueT = {"now"}       /\ queueP = {"now"}
  /\ pcT = "idle"           /\ pcP = "idle"
  /\ desiredT = Nil         /\ desiredP = Nil
  /\ isManagedT = FALSE     /\ isManagedP = FALSE
  /\ isDeletingT = FALSE    /\ isDeletingP = FALSE
  /\ latestT = Nil          /\ latestP = Nil
  /\ errT = Nil             /\ errP = Nil
  /\ madeT = {}             /\ madeP = FALSE
  /\ dirtyT = TRUE          /\ dirtyP = TRUE

\* AWS keeps the policies of a target that is deregistered
PolicyStays ==
  /\ dirtyP' = (dirtyP \/ (aws[Target] = Nil) # (aws'[Target] = Nil))
  /\ UNCHANGED <<policy, madeP>>

(* AWS deletes the policies of a target that is deregistered; for the      *)
(* policy's worker the target comes and goes by the act of a stranger.     *)
PolicyFollows ==
  /\ dirtyP' = (dirtyP \/ (aws[Target] = Nil) # (aws'[Target] = Nil))
  /\ IF aws'[Target] = Nil THEN policy' = Nil /\ madeP' = FALSE
     ELSE UNCHANGED <<policy, madeP>>

TargetWorker == T!Worker /\ PolicyFollows /\ UNCHANGED restP
PolicyWorker == UNCHANGED targetVars /\ P!Worker

TargetUser == /\ T!UserCreate \/ T!UserEdit \/ T!UserDelete
              /\ UNCHANGED policyVars
PolicyUser == /\ UNCHANGED targetVars
              /\ P!UserCreate \/ P!UserEdit \/ P!UserDelete

TargetResync == T!Resync /\ UNCHANGED policyVars
PolicyResync == UNCHANGED targetVars /\ P!Resync

(* Another client of AWS deregisters the target.                           *)
TargetLost == T!ForeignDeregister /\ PolicyFollows /\ UNCHANGED restP

(* The two workers die together.                                           *)
Crash ==
  /\ T!Spend("fault")
  /\ T!Idle /\ P!Idle
  /\ queueT' = IF phaseT = "absent" THEN {} ELSE {"now"}
  /\ queueP' = IF phaseP = "absent" THEN {} ELSE {"now"}
  /\ dirtyT' = TRUE /\ dirtyP' = TRUE
  /\ UNCHANGED <<aws, policy, worldVars, phaseT, managedT, specT, statusT,
                 madeT, phaseP, managedP, specP, statusP, madeP>>

Next == \/ TargetWorker \/ TargetUser \/ TargetResync
        \/ PolicyWorker \/ PolicyUser \/ PolicyResync
        \/ TargetLost \/ Crash

Spec == Init /\ [][Next]_vars

(* Each CR has its key in a work queue and a worker of its own.            *)
FairSpec == /\ Spec
            /\ WF_vars(TargetWorker) /\ WF_vars(PolicyWorker)
            /\ WF_vars(TargetResync) /\ WF_vars(PolicyResync)

---------------------------------------------------------------------------
(* What the controller made goes with its CR: none of the target is left   *)
(* in AWS without the one, none of the policy without the other, in which  *)
(* order they are deleted and whatever fails on the way.                   *)
GoneWithItsCR == /\ phaseT = "absent" => \A i \in Ids : aws[i] = Nil
                 /\ phaseP = "absent" => policy = Nil

(* A policy's Synced=True is honest towards the target's CR too: if nobody *)
(* acted since the fetch, a target's CR that carries the finalizer is      *)
(* there to keep the target.                                               *)
SyncedPolicyHasTarget == P!Settled => managedT /\ P!Matches(policy)

(* In the end no CR waits for its deletion, whichever of the two goes      *)
(* first; two live CRs are both served, though the policy was refused as   *)
(* long as the target was not there or has gone with it; and a policy      *)
(* whose target is gone does not go on claiming to be in order.            *)
SettlesTogether ==
  <>[](/\ phaseT # "deleting" /\ phaseP # "deleting"
       /\ phaseT = "live" =>
            T!Matches(aws[specT.id]) /\ statusT.conds.synced = "True"
       /\ phaseP = "live" =>
            IF phaseT = "live"
            THEN P!Matches(policy) /\ statusP.conds.synced = "True"
            ELSE statusP.conds.synced = "False")
===========================================================================

---------------------------- MODULE SharedTarget ---------------------------
(* Two ScalableTarget custom resources that name the same scalable target. *)
(* Nothing keeps users from writing both: the two are reconciled by two    *)
(* workers of one process, each as in ScalableTarget, over one AWS, where  *)
(* RegisterScalableTarget is an upsert that asks for no owner.             *)
EXTENDS ScalableTargetResource, FiniteSets

CONSTANTS UserSpecs1, UserSpecs2, \* the specs users write for either CR
          ForeignSpecs, RoleStates, Renames, MaxUser, MaxForeign, MaxFaults,
          Budgets \* how much of the bounds one behaviour may use

ASSUME SharedAssumption ==
  /\ UserSpecs1 \subseteq Specs /\ UserSpecs2 \subseteq Specs
  /\ ForeignSpecs \subseteq {s \in Specs : s.cap # Nil /\ FitsInt32(s.cap)}
  /\ RoleStates \subseteq Opt(RoleCRs)
  /\ Renames \in BOOLEAN
  /\ MaxUser \in Nat /\ MaxForeign \in Nat /\ MaxFaults \in Nat
  /\ Budgets \subseteq [user : 0 .. MaxUser, foreign : 0 .. MaxForeign,
                        fault : 0 .. MaxFaults]

VARIABLES
  aws,  \* identity -> the registered target, or Nil
  left, \* what remains of the bounds, for both
  roleCR, now, \* as in ScalableTarget
  phase1, managed1, spec1, status1, queue1, pc1, desired1, isManaged1,
  isDeleting1, latest1, err1, made1, dirty1,
  phase2, managed2, spec2, status2, queue2, pc2, desired2, isManaged2,
  isDeleting2, latest2, err2, made2, dirty2

(* Other AWS clients, the Role CR and the clock keep still here; what they *)
(* can do to one CR is in ScalableTarget.                                  *)
One == INSTANCE ScalableTarget
  WITH UserSpecs <- UserSpecs1, phase <- phase1, managed <- managed1,
       spec <- spec1, status <- status1, queue <- queue1, pc <- pc1,
       desired <- desired1, isManaged <- isManaged1,
       isDeleting <- isDeleting1, latest <- latest1, err <- err1,
       made <- made1, dirty <- dirty1

Two == INSTANCE ScalableTarget
  WITH UserSpecs <- UserSpecs2, phase <- phase2, managed <- managed2,
       spec <- spec2, status <- status2, queue <- queue2, pc <- pc2,
       desired <- desired2, isManaged <- isManaged2,
       isDeleting <- isDeleting2, latest <- latest2, err <- err2,
       made <- made2, dirty <- dirty2

rest1 == <<phase1, managed1, spec1, status1, queue1, pc1, desired1, isManaged1,
           isDeleting1, latest1, err1>>
rest2 == <<phase2, managed2, spec2, status2, queue2, pc2, desired2, isManaged2,
           isDeleting2, latest2, err2>>
worldVars == <<roleCR, now>>
vars == <<aws, left, worldVars, rest1, made1, dirty1, rest2, made2, dirty2>>

(* Both have just been written; a worker may take its time to notice.      *)
Init ==
  /\ aws = [i \in Ids |-> Nil]
  /\ left \in Budgets
  /\ roleCR \in RoleStates /\ now = Epoch
  /\ phase1 = "live"       /\ phase2 = "live"
  /\ managed1 = FALSE      /\ managed2 = FALSE
  /\ spec1 \in UserSpecs1  /\ spec2 \in UserSpecs2
  /\ status1 = NoStatus    /\ status2 = NoStatus
  /\ queue1 = {"now"}      /\ queue2 = {"now"}
  /\ pc1 = "idle"          /\ pc2 = "idle"
  /\ desired1 = Nil        /\ desired2 = Nil
  /\ isManaged1 = FALSE    /\ isManaged2 = FALSE
  /\ isDeleting1 = FALSE   /\ isDeleting2 = FALSE
  /\ latest1 = Nil         /\ latest2 = Nil
  /\ err1 = Nil            /\ err2 = Nil
  /\ made1 = {}            /\ made2 = {}
  /\ dirty1 = TRUE         /\ dirty2 = TRUE

(* To one CR what the other's worker does in AWS is the act of a stranger. *)
Notice1 == /\ made1' = {i \in made1 : aws'[i] # Nil}
           /\ dirty1' = (dirty1 \/ aws' # aws)
Notice2 == /\ made2' = {i \in made2 : aws'[i] # Nil}
           /\ dirty2' = (dirty2 \/ aws' # aws)

Worker1 == One!Worker /\ Notice2 /\ UNCHANGED rest2
Worker2 == Two!Worker /\ Notice1 /\ UNCHANGED rest1

User1 == /\ One!UserCreate \/ One!UserDelete
         /\ UNCHANGED <<rest2, made2, dirty2>>
User2 == /\ Two!UserCreate \/ Two!UserDelete
         /\ UNCHANGED <<rest1, made1, dirty1>>

Resync1 == One!Resync /\ UNCHANGED <<rest2, made2, dirty2>>
Resync2 == Two!Resync /\ UNCHANGED <<rest1, made1, dirty1>>

(* The two workers die together.                                           *)
Crash ==
  /\ One!Spend("fault")
  /\ One!Idle /\ Two!Idle
  /\ queue1' = IF phase1 = "absent" THEN {} ELSE {"now"}
  /\ queue2' = IF phase2 = "absent" THEN {} ELSE {"now"}
  /\ dirty1' = TRUE /\ dirty2' = TRUE
  /\ UNCHANGED <<aws, worldVars, phase1, managed1, spec1, status1, made1,
                 phase2, managed2, spec2, status2, made2>>

Next == Worker1 \/ Worker2 \/ User1 \/ User2 \/ Resync1 \/ Resync2 \/ Crash

Spec == Init /\ [][Next]_vars

(* Each CR has its key in the work queue and a worker of its own.          *)
FairSpec == /\ Spec
            /\ WF_vars(Worker1) /\ WF_vars(Worker2)
            /\ WF_vars(Resync1) /\ WF_vars(Resync2)

---------------------------------------------------------------------------
(* When both CRs are gone the target is gone, whichever of them registered *)
(* it, overwrote it or deregistered it behind the other's back.            *)
NothingLeft ==
  phase1 = "absent" /\ phase2 = "absent" => \A i \in Ids : aws[i] = Nil

(* A CR refused because the target exists does not touch it: a worker      *)
(* writes to AWS only for a CR that carries the finalizer.                 *)
RefusedLeavesAlone == One!WritesOnlyManaged /\ Two!WritesOnlyManaged

(* In the end no CR waits for its deletion, although the other may remove  *)
(* the target between its Describe and its Deregister; and a CR without a  *)
(* rival has the target as it wants it, unless it was refused while the    *)
(* other's target was there: that error is terminal, so nothing serves the *)
(* CR again before an edit or a restart, and its status must say so.       *)
DeletedOrServed ==
  <>[](/\ phase1 # "deleting" /\ phase2 # "deleting"
       /\ phase1 = "live" /\ phase2 = "absent" =>
            IF managed1
            THEN One!Matches(aws[spec1.id]) /\ status1.conds.synced = "True"
            ELSE status1.conds.terminal = "True"
       /\ phase2 = "live" /\ phase1 = "absent" =>
            IF managed2
            THEN Two!Matches(aws[spec2.id]) /\ status2.conds.synced = "True"
            ELSE status2.conds.terminal = "True")
===========================================================================
